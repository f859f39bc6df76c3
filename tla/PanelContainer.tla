--------------------------- MODULE PanelContainer ---------------------------
(***************************************************************************)
(* Which sidebar panels are drawn: panels/PanelContainer.jsx over the      *)
(* registry (registry.js), the browser's storage (useLocalStorage.ts) and  *)
(* the feature flag "advanced-panels" (featureFlags.js), which the panel   *)
(* of feature flags (FeatureFlags.jsx, assumed drawn) changes too.         *)
(*                                                                         *)
(* A click and the renders it causes are one step.  The effect that writes *)
(* to the storage runs later and a reload may come first.                  *)
(***************************************************************************)
EXTENDS Naturals, FiniteSets

CONSTANTS Panels, Advanced,  \* PANELS and ADVANCED_PANEL_IDS
          Categories,        \* CATEGORIES
          Category,          \* pairs of a panel and its category
          MaxClicks          \* bound: clicks and reloads

VARIABLES
  flagStore,    \* the flag in localStorage: absent, true, false or other text
  showAdvanced, \* useFeatureFlag('advanced-panels') of PanelContainer
  flagState,    \* the copy of the panel of feature flags
  visible, collapsed,  \* the state of useLocalStorage ...
  stored,              \* ... and what localStorage holds, [visible, collapsed]
  dirty,        \* the effect that writes has not run since the last change
  settings,     \* showSettings
  last,         \* history: the last thing done
  clicks

vars == <<flagStore, showAdvanced, flagState, visible, collapsed, stored, dirty, settings, last, clicks>>

\* isFlagEnabled: a flag that was never set has its default, here off.
Enabled(v) == v = "true"

DEFAULT_VISIBLE == Panels \ Advanced

Init ==
  /\ flagStore = "absent" /\ showAdvanced = FALSE /\ flagState = FALSE
  /\ visible = DEFAULT_VISIBLE /\ collapsed = {}
  /\ stored = [visible |-> DEFAULT_VISIBLE, collapsed |-> {}] /\ dirty = FALSE
  /\ settings = FALSE /\ last = "start" /\ clicks = 0

getPanelsByCategory(c) == {p \in Panels : <<p, c>> \in Category}

\* The panels of a category that are offered, and those that are drawn.
Offered(c) == {p \in getPanelsByCategory(c) : showAdvanced \/ p \notin Advanced}
DrawnIn(c) == IF c \in collapsed THEN {} ELSE Offered(c) \cap visible

visibleCount == Cardinality(visible)
totalCount == Cardinality(IF showAdvanced THEN Panels ELSE Panels \ Advanced)

-----------------------------------------------------------------------------
Do(what) == clicks < MaxClicks /\ clicks' = clicks + 1 /\ last' = what

SetVisible(v) == visible' = v /\ dirty' = TRUE

togglePanel(p) ==
  /\ settings /\ \E c \in Categories : p \in Offered(c)
  /\ Do("panel")
  /\ SetVisible((visible \ {p}) \cup ({p} \ visible))
  /\ UNCHANGED <<flagStore, showAdvanced, flagState, collapsed, stored, settings>>

toggleCategory(c) ==
  /\ Offered(c) \cap visible # {}
  /\ Do("category")
  /\ collapsed' = (collapsed \ {c}) \cup ({c} \ collapsed)
  /\ dirty' = TRUE
  /\ UNCHANGED <<flagStore, showAdvanced, flagState, visible, stored, settings>>

\* setFlag with a Boolean: the storage, then every listener.
SetFlag(v) == /\ flagStore' = IF v THEN "true" ELSE "false"
              /\ flagState' = v

\* The panel of feature flags toggles its own copy.
toggleFlag ==
  /\ Do("flag")
  /\ SetFlag(~flagState)
  /\ showAdvanced' = ~flagState
  /\ UNCHANGED <<visible, collapsed, stored, dirty, settings>>

\* The Advanced button gives set a function.  setFlag writes its text and announces
\* "enabled" (a function is truthy), so every listener sets TRUE; the function then
\* runs on that TRUE, gives FALSE and takes the advanced panels out of `visible`.
toggleAdvanced ==
  /\ Do("advanced")
  /\ flagStore' = "other"
  /\ flagState' = TRUE
  /\ showAdvanced' = FALSE
  /\ SetVisible(visible \ Advanced)
  /\ UNCHANGED <<collapsed, stored, settings>>

ToggleSettings ==
  /\ Do("settings")
  /\ settings' = ~settings
  /\ UNCHANGED <<flagStore, showAdvanced, flagState, visible, collapsed, stored, dirty>>

\* The effect of useLocalStorage.
WriteEffect ==
  /\ dirty
  /\ stored' = [visible |-> visible, collapsed |-> collapsed]
  /\ dirty' = FALSE
  /\ UNCHANGED <<flagStore, showAdvanced, flagState, visible, collapsed, settings, last, clicks>>

Reload ==
  /\ Do("reload")
  /\ visible' = stored.visible /\ collapsed' = stored.collapsed /\ dirty' = FALSE
  /\ showAdvanced' = Enabled(flagStore) /\ flagState' = Enabled(flagStore)
  /\ settings' = FALSE
  /\ UNCHANGED <<flagStore, stored>>

Next ==
  \/ \E p \in Panels : togglePanel(p)
  \/ \E c \in Categories : toggleCategory(c)
  \/ toggleFlag \/ toggleAdvanced \/ ToggleSettings \/ WriteEffect \/ Reload

Spec == Init /\ [][Next]_vars

-----------------------------------------------------------------------------
TypeOK ==
  /\ flagStore \in {"absent", "true", "false", "other"}
  /\ showAdvanced \in BOOLEAN /\ flagState \in BOOLEAN
  /\ visible \subseteq Panels /\ collapsed \subseteq Categories
  /\ stored \in [visible : SUBSET Panels, collapsed : SUBSET Categories]
  /\ dirty \in BOOLEAN /\ settings \in BOOLEAN /\ clicks \in 0..MaxClicks

Drawn == UNION {DrawnIn(c) : c \in Categories}

\* A reload shows the sidebar as it was once the effect has written it, whichever
\* way panels, categories and the flag were changed before (useLocalStorage.ts).
ReloadShowsSame ==
  last' = "reload" /\ clicks' # clicks /\ ~dirty => Drawn' = Drawn
ReloadKeeps == [][ReloadShowsSame]_vars

\* "Toggle advanced math/research panels": the button turns them on and off.
AdvancedToggles == [][last' = "advanced" /\ clicks' # clicks => showAdvanced' # showAdvanced]_vars

\* "Single source of truth for feature flags": whoever reads the flag reads the same.
OneTruth == showAdvanced = flagState /\ showAdvanced = Enabled(flagStore)

\* "n/m panels" counts panels out of the m that are offered.
CountIsOffered == visible \subseteq UNION {Offered(c) : c \in Categories} /\ visibleCount <= totalCount
=============================================================================
