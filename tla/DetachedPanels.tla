--------------------------- MODULE DetachedPanels ---------------------------
(***************************************************************************)
(* Panels in windows of their own: DetachablePanel.jsx (the button),       *)
(* useDetachedPanelSync.js (what they are fed) and useDetachablePanels.js  *)
(* (the windows).  A window is known to the browser by its panel's name    *)
(* and outlives a reload of the page; popupsRef does not.                  *)
(***************************************************************************)
EXTENDS Naturals

CONSTANTS Panels,    \* the keys of PANEL_CONFIG
          Symbols, First,  \* symbols, and the one selected at first
          MaxData,   \* bound: changes of the data
          MaxActs    \* bound: what the user does

VARIABLES
  win,      \* panels whose window is open
  popups,   \* keys of popupsRef.current; the window may have been closed since
  orphans,  \* history: windows opened before the last reload and not referred to since
  built,    \* how often header and content were added to the window's document
  content,  \* what the window's (first) content element shows
  data,     \* the selected symbol and the number of its last update
  drawn,    \* what the page last rendered with
  icon,     \* panels whose button shows "detached"
  flag,     \* the feature flag "detachable-panels"
  app,      \* up, or crashed (caught by TopErrorBoundary)
  clicked,  \* history: the panel whose "detached" button was just clicked
  acts

vars == <<win, popups, orphans, built, content, data, drawn, icon, flag, app, clicked, acts>>

isDetached(p) == p \in popups /\ p \in win

Init ==
  /\ win = {} /\ popups = {} /\ orphans = {}
  /\ built = [p \in Panels |-> 0]
  /\ data = [symbol |-> First, version |-> 0] /\ drawn = data
  /\ content = [p \in Panels |-> data]
  /\ icon = {} /\ flag = TRUE /\ app = "up" /\ clicked = {} /\ acts = 0

-----------------------------------------------------------------------------
(* The page. *)

Data ==
  /\ app = "up" /\ data.version < MaxData
  /\ data' = [data EXCEPT !.version = @ + 1]
  /\ UNCHANGED <<win, popups, orphans, built, content, drawn, icon, flag, app, clicked, acts>>

\* updateDetached for every window that is still open.
Fed(p) == IF isDetached(p) THEN data ELSE content[p]

\* A render, and the effect that feeds the windows.
Render ==
  /\ app = "up" /\ drawn # data
  /\ drawn' = data
  /\ content' = [p \in Panels |-> Fed(p)]
  /\ icon' = {p \in Panels : isDetached(p)}
  /\ UNCHANGED <<win, popups, orphans, built, data, flag, app, clicked, acts>>

\* The cleanup of useDetachablePanels closes what popupsRef holds.
Cleanup == win' = win \ popups

Crash ==
  /\ app = "up" /\ app' = "crashed"
  /\ Cleanup
  /\ popups' = {} /\ clicked' = {}
  /\ UNCHANGED <<orphans, built, content, data, drawn, icon, flag, acts>>

-----------------------------------------------------------------------------
(* The user. *)

Act == acts < MaxActs /\ acts' = acts + 1

\* window.open(name) gives the window of that name if there is one, with the
\* document it already has, and a new one otherwise.
Open(p) ==
  /\ win' = win \cup {p} /\ popups' = popups \cup {p} /\ orphans' = orphans \ {p}
  /\ built' = [built EXCEPT ![p] = IF p \in win THEN @ + 1 ELSE 1]
  /\ content' = [content EXCEPT ![p] = drawn]

\* handleDetach and detachPanel; `allowed` is the browser's popup blocker.
handleDetach(p, allowed) ==
  /\ Act /\ app = "up"
  /\ clicked' = {p} \cap icon
  /\ IF isDetached(p) \/ ~flag \/ ~allowed
     THEN UNCHANGED <<win, popups, orphans, built, content>>
     ELSE Open(p)
  /\ UNCHANGED <<data, drawn, icon, flag, app>>

\* The [x] of the window, or the window manager.
CloseWindow(p) ==
  /\ Act /\ p \in win
  /\ win' = win \ {p} /\ orphans' = orphans \ {p}
  /\ clicked' = {}
  /\ UNCHANGED <<popups, built, content, data, drawn, icon, flag, app>>

Select(s) ==
  /\ Act /\ app = "up" /\ s # data.symbol
  /\ data' = [data EXCEPT !.symbol = s]
  /\ clicked' = {}
  /\ UNCHANGED <<win, popups, orphans, built, content, drawn, icon, flag, app>>

ToggleFlag ==
  /\ Act /\ app = "up"
  /\ flag' = ~flag /\ clicked' = {}
  /\ UNCHANGED <<win, popups, orphans, built, content, data, drawn, icon, app>>

\* A reload of the page, also from the error screen.
Reload ==
  /\ Act
  /\ popups' = {} /\ orphans' = win /\ icon' = {} /\ app' = "up"
  /\ data' = [symbol |-> First, version |-> data.version] /\ drawn' = data'
  /\ clicked' = {}
  /\ UNCHANGED <<win, built, content, flag>>

Next ==
  \/ Data \/ Render \/ Crash
  \/ \E p \in Panels, allowed \in BOOLEAN : handleDetach(p, allowed)
  \/ \E p \in Panels : CloseWindow(p)
  \/ \E s \in Symbols : Select(s)
  \/ ToggleFlag \/ Reload

Spec == Init /\ [][Next]_vars

-----------------------------------------------------------------------------
TypeOK ==
  /\ win \subseteq Panels /\ popups \subseteq Panels /\ icon \subseteq Panels
  /\ orphans \subseteq win
  /\ built \in [Panels -> 0..MaxActs]
  /\ content \in [Panels -> [symbol : Symbols, version : 0..MaxData]]
  /\ flag \in BOOLEAN /\ app \in {"up", "crashed"}

\* Once the page has rendered, a window it opened shows the symbol that is selected
\* and its last update, whether it was opened before or after the change.
FedWhenRendered ==
  app = "up" /\ drawn = data => \A p \in Panels : isDetached(p) => content[p] = data

\* When the page comes down its windows are closed with it.
ClosedWithPage == app = "crashed" => win \subseteq orphans

\* "Keeps detached (floating) panels fed with live data".
FedAlways == app = "up" /\ drawn = data => \A p \in win : content[p] = data

\* "Panel detached - click to re-attach": the click closes the window.
Reattaches == clicked \cap win = {}

\* "Close existing popup for this panel": a window is built once.
BuiltOnce == \A p \in win : built[p] = 1
=============================================================================
