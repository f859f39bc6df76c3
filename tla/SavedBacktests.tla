--------------------------- MODULE SavedBacktests ---------------------------
(***************************************************************************)
(* The saved backtests: the list of BacktestRunner (useSavedBacktests), the *)
(* rows of BacktestComparison, and the localStorage key they share within  *)
(* a tab and with the other tabs.  Writers notify their own tab with a     *)
(* custom event, at once; the browser tells the other tabs with a          *)
(* `storage` event, some time later and only when the value has changed.   *)
(***************************************************************************)
EXTENDS Integers, Sequences, SequencesExt

CONSTANTS Tabs,        \* tabs that show both panels
          Names,       \* strategies of one backtest: each is a row
          MaxSaves,    \* bound: backtests saved
          Keep,        \* backtests kept (10 in the code)
          MaxRows,     \* rows that can be ticked one by one (6 in the code)
          MaxTicks,    \* bound: backtests ticked for a comparison
          MaxTimers,   \* bound: comparison timeouts running in one tab
          Quota        \* TRUE: writing to localStorage may fail

VARIABLES store,       \* the stored list of backtest ids, oldest first
          saved,       \* per tab: savedBacktests of the runner
          ticked,      \* per tab: selectedForCompare
          rows,        \* per tab: the backtests whose rows the comparison shows
          rowsTicked,  \* per tab: `selected`, a set of <<id, name>>
          event,       \* per tab: a storage event is on its way
          unsaved,     \* per tab: the runner's list could not be written
          compare,     \* per tab: [loading, timers, inFlight]
          saves,       \* number of backtests saved so far
          gone         \* ids deleted, cleared, pushed out or never written

vars == <<store, saved, ticked, rows, rowsTicked, event, unsaved, compare, saves, gone>>

Ids == 1 .. MaxSaves
KeepLast(s) == SubSeq(s, IF Len(s) > Keep THEN Len(s) - Keep + 1 ELSE 1, Len(s))
\* The filter by id: an id is in a list at most once.
Without(s, id) == IF id \in ToSet(s) THEN RemoveAt(s, CHOOSE k \in DOMAIN s : s[k] = id) ELSE s

TypeOK ==
  /\ store \in Seq(Ids) /\ Len(store) <= Keep
  /\ \A t \in Tabs : ToSet(saved[t]) \subseteq Ids /\ ToSet(rows[t]) \subseteq Ids
  /\ \A t \in Tabs : ticked[t] \subseteq Ids /\ rowsTicked[t] \subseteq Ids \X Names
  /\ compare \in [Tabs -> [loading : BOOLEAN, timers : 0 .. MaxTimers, inFlight : BOOLEAN]]

Init ==
  /\ store = << >> /\ saves = 0 /\ gone = {}
  /\ saved = [t \in Tabs |-> << >>] /\ rows = [t \in Tabs |-> << >>]
  /\ ticked = [t \in Tabs |-> {}] /\ rowsTicked = [t \in Tabs |-> {}]
  /\ event = [t \in Tabs |-> FALSE] /\ unsaved = [t \in Tabs |-> FALSE]
  /\ compare = [t \in Tabs |-> [loading |-> FALSE, timers |-> 0, inFlight |-> FALSE]]

\* Mutant: the writer does not tell its own tab.
WriteSilently(t, list) ==
  /\ store' = list
  /\ event' = [u \in Tabs |-> event[u] \/ (u # t /\ list # store)]
  /\ saved' = [saved EXCEPT ![t] = list]
  /\ UNCHANGED <<rows, unsaved>>

\* setItem, then the custom event: both panels of tab t read the new value.
Write(t, list) ==
  /\ store' = list
  /\ event' = [u \in Tabs |-> event[u] \/ (u # t /\ list # store)]
  /\ saved' = [saved EXCEPT ![t] = list]
  /\ rows' = [rows EXCEPT ![t] = list]
  /\ unsaved' = [unsaved EXCEPT ![t] = FALSE]

\* setItem throws: the runner shows its list, nothing is stored or announced.
WriteFails(t, list) ==
  /\ Quota
  /\ saved' = [saved EXCEPT ![t] = list]
  /\ unsaved' = [unsaved EXCEPT ![t] = TRUE]
  /\ UNCHANGED <<store, event, rows>>

-----------------------------------------------------------------------------
(* BacktestRunner. *)

\* handleSaveBacktest: appended to what this tab shows, the last Keep stay.
SaveBacktest(t) ==
  /\ saves < MaxSaves
  /\ LET all == Append(saved[t], saves + 1)
         next == KeepLast(all)
         pushedOut == ToSet(all) \ ToSet(next)
     IN \/ Write(t, next) /\ gone' = gone \cup pushedOut
        \/ WriteFails(t, next) /\ gone' = gone \cup pushedOut \cup {saves + 1}
  /\ saves' = saves + 1
  /\ UNCHANGED <<ticked, rowsTicked, compare>>

\* handleDeleteSaved: the tick stays.
DeleteSaved(t, id) ==
  /\ id \in ToSet(saved[t])
  /\ Write(t, Without(saved[t], id)) \/ WriteFails(t, Without(saved[t], id))
  /\ gone' = gone \cup {id}
  /\ UNCHANGED <<ticked, rowsTicked, compare, saves>>

ToggleSelectForCompare(t, id) ==
  /\ id \in ToSet(saved[t])
  /\ id \in ticked[t] \/ Cardinality(ticked[t]) < MaxTicks
  /\ ticked' = [ticked EXCEPT ![t] = IF id \in @ THEN @ \ {id} ELSE @ \cup {id}]
  /\ UNCHANGED <<store, saved, rows, rowsTicked, event, unsaved, compare, saves, gone>>

\* The button is there with two ticks or more; what is sent is the ticked part
\* of the list, and nothing when that is less than two.
RunShown(t) == Cardinality(ticked[t]) >= 2 /\ Len(saved[t]) > 0
Selected(t) == {id \in ToSet(saved[t]) : id \in ticked[t]}
RunComparison(t) ==
  /\ RunShown(t) /\ ~compare[t].loading /\ compare[t].timers < MaxTimers
  /\ Cardinality(Selected(t)) >= 2
  /\ compare' = [compare EXCEPT ![t] = [loading |-> TRUE, timers |-> @.timers + 1, inFlight |-> TRUE]]
  /\ UNCHANGED <<store, saved, ticked, rows, rowsTicked, event, unsaved, saves, gone>>

\* The untracked 15 s timeout ends whatever comparison is loading.
CompareTimeout(t) ==
  /\ compare[t].timers > 0
  /\ compare' =
       [compare EXCEPT ![t] = [loading |-> FALSE, timers |-> @.timers - 1, inFlight |-> @.inFlight]]
  /\ UNCHANGED <<store, saved, ticked, rows, rowsTicked, event, unsaved, saves, gone>>

\* handleComparisonMessage.
CompareAnswer(t) ==
  /\ compare[t].inFlight
  /\ compare' =
       [compare EXCEPT ![t] = [loading |-> FALSE, timers |-> @.timers, inFlight |-> FALSE]]
  /\ UNCHANGED <<store, saved, ticked, rows, rowsTicked, event, unsaved, saves, gone>>

-----------------------------------------------------------------------------
(* BacktestComparison. *)

RowsOf(t) == ToSet(rows[t]) \X Names

ToggleRow(t, r) ==
  /\ r \in RowsOf(t)
  /\ rowsTicked' = [rowsTicked EXCEPT ![t] =
       IF r \in @ THEN @ \ {r} ELSE IF Cardinality(@) < MaxRows THEN @ \cup {r} ELSE @]
  /\ UNCHANGED <<store, saved, ticked, rows, event, unsaved, compare, saves, gone>>

\* The box in the header ticks all rows, or none.
ToggleAllRows(t) ==
  /\ rows[t] # << >>
  /\ rowsTicked' = [rowsTicked EXCEPT ![t] =
       IF Cardinality(@) = Cardinality(RowsOf(t)) THEN {} ELSE RowsOf(t)]
  /\ UNCHANGED <<store, saved, ticked, rows, event, unsaved, compare, saves, gone>>

\* removeResult: the whole backtest leaves the stored list, one tick goes.
RemoveResult(t, r) ==
  /\ r \in RowsOf(t)
  /\ Write(t, Without(store, r[1]))
  /\ rowsTicked' = [rowsTicked EXCEPT ![t] = @ \ {r}]
  /\ gone' = gone \cup {r[1]}
  /\ UNCHANGED <<ticked, compare, saves>>

ClearAll(t) ==
  /\ rows[t] # << >>
  /\ Write(t, << >>)
  /\ rowsTicked' = [rowsTicked EXCEPT ![t] = {}]
  /\ gone' = gone \cup ToSet(store) \cup ToSet(rows[t])
  /\ UNCHANGED <<ticked, compare, saves>>

-----------------------------------------------------------------------------
(* Events. *)

\* Another tab has written: both panels read the list.
StorageEvent(t) ==
  /\ event[t]
  /\ event' = [event EXCEPT ![t] = FALSE]
  /\ saved' = [saved EXCEPT ![t] = store]
  /\ rows' = [rows EXCEPT ![t] = store]
  /\ unsaved' = [unsaved EXCEPT ![t] = FALSE]
  /\ UNCHANGED <<store, ticked, rowsTicked, compare, saves, gone>>

\* The tab regains focus: only the comparison reads the list.
Focus(t) ==
  /\ rows' = [rows EXCEPT ![t] = store]
  /\ UNCHANGED <<store, saved, ticked, rowsTicked, event, unsaved, compare, saves, gone>>

Next ==
  \E t \in Tabs :
    \/ SaveBacktest(t) \/ RunComparison(t) \/ CompareTimeout(t) \/ CompareAnswer(t)
    \/ ToggleAllRows(t) \/ ClearAll(t) \/ StorageEvent(t) \/ Focus(t)
    \/ \E id \in Ids : DeleteSaved(t, id) \/ ToggleSelectForCompare(t, id)
    \/ \E r \in Ids \X Names : ToggleRow(t, r) \/ RemoveResult(t, r)

\* The browser delivers storage events, and timeouts run off.
Fairness == \A t \in Tabs : WF_vars(StorageEvent(t)) /\ WF_vars(CompareTimeout(t))
Spec == Init /\ [][Next]_vars /\ Fairness

-----------------------------------------------------------------------------
(***************************************************************************)
(* A tab without a storage event on its way shows what is stored, in the   *)
(* runner and in the comparison: every write reaches the panels of its own *)
(* tab at once (notifySavedChanged) and those of the others by the event.  *)
(***************************************************************************)
TabsShowTheStore ==
  \A t \in Tabs : ~event[t] => rows[t] = store /\ (~unsaved[t] => saved[t] = store)

(***************************************************************************)
(* A saved backtest disappears only when the user deletes or clears it or  *)
(* when ten newer ones have pushed it out ("keep last 10").                *)
(***************************************************************************)
NoBacktestLost == \A id \in 1 .. saves : id \in ToSet(store) \/ id \in gone

(***************************************************************************)
(* The number on the button "Run Comparison (n)" is the number of          *)
(* backtests it compares.                                                  *)
(***************************************************************************)
ButtonCountsSelected == \A t \in Tabs : RunShown(t) => Cardinality(ticked[t]) = Cardinality(Selected(t))

(***************************************************************************)
(* Every comparison ends: "Comparison timed out" when nothing comes back,  *)
(* also when backtests are deleted or other tabs write while it runs.      *)
(***************************************************************************)
ComparisonEnds == \A t \in Tabs : compare[t].loading ~> ~compare[t].loading

(***************************************************************************)
(* Tabs converge: a tab that shows something else than what is stored      *)
(* eventually catches up, unless it could not write its own list.          *)
(***************************************************************************)
Lagging(t) == saved[t] # store \/ rows[t] # store
TabsConverge == \A t \in Tabs : Lagging(t) ~> ~Lagging(t)
=============================================================================
