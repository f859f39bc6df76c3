----------------------------- MODULE ResultChart -----------------------------
(***************************************************************************)
(* The charts that show a result: the equity curves of BacktestRunner      *)
(* (useBacktestChart) and of StrategyBacktest, the curves of a comparison  *)
(* (ComparisonChart) and the areas of the performance dashboard            *)
(* (PerfAreaChart).  Each has an effect without dependencies that creates  *)
(* the chart in its container, and one that draws when the data changes.   *)
(* An action is one change of props or state with its render and effects.  *)
(* StrategyBacktest computes its result itself, in a timer of 50 ms.       *)
(***************************************************************************)
EXTENDS Naturals, Sequences, FiniteSets

CONSTANTS Hosts,      \* which of "runner", "strategy", "comparison", "performance"
          Curves,     \* names of equity curves
          Times,      \* times of the dashboard's points
          MaxPoints,  \* bound: points of one series
          MaxEdits    \* bound: changes of the rules, the settings or the candles

VARIABLES open,       \* the component is on the screen
          data,       \* what it is to show
          chart,      \* the chart exists
          drawn,      \* the data of its series
          edits,      \* version of the backtest's inputs
          timer,      \* inputs of the local backtest that is about to run, 0 if none
          asked,      \* inputs on the screen when the button was pressed, 0 if it was not
          crashed     \* the chart library has thrown

vars == <<open, data, chart, drawn, edits, timer, asked, crashed>>

NoData == [kind |-> "none"]
Failed == [kind |-> "error"]
CurvesOf(S, v) == [kind |-> "curves", names |-> S, version |-> v]
PointsOf(s) == [kind |-> "points", points |-> s]
Usable(d) == d.kind \in {"curves", "points"}

Points == [time : Times, finite : BOOLEAN]
Series == UNION {[1 .. n -> Points] : n \in 0 .. MaxPoints}

\* What the parent can hand to a host.  The server's answers need not carry the
\* same curves every time.
Inputs(h) ==
  CASE h = "performance" -> {PointsOf(s) : s \in Series}
    [] h = "comparison" -> {CurvesOf(S, 0) : S \in SUBSET Curves \ {{}}}
    [] OTHER -> {Failed} \cup {CurvesOf(S, 0) : S \in SUBSET Curves}

\* What a host can appear with: the backtest panels start without a result.
FirstInputs(h) == IF h \in {"comparison", "performance"} THEN Inputs(h) ELSE {NoData}

Init ==
  /\ open = [h \in Hosts |-> FALSE] /\ chart = [h \in Hosts |-> FALSE]
  /\ data = [h \in Hosts |-> NoData] /\ drawn = [h \in Hosts |-> NoData]
  /\ edits = 1 /\ timer = 0 /\ asked = 0 /\ crashed = FALSE

-----------------------------------------------------------------------------
(* Creating and drawing. *)

\* The container is in the document: the first two show it with a result only.
Container(h, d) == h \in {"comparison", "performance"} \/ Usable(d)

\* A finite set of numbers as an increasing list.
Sorted(K) ==
  CHOOSE s \in [1 .. Cardinality(K) -> K] : \A i, j \in DOMAIN s : i < j => s[i] < s[j]

\* The finite points, the last one of each time, by time.
Clean(s) ==
  LET times == Sorted({s[i].time : i \in {j \in DOMAIN s : s[j].finite}})
  IN [k \in DOMAIN times |-> [time |-> times[k], finite |-> TRUE]]

\* lightweight-charts: setData throws on values that are not finite and on times
\* that do not ascend.
Accepts(s) == \A i \in DOMAIN s : s[i].finite /\ (i > 1 => s[i - 1].time < s[i].time)

\* What the series hold after the effect: the old ones are removed first, except
\* that an area without points is left alone.
Drawn(h, there, d) ==
  IF ~there THEN NoData
  ELSE IF d.kind = "points"
       THEN (IF Clean(d.points) = <<>> THEN drawn[h] ELSE PointsOf(Clean(d.points)))
       ELSE (IF Usable(d) THEN d ELSE drawn[h])

Throws(h, there, d) == there /\ d.kind = "points" /\ ~Accepts(Clean(d.points))

\* The component appears, with the data its parent has for it; an area narrower
\* than ten pixels gets no chart.
Mount(h, d, wide) ==
  LET there == Container(h, d) /\ (h = "performance" => wide)
  IN /\ ~open[h] /\ open' = [open EXCEPT ![h] = TRUE]
     /\ chart' = [chart EXCEPT ![h] = there]
     /\ data' = [data EXCEPT ![h] = d]
     /\ drawn' = [drawn EXCEPT ![h] = Drawn(h, there, d)]
     /\ crashed' = (crashed \/ Throws(h, there, d))
     /\ UNCHANGED <<edits, timer, asked>>

\* Chart and observer are removed; StrategyBacktest's timer runs into nothing.
Unmount(h) ==
  /\ open[h] /\ open' = [open EXCEPT ![h] = FALSE]
  /\ chart' = [chart EXCEPT ![h] = FALSE]
  /\ data' = [data EXCEPT ![h] = NoData] /\ drawn' = [drawn EXCEPT ![h] = NoData]
  /\ timer' = IF h = "strategy" THEN 0 ELSE timer
  /\ asked' = IF h = "strategy" THEN 0 ELSE asked
  /\ UNCHANGED <<edits, crashed>>

\* New data: the creating effect does not run again.
Show(h, d) ==
  /\ open[h] /\ data' = [data EXCEPT ![h] = d]
  /\ drawn' = [drawn EXCEPT ![h] = Drawn(h, chart[h], d)]
  /\ crashed' = (crashed \/ Throws(h, chart[h], d))
  /\ UNCHANGED <<open, chart, edits>>

\* A host whose result comes from outside gets a new one.
Deliver(h, d) == h # "strategy" /\ Show(h, d) /\ UNCHANGED <<timer, asked>>

-----------------------------------------------------------------------------
(* The backtest of StrategyBacktest. *)

EditInputs ==
  /\ "strategy" \in Hosts /\ edits < MaxEdits /\ edits' = edits + 1
  /\ UNCHANGED <<open, data, chart, drawn, timer, asked, crashed>>

\* handleRun: the button is disabled while the timer is armed.
HandleRun ==
  /\ "strategy" \in Hosts /\ open["strategy"] /\ timer = 0
  /\ timer' = edits /\ asked' = edits
  /\ UNCHANGED <<open, data, chart, drawn, edits, crashed>>

\* The timer: the backtest of the inputs it was made with, or its error.
LocalResult(S) ==
  /\ timer # 0 /\ timer' = 0 /\ UNCHANGED asked
  /\ \E d \in {CurvesOf(S, timer), Failed} : Show("strategy", d)

LocalDone == \E S \in SUBSET Curves : LocalResult(S)

Next ==
  \/ EditInputs \/ HandleRun \/ LocalDone
  \/ \E h \in Hosts : \/ Unmount(h)
                      \/ \E d \in FirstInputs(h), wide \in BOOLEAN : Mount(h, d, wide)
                      \/ \E d \in Inputs(h) : Deliver(h, d)

\* The browser runs its timers.
Spec == Init /\ [][Next]_vars /\ WF_vars(LocalDone)

-----------------------------------------------------------------------------
(***************************************************************************)
(* What the chart shows is the result the panel has, with no curve left    *)
(* over from an earlier one ("create once, ... sync line series when       *)
(* result changes").                                                       *)
(***************************************************************************)
ResultDrawn == \A h \in Hosts : open[h] /\ data[h].kind = "curves" => drawn[h] = data[h]

(***************************************************************************)
(* The dashboard's areas never pass the chart library what it throws on,   *)
(* "or the component crashes into the error boundary on every data push".  *)
(***************************************************************************)
NeverThrows == ~crashed

(***************************************************************************)
(* The backtest shown is the one asked for, also when rules, settings or   *)
(* candles change while the timer waits.                                   *)
(***************************************************************************)
ResultIsOfClick ==
  "strategy" \in Hosts /\ timer = 0 /\ data["strategy"].kind = "curves" =>
    data["strategy"].version = asked

(***************************************************************************)
(* The Run button always comes back.                                       *)
(***************************************************************************)
LocalRunEnds == (timer # 0) ~> (timer = 0)
=============================================================================
