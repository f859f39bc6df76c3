---------------------------- MODULE ExecutionBot ----------------------------
(***************************************************************************)
(* The panel components/ExecutionBot.jsx: an order cut into slices that    *)
(* are sent one per interval.  An interval keeps the inputs and the symbol *)
(* of the render in which it was started; prices are read from a ref that  *)
(* follows the symbol now selected.  A price is represented by the symbol  *)
(* it belongs to.  Delays are not modelled: an interval may fire at any    *)
(* time while it exists.                                                   *)
(***************************************************************************)
EXTENDS Naturals, FiniteSets

CONSTANTS Symbols, First,  \* symbols, and the one selected at first
          SliceCounts,     \* values of the input "Slices", Number('') = 0 included
          MaxActs          \* bound: what the user does

VARIABLES
  strategy, slices,   \* inputs; slices is disabled while running
  symbol,             \* the prop
  connected,
  running, done,      \* state; done: the log says "Execution complete"
  sliceIdx, prices,   \* refs; prices as the set of symbols they belong to
  intervals,          \* intervals that exist: number and closure
  intervalRef,        \* the number in intervalRef.current, 0 for null
  started,            \* intervals ever started
  order,              \* the last message given to the connection
  sent, planned,      \* history: slices sent in this run, and how many it was started with
  mounted, acts

inputs == <<strategy, slices, symbol, connected>>
vars == <<inputs, running, done, sliceIdx, prices, intervals, intervalRef, started, order, sent, planned, mounted, acts>>

NoOrder == [type |-> "none", symbol |-> First, priced |-> {}]

Init ==
  /\ strategy = "twap" /\ slices \in SliceCounts /\ symbol = First /\ connected = TRUE
  /\ running = FALSE /\ done = FALSE
  /\ sliceIdx = 0 /\ prices = {} /\ intervals = {} /\ intervalRef = 0 /\ started = 0
  /\ order = NoOrder /\ sent = 0 /\ planned = 0
  /\ mounted = TRUE /\ acts = 0

Closure == [slices |-> slices, strategy |-> strategy, symbol |-> symbol]

-----------------------------------------------------------------------------
(* sendSlice, with what its closure holds. *)

Others == {iv \in intervals : iv.id # intervalRef}

stopExecution == running' = FALSE /\ intervals' = Others /\ intervalRef' = 0

\* submitOrder sends { type: 'order', ...order }: the bot's own field `type` wins.
Message(cl) == [type |-> "MARKET", symbol |-> cl.symbol,
                priced |-> IF cl.strategy = "vwap" /\ prices # {} THEN prices ELSE {symbol}]

Finished(cl) == sliceIdx >= cl.slices

\* What a slice that is due does to everything but running and the intervals.
Slice(cl) ==
  /\ order' = Message(cl)
  /\ prices' = prices \cup {symbol}
  /\ sliceIdx' = sliceIdx + 1 /\ sent' = sent + 1
  /\ UNCHANGED done

\* Mutant: the end is logged and the interval goes on.
TickForgetsStop(iv) ==
  /\ iv \in intervals
  /\ IF Finished(iv.closure)
     THEN /\ done' = TRUE /\ UNCHANGED <<order, prices, sliceIdx, sent>>
     ELSE Slice(iv.closure)
  /\ UNCHANGED <<inputs, running, intervals, intervalRef, started, planned, mounted, acts>>

\* An interval fires: the end of the execution, or the next slice.
Tick(iv) ==
  /\ iv \in intervals
  /\ IF Finished(iv.closure)
     THEN /\ stopExecution
          /\ done' = TRUE
          /\ UNCHANGED <<order, prices, sliceIdx, sent>>
     ELSE /\ Slice(iv.closure)
          /\ UNCHANGED <<running, intervals, intervalRef>>
  /\ UNCHANGED <<inputs, started, planned, mounted, acts>>

-----------------------------------------------------------------------------
(* The user. *)

Act == mounted /\ acts < MaxActs /\ acts' = acts + 1

\* startExecution: the first slice at once, then an interval.  With no slices the
\* first call already stops, and the interval is started all the same.
startExecution ==
  /\ Act /\ ~running /\ connected
  /\ started' = started + 1 /\ intervalRef' = started + 1
  /\ planned' = slices
  /\ IF slices = 0
     THEN /\ running' = FALSE /\ done' = TRUE
          /\ intervals' = Others \cup {[id |-> started + 1, closure |-> Closure]}
          /\ sliceIdx' = 0 /\ prices' = {} /\ sent' = 0 /\ UNCHANGED order
     ELSE /\ running' = TRUE /\ done' = FALSE
          /\ intervals' = intervals \cup {[id |-> started + 1, closure |-> Closure]}
          /\ sliceIdx' = 1 /\ prices' = {symbol} /\ sent' = 1
          /\ order' = [type |-> "MARKET", symbol |-> symbol, priced |-> {symbol}]
  /\ UNCHANGED <<inputs, mounted>>

StopClick ==
  /\ Act /\ running
  /\ stopExecution
  /\ UNCHANGED <<inputs, done, sliceIdx, prices, started, order, sent, planned, mounted>>

SetStrategy(s) ==
  /\ Act /\ strategy' = s
  /\ UNCHANGED <<slices, symbol, connected, running, done, sliceIdx, prices, intervals, intervalRef, started, order, sent, planned, mounted>>

SetSlices(n) ==
  /\ Act /\ ~running /\ slices' = n
  /\ UNCHANGED <<strategy, symbol, connected, running, done, sliceIdx, prices, intervals, intervalRef, started, order, sent, planned, mounted>>

SelectSymbol(s) ==
  /\ Act /\ symbol' = s
  /\ UNCHANGED <<strategy, slices, connected, running, done, sliceIdx, prices, intervals, intervalRef, started, order, sent, planned, mounted>>

\* The connection is lost or trading is stopped, or they come back.
Connection ==
  /\ Act /\ connected' = ~connected
  /\ UNCHANGED <<strategy, slices, symbol, running, done, sliceIdx, prices, intervals, intervalRef, started, order, sent, planned, mounted>>

\* The cleanup clears the interval of the ref.
UnmountedIntervals == Others

\* The panel is hidden or its category collapsed.
Unmount ==
  /\ Act
  /\ mounted' = FALSE /\ running' = FALSE
  /\ intervals' = UnmountedIntervals
  /\ UNCHANGED <<inputs, done, sliceIdx, prices, intervalRef, started, order, sent, planned>>

Next ==
  \/ \E iv \in intervals : Tick(iv)
  \/ startExecution \/ StopClick
  \/ \E s \in {"twap", "vwap"} : SetStrategy(s)
  \/ \E n \in SliceCounts : SetSlices(n)
  \/ \E s \in Symbols : SelectSymbol(s)
  \/ Connection \/ Unmount

Spec == Init /\ [][Next]_vars

\* An interval that exists keeps firing.
LiveSpec == Spec /\ \A k \in 1..MaxActs : WF_vars(\E iv \in intervals : iv.id = k /\ Tick(iv))

-----------------------------------------------------------------------------
TypeOK ==
  /\ strategy \in {"twap", "vwap"} /\ slices \in SliceCounts /\ symbol \in Symbols
  /\ connected \in BOOLEAN /\ running \in BOOLEAN /\ done \in BOOLEAN /\ mounted \in BOOLEAN
  /\ prices \subseteq Symbols /\ order.symbol \in Symbols
  /\ intervalRef \in 0..started /\ {iv.id : iv \in intervals} \subseteq 1..started

\* No slice is sent after Stop, after the end or after the panel is gone: a slice
\* leaves only while the panel is mounted and running.
SliceNeedsRun == sent' > sent => running' /\ mounted
SendsOnlyWhileRunning == [][SliceNeedsRun]_vars

\* A run sends no more slices than it was started with.
NeverTooMany == sent <= planned

\* A run ends, whatever happens to its inputs or the connection.
RunEnds == running ~> ~running

\* "Execution complete" is logged when all slices of the run have been sent.
CompleteMeansAll == done => sent = planned

\* The bot's orders are orders to the exchange, which looks at the type of a message.
SlicesAreOrders == order # NoOrder => order.type = "order"

\* "Volume-Weighted Average Price": the price of a slice comes from its own symbol.
PricedBySymbol == order # NoOrder => order.priced = {order.symbol}
=============================================================================
