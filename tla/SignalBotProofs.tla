-------------------------- MODULE SignalBotProofs --------------------------
(***************************************************************************)
(* What SignalBot guarantees for every set of symbols and every setting of  *)
(* the circuit breaker: its counters agree with the history of outcomes, it *)
(* closes only after a full streak of successes, and the kill-switch latch  *)
(* stops every order.                                                       *)
(***************************************************************************)
EXTENDS SignalBot, TLAPS

\* The inductive invariant: CountsAreStreaks needs the ranges of the counters.
SignalInv == TypeOK /\ CountsAreStreaks

\* The part of the invariant that the breaker and its history decide.
BreakerInv ==
    /\ state \in {"CLOSED", "OPEN", "HALF_OPEN"}
    /\ failures \in 0..(FailureThreshold - 1)
    /\ successes \in 0..(SuccessThreshold - 1)
    /\ probes \in 0..MaxProbes
    /\ losses \in 0..FailureThreshold
    /\ wins \in 0..SuccessThreshold
    /\ CountsAreStreaks

\* The types of the main loop and of its tasks.
TaskInv ==
    /\ phase \in {"asleep", "statarb", "tasks"}
    /\ task \in [Symbols -> {"done", "ready", "broadcasting", "sending", "creating"}]
    /\ pushed \subseteq Symbols
    /\ adapters \in Nat

\* The Boolean variables.
FlagInv ==
    /\ cooling \in BOOLEAN
    /\ killed \in BOOLEAN
    /\ trading \in BOOLEAN
    /\ connected \in BOOLEAN
    /\ healthy \in BOOLEAN

\* The invariant is the conjunction of its three parts, before and after a step.
LEMMA SignalInvParts ==
    /\ SignalInv <=> BreakerInv /\ TaskInv /\ FlagInv
    /\ SignalInv' <=> BreakerInv' /\ TaskInv' /\ FlagInv'
  BY Zenon DEF SignalInv, BreakerInv, TaskInv, FlagInv, TypeOK

\* Initially nothing has happened.
LEMMA InitSignal == Init => SignalInv
<1> SUFFICES ASSUME Init PROVE SignalInv
  OBVIOUS
<1>1. BreakerInv
  BY SignalBotAssumption DEF Init, BreakerInv, CountsAreStreaks
<1>2. TaskInv
  BY DEF Init, TaskInv
<1>3. FlagInv
  BY Zenon DEF Init, FlagInv
<1> QED
  BY <1>1, <1>2, <1>3, SignalInvParts

\* record_failure keeps the counters in step with the history of outcomes.
LEMMA FailureKeepsBreaker ==
  ASSUME BreakerInv, RecordFailure
  PROVE  BreakerInv' /\ (state' = "CLOSED" => state = "CLOSED")
<1>1. losses' \in 0..FailureThreshold /\ wins' = 0 /\ successes' = 0 /\ probes' = probes
  BY SignalBotAssumption DEF BreakerInv, RecordFailure, Failed
<1>2. CASE state = "HALF_OPEN" \/ Trips
  <2>1. state' = "OPEN" /\ failures' = 0
    BY <1>2, Zenon DEF RecordFailure, Trip
  <2> QED
    BY <1>1, <2>1, SignalBotAssumption DEF BreakerInv, CountsAreStreaks
<1>3. CASE ~(state = "HALF_OPEN" \/ Trips)
  <2>1. state' = state /\ failures' = failures + 1
    BY <1>3, Zenon DEF RecordFailure
  <2>2. failures + 1 < FailureThreshold
    BY <1>3, SignalBotAssumption DEF Trips, BreakerInv
  <2>3. state = "CLOSED" => losses' = losses + 1
    BY SignalBotAssumption DEF BreakerInv, CountsAreStreaks, RecordFailure, Failed
  <2> QED
    BY <1>1, <2>1, <2>2, <2>3, SignalBotAssumption DEF BreakerInv, CountsAreStreaks
<1> QED
  BY <1>2, <1>3

\* record_success keeps the counters in step with the history of outcomes, and
\* closes the breaker only after SuccessThreshold successes in a row.
LEMMA SuccessKeepsBreaker ==
  ASSUME BreakerInv, RecordSuccess
  PROVE  /\ BreakerInv'
         /\ state # "CLOSED" /\ state' = "CLOSED" => wins' >= SuccessThreshold
<1>1. CASE state = "HALF_OPEN" /\ successes + 1 >= SuccessThreshold
  <2>1. state' = "CLOSED" /\ failures' = 0 /\ successes' = 0
    <3>1. ~(state = "HALF_OPEN" /\ successes + 1 < SuccessThreshold)
      BY <1>1, SignalBotAssumption DEF BreakerInv
    <3> QED
      BY <1>1, <3>1 DEF RecordSuccess
  <2> QED
    BY <1>1, <2>1, SignalBotAssumption
       DEF BreakerInv, CountsAreStreaks, RecordSuccess, Succeeded
<1>2. CASE state = "HALF_OPEN" /\ successes + 1 < SuccessThreshold
  BY <1>2, SignalBotAssumption
     DEF BreakerInv, CountsAreStreaks, RecordSuccess, Succeeded
<1>3. CASE state = "CLOSED"
  BY <1>3, SignalBotAssumption
     DEF BreakerInv, CountsAreStreaks, RecordSuccess, Succeeded
<1>4. CASE state = "OPEN"
  BY <1>4, SignalBotAssumption
     DEF BreakerInv, CountsAreStreaks, RecordSuccess, Succeeded
<1> QED
  BY <1>1, <1>2, <1>3, <1>4, SignalBotAssumption DEF BreakerInv

\* allow_signal changes the state only from OPEN to HALF_OPEN.
LEMMA AllowKeepsBreaker ==
  ASSUME BreakerInv, Allow
  PROVE  BreakerInv' /\ (state' = "CLOSED" => state = "CLOSED")
  BY SignalBotAssumption
     DEF BreakerInv, CountsAreStreaks, Allow, Current, Expired, outcomes

\* What leaves the breaker and the outcomes alone keeps its part.
LEMMA UnchangedKeepsBreaker ==
  ASSUME BreakerInv, UNCHANGED <<breaker, outcomes>>
  PROVE  BreakerInv' /\ state' = state
  BY DEF BreakerInv, CountsAreStreaks, breaker, outcomes

\* A task's next wait is of the right kind.
LEMMA BecomesType ==
  ASSUME TaskInv, NEW s \in Symbols,
         NEW step \in {"done", "broadcasting", "sending", "creating"}, Becomes(s, step)
  PROVE  task' \in [Symbols -> {"done", "ready", "broadcasting", "sending", "creating"}]
  BY DEF TaskInv, Becomes

\* Pushing a signal adds at most its symbol.
LEMMA PushType ==
  ASSUME TaskInv, NEW s \in Symbols, Push(s)
  PROVE  pushed' \subseteq Symbols
  BY DEF TaskInv, Push

\* The step closes the breaker only after a full streak of successes.
Earned == state # "CLOSED" /\ state' = "CLOSED" => wins' >= SuccessThreshold

\* The flags of the world and of the breaker after a step that leaves them.
LEMMA FlagsStay ==
  ASSUME FlagInv, UNCHANGED <<cooling, world>>
  PROVE  FlagInv'
  BY Zenon DEF FlagInv, world

\* An outcome leaves the cooldown a Boolean.
LEMMA OutcomeFlags ==
  ASSUME FlagInv, RecordFailure \/ RecordSuccess, UNCHANGED world
  PROVE  FlagInv'
<1>1. cooling' \in BOOLEAN
  BY Zenon DEF FlagInv, RecordFailure, RecordSuccess, Trip
<1> QED
  BY <1>1, Zenon DEF FlagInv, world

\* The steps of a symbol's task keep the invariant.
LEMMA TaskStepKeeps ==
  ASSUME BreakerInv, TaskInv, FlagInv, NEW s \in Symbols, TaskStep(s)
  PROVE  BreakerInv' /\ TaskInv' /\ FlagInv' /\ Earned
<1>1. CASE Blocked(s)
  <2>1. BreakerInv' /\ Earned
    BY <1>1, UnchangedKeepsBreaker DEF Blocked, Earned, Block
  <2>2. TaskInv'
    BY <1>1, BecomesType DEF Blocked, TaskInv
  <2>3. FlagInv'
    BY <1>1, FlagsStay DEF Blocked, Block, breaker
  <2> QED
    BY <2>1, <2>2, <2>3
<1>2. CASE Broadcast(s)
  <2>1. BreakerInv' /\ Earned
    BY <1>2, AllowKeepsBreaker DEF Broadcast, Earned
  <2>2. TaskInv'
    BY <1>2, BecomesType DEF Broadcast, TaskInv
  <2>3. FlagInv'
    BY <1>2, FlagsStay DEF Broadcast, Allow
  <2> QED
    BY <2>1, <2>2, <2>3
<1>3. CASE StopAtGate(s)
  <2>1. BreakerInv' /\ Earned
    BY <1>3, UnchangedKeepsBreaker DEF StopAtGate, Earned
  <2>2. TaskInv'
    BY <1>3, BecomesType, PushType DEF StopAtGate, TaskInv
  <2>3. FlagInv'
    BY <1>3, FlagsStay DEF StopAtGate, breaker
  <2> QED
    BY <2>1, <2>2, <2>3
<1>4. CASE Unsized(s)
  <2>1. BreakerInv' /\ Earned
    BY <1>4, UnchangedKeepsBreaker DEF Unsized, Earned
  <2>2. TaskInv'
    BY <1>4, BecomesType, PushType DEF Unsized, TaskInv
  <2>3. FlagInv'
    BY <1>4, FlagsStay DEF Unsized, breaker
  <2> QED
    BY <2>1, <2>2, <2>3
<1>5. CASE Disconnected(s)
  <2>1. BreakerInv' /\ Earned
    BY <1>5, FailureKeepsBreaker DEF Disconnected, Earned
  <2>2. TaskInv'
    BY <1>5, BecomesType, PushType DEF Disconnected, TaskInv
  <2>3. FlagInv'
    BY <1>5, OutcomeFlags DEF Disconnected
  <2> QED
    BY <2>1, <2>2, <2>3
<1>6. CASE SendOrder(s)
  <2>1. BreakerInv' /\ Earned
    BY <1>6, UnchangedKeepsBreaker DEF SendOrder, Earned
  <2>2. TaskInv'
    BY <1>6, BecomesType, PushType DEF SendOrder, TaskInv
  <2>3. FlagInv'
    BY <1>6, FlagsStay DEF SendOrder, breaker
  <2> QED
    BY <2>1, <2>2, <2>3
<1>7. CASE OrderSent(s)
  <2>1. BreakerInv' /\ Earned
    BY <1>7, SuccessKeepsBreaker DEF OrderSent, Earned
  <2>2. TaskInv'
    BY <1>7, BecomesType DEF OrderSent, TaskInv
  <2>3. FlagInv'
    BY <1>7, OutcomeFlags DEF OrderSent
  <2> QED
    BY <2>1, <2>2, <2>3
<1>8. CASE SendFails(s)
  <2>1. BreakerInv' /\ Earned
    BY <1>8, FailureKeepsBreaker DEF SendFails, Earned
  <2>2. TaskInv'
    BY <1>8, BecomesType DEF SendFails, TaskInv
  <2>3. FlagInv'
    BY <1>8, OutcomeFlags DEF SendFails
  <2> QED
    BY <2>1, <2>2, <2>3
<1>9. CASE SendRaises(s)
  <2>1. BreakerInv' /\ Earned
    BY <1>9, UnchangedKeepsBreaker DEF SendRaises, Earned
  <2>2. TaskInv'
    BY <1>9, BecomesType DEF SendRaises, TaskInv
  <2>3. FlagInv'
    BY <1>9, FlagsStay DEF SendRaises, breaker
  <2> QED
    BY <2>1, <2>2, <2>3
<1>10. CASE CreateAdapter(s)
  <2>1. BreakerInv' /\ Earned
    BY <1>10, UnchangedKeepsBreaker DEF CreateAdapter, Earned
  <2>2. TaskInv'
    BY <1>10, BecomesType, PushType DEF CreateAdapter, TaskInv
  <2>3. FlagInv'
    BY <1>10, FlagsStay DEF CreateAdapter, breaker
  <2> QED
    BY <2>1, <2>2, <2>3
<1>11. CASE SkipLive(s)
  <2>1. BreakerInv' /\ Earned
    BY <1>11, UnchangedKeepsBreaker DEF SkipLive, Earned
  <2>2. TaskInv'
    BY <1>11, BecomesType, PushType DEF SkipLive, TaskInv
  <2>3. FlagInv'
    BY <1>11, FlagsStay DEF SkipLive, breaker
  <2> QED
    BY <2>1, <2>2, <2>3
<1>12. CASE AdapterCreated(s)
  <2>1. BreakerInv' /\ Earned
    BY <1>12, UnchangedKeepsBreaker DEF AdapterCreated, Earned
  <2>2. TaskInv'
    BY <1>12, BecomesType DEF AdapterCreated, TaskInv
  <2>3. FlagInv'
    BY <1>12, FlagsStay DEF AdapterCreated, breaker
  <2> QED
    BY <2>1, <2>2, <2>3
<1>13. CASE AdapterFails(s)
  <2>1. BreakerInv' /\ Earned
    BY <1>13, FailureKeepsBreaker DEF AdapterFails, Earned
  <2>2. TaskInv'
    BY <1>13, BecomesType DEF AdapterFails, TaskInv
  <2>3. FlagInv'
    BY <1>13, OutcomeFlags DEF AdapterFails
  <2> QED
    BY <2>1, <2>2, <2>3
<1>14. CASE AdapterRaises(s)
  <2>1. BreakerInv' /\ Earned
    BY <1>14, UnchangedKeepsBreaker DEF AdapterRaises, Earned
  <2>2. TaskInv'
    BY <1>14, BecomesType DEF AdapterRaises, TaskInv
  <2>3. FlagInv'
    BY <1>14, FlagsStay DEF AdapterRaises, breaker
  <2> QED
    BY <2>1, <2>2, <2>3
<1> QED
  BY <1>1, <1>2, <1>3, <1>4, <1>5, <1>6, <1>7, <1>8, <1>9, <1>10, <1>11, <1>12, <1>13, <1>14, Zenon DEF TaskStep

\* Every step keeps the invariant.
LEMMA NextSignal ==
  ASSUME SignalInv, [Next]_vars
  PROVE  SignalInv' /\ Earned
<1> USE SignalInvParts
<1>1. CASE MainLoop
  <2>1. CASE WakeUp
    <3>1. BreakerInv' /\ Earned
      BY <2>1, UnchangedKeepsBreaker DEF WakeUp, Earned
    <3>2. TaskInv'
      BY <2>1 DEF WakeUp, TaskInv
    <3>3. FlagInv'
      BY <2>1, FlagsStay DEF WakeUp, breaker
    <3> QED
      BY <3>1, <3>2, <3>3
  <2>2. CASE StatArbSignal
    <3>1. BreakerInv' /\ Earned
      BY <2>2, UnchangedKeepsBreaker, AllowKeepsBreaker DEF StatArbSignal, Block, Earned
    <3>2. TaskInv'
      BY <2>2 DEF StatArbSignal, TaskInv
    <3>3. FlagInv'
      BY <2>2, FlagsStay DEF StatArbSignal, Allow, Block, breaker
    <3> QED
      BY <3>1, <3>2, <3>3
  <2>3. ASSUME NEW S \in SUBSET Symbols, StartTasks(S)
        PROVE  SignalInv' /\ Earned
    <3>1. BreakerInv' /\ Earned
      BY <2>3, UnchangedKeepsBreaker DEF StartTasks, Earned
    <3>2. TaskInv'
      BY <2>3 DEF StartTasks, TaskInv
    <3>3. FlagInv'
      BY <2>3, FlagsStay DEF StartTasks, breaker
    <3> QED
      BY <3>1, <3>2, <3>3
  <2>4. CASE WaveDone
    <3>1. BreakerInv' /\ Earned
      BY <2>4, UnchangedKeepsBreaker DEF WaveDone, Earned
    <3>2. TaskInv'
      BY <2>4 DEF WaveDone, TaskInv
    <3>3. FlagInv'
      BY <2>4, FlagsStay DEF WaveDone, breaker
    <3> QED
      BY <3>1, <3>2, <3>3
  <2> QED
    BY <1>1, <2>1, <2>2, <2>3, <2>4, Zenon DEF MainLoop
<1>2. ASSUME NEW s \in Symbols, TaskStep(s)
      PROVE  SignalInv' /\ Earned
  BY <1>2, TaskStepKeeps
<1>3. CASE PollStatus
  <2>1. BreakerInv' /\ Earned
    BY <1>3, SignalBotAssumption
       DEF PollStatus, Expired, BreakerInv, CountsAreStreaks, Earned, outcomes
  <2>2. TaskInv'
    BY <1>3 DEF PollStatus, TaskInv
  <2>3. FlagInv'
    BY <1>3, FlagsStay DEF PollStatus
  <2> QED
    BY <2>1, <2>2, <2>3
<1>4. CASE CooldownElapses
  <2>1. BreakerInv' /\ Earned
    BY <1>4 DEF CooldownElapses, BreakerInv, CountsAreStreaks, Earned, outcomes
  <2>2. TaskInv'
    BY <1>4 DEF CooldownElapses, TaskInv
  <2>3. FlagInv'
    BY <1>4, Zenon DEF CooldownElapses, FlagInv, world
  <2> QED
    BY <2>1, <2>2, <2>3
<1>5. CASE World
  <2>1. BreakerInv' /\ Earned
    BY <1>5, UnchangedKeepsBreaker
       DEF World, KillSwitch, TradingState, Connection, Heal, Earned
  <2>2. TaskInv'
    BY <1>5 DEF World, KillSwitch, TradingState, Connection, Heal, TaskInv
  <2>3. FlagInv'
    BY <1>5, Zenon
       DEF World, KillSwitch, TradingState, Connection, Heal, FlagInv, breaker
  <2> QED
    BY <2>1, <2>2, <2>3
<1>6. CASE UNCHANGED vars
  <2>1. BreakerInv' /\ Earned
    BY <1>6, UnchangedKeepsBreaker DEF vars, Earned
  <2>2. TaskInv'
    BY <1>6 DEF vars, TaskInv
  <2>3. FlagInv'
    BY <1>6, FlagsStay DEF vars, breaker
  <2> QED
    BY <2>1, <2>2, <2>3
<1> QED
  BY <1>1, <1>2, <1>3, <1>4, <1>5, <1>6, Zenon DEF Next

\* For every set of symbols and every setting of the breaker: its counters agree
\* with the history of outcomes in every reachable state.
THEOREM StreaksAreCounted == Spec => []CountsAreStreaks
<1>1. SignalInv /\ [Next]_vars => SignalInv'
  BY NextSignal
<1>2. SignalInv => CountsAreStreaks
  BY DEF SignalInv
<1> QED
  BY InitSignal, <1>1, <1>2, PTL DEF Spec

\* For every set of symbols and every setting of the breaker: it never closes
\* before SuccessThreshold outcomes in a row were successes.
THEOREM ClosesWhenEarned == Spec => CloseIsEarned
<1>1. SignalInv /\ [Next]_vars => SignalInv'
  BY NextSignal
<1>2. SignalInv /\ [Next]_vars
        => [state # "CLOSED" /\ state' = "CLOSED" => wins' >= SuccessThreshold]_vars
  BY NextSignal DEF Earned
<1> QED
  BY InitSignal, <1>1, <1>2, PTL DEF Spec, CloseIsEarned

\* What a step after the kill switch may not do.
Stopped ==
    /\ pushed' \subseteq pushed
    /\ \A s \in Symbols : task'[s] \in {"sending", "creating"} => task'[s] = task[s]

\* With the latch set a task either ends or waits for its broadcast.
LEMMA TaskStepStops ==
  ASSUME TaskInv, killed, NEW s \in Symbols, TaskStep(s)
  PROVE  Stopped
<1>1. Halted
  BY DEF Halted
<1>2. /\ UNCHANGED pushed \/ Push(s)
      /\ Becomes(s, "done") \/ Becomes(s, "broadcasting")
  BY <1>1, Zenon
     DEF TaskStep, Blocked, Broadcast, StopAtGate, Unsized, Disconnected, SendOrder,
         OrderSent, SendFails, SendRaises, CreateAdapter, SkipLive, AdapterCreated,
         AdapterFails, AdapterRaises
<1>3. pushed' = pushed
  BY <1>2 DEF Push
<1>4. ASSUME NEW t \in Symbols, task'[t] \in {"sending", "creating"}
      PROVE  task'[t] = task[t]
  BY <1>2, <1>4 DEF Becomes, TaskInv
<1> QED
  BY <1>3, <1>4 DEF Stopped

\* For every set of symbols: once the kill-switch latch is set, no step pushes a
\* signal, sends an order or begins a handshake.
THEOREM KillStopsAll == Spec => KillStops
<1>1. SignalInv /\ [Next]_vars => SignalInv'
  BY NextSignal
<1>2. ASSUME SignalInv, [Next]_vars, killed
      PROVE  Stopped
  <2>1. TaskInv
    BY <1>2, SignalInvParts
  <2>2. CASE \E s \in Symbols : TaskStep(s)
    BY <1>2, <2>1, <2>2, TaskStepStops
  <2>3. ASSUME NEW S \in SUBSET Symbols, StartTasks(S)
        PROVE  Stopped
    BY <2>1, <2>3 DEF StartTasks, TaskInv, Stopped
  <2>4. CASE UNCHANGED <<pushed, task>>
    BY <2>4 DEF Stopped
  <2> QED
    BY <1>2, <2>2, <2>3, <2>4
       DEF Next, MainLoop, WakeUp, StatArbSignal, WaveDone, PollStatus, CooldownElapses,
           World, KillSwitch, TradingState, Connection, Heal, vars
<1>3. SignalInv /\ [Next]_vars
        => [killed => /\ pushed' \subseteq pushed
                      /\ \A s \in Symbols :
                           task'[s] \in {"sending", "creating"} => task'[s] = task[s]]_vars
  BY <1>2 DEF Stopped
<1> QED
  BY InitSignal, <1>1, <1>3, PTL DEF Spec, KillStops
=============================================================================
