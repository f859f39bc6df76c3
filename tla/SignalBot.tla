----------------------------- MODULE SignalBot -----------------------------
(***************************************************************************)
(* The actuation half of the Python AI signal bot: a wave of signals, one   *)
(* asyncio task per symbol, passes the circuit breaker, is broadcast, is    *)
(* pushed to the C++ bot and becomes an order, unless the kill switch or a  *)
(* trading halt stops it (run.py, communication/circuit_breaker.py,         *)
(* signal_publisher.py and ws_client.py).                                   *)
(*                                                                          *)
(* A task runs until it awaits something that really suspends it: the       *)
(* broadcast to the clients, the socket send of an order, the handshake of  *)
(* the live adapter.  Those are the boundaries of the steps.  The asyncio   *)
(* locks are never held across such an await.                               *)
(***************************************************************************)
EXTENDS Integers

CONSTANTS
    Symbols,           \* config.symbols: one task each in a wave
    FailureThreshold,  \* CircuitBreakerConfig.failure_threshold
    MaxProbes,         \* CircuitBreakerConfig.half_open_max_probes
    SuccessThreshold,  \* CircuitBreakerConfig.success_threshold
    PaperTrading,      \* config.paper_trading
    StatArb            \* statistical arbitrage is enabled

ASSUME SignalBotAssumption ==
    /\ FailureThreshold \in Nat \ {0}
    /\ MaxProbes \in Nat \ {0}
    /\ SuccessThreshold \in Nat \ {0}
    /\ PaperTrading \in BOOLEAN
    /\ StatArb \in BOOLEAN

VARIABLES
    state,      \* CircuitBreaker._state
    failures,   \* _consecutive_failures
    successes,  \* _consecutive_successes
    probes,     \* _half_open_probes
    cooling,    \* the cooldown since _opened_at has not elapsed
    phase,      \* the main loop: asleep, in stat-arb, or waiting for the tasks
    task,       \* what each symbol's task awaits
    pushed,     \* symbols whose signal this wave pushed to the C++ bot
    killed,     \* _hft_kill_active
    trading,    \* exchange.is_trading_active
    connected,  \* exchange.connected
    adapters,   \* live adapters created so far; the last one is cached
    healthy,    \* from here on the environment does nothing wrong
    losses,     \* failures since the last success, in any state (a history)
    wins        \* successes since the last failure, in any state (a history)

breaker == <<state, failures, successes, probes, cooling>>
outcomes == <<losses, wins>>
world == <<killed, trading, connected, healthy>>
vars == <<breaker, phase, task, pushed, world, adapters, outcomes>>

Init ==
    /\ state = "CLOSED"
    /\ failures = 0
    /\ successes = 0
    /\ probes = 0
    /\ cooling = FALSE
    /\ phase = "asleep"
    /\ task = [s \in Symbols |-> "done"]
    /\ pushed = {}
    /\ killed = FALSE
    /\ trading = TRUE
    /\ connected \in BOOLEAN
    /\ adapters = 0
    /\ healthy = FALSE
    /\ losses = 0
    /\ wins = 0

-----------------------------------------------------------------------------
(* The circuit breaker                                                      *)

\* The state property: reading it ends an OPEN period whose cooldown is over.
Expired == state = "OPEN" /\ ~cooling
Current == IF Expired THEN "HALF_OPEN" ELSE state

\* The failure being recorded trips the breaker.
Trips == failures + 1 >= FailureThreshold

Trip ==
    /\ state' = "OPEN"
    /\ cooling' = TRUE
    /\ failures' = 0

\* The history of outcomes, as far as the properties look back.
Failed ==
    /\ losses' = IF losses < FailureThreshold THEN losses + 1 ELSE losses
    /\ wins' = 0

Succeeded ==
    /\ wins' = IF wins < SuccessThreshold THEN wins + 1 ELSE wins
    /\ losses' = 0

\* Mutant: a failure leaves the successes of the half-open period.
FailureKeepsSuccesses ==
    /\ Failed
    /\ UNCHANGED <<successes, probes>>
    /\ IF state = "HALF_OPEN" \/ Trips
       THEN Trip
       ELSE /\ failures' = failures + 1
            /\ UNCHANGED <<state, cooling>>

\* record_failure.  A failure that arrives while the breaker is OPEN counts too
\* and can restart the cooldown.
RecordFailure ==
    /\ Failed
    /\ successes' = 0
    /\ UNCHANGED probes
    /\ IF state = "HALF_OPEN" \/ Trips
       THEN Trip
       ELSE /\ failures' = failures + 1
            /\ UNCHANGED <<state, cooling>>

\* Mutant: a success while CLOSED does not end the run of failures.
SuccessKeepsFailures ==
    /\ Succeeded
    /\ UNCHANGED <<probes, cooling, failures>>
    /\ IF state = "HALF_OPEN" /\ successes + 1 >= SuccessThreshold
       THEN state' = "CLOSED" /\ successes' = 0
       ELSE /\ successes' = IF state = "HALF_OPEN" THEN successes + 1 ELSE successes
            /\ UNCHANGED state

\* record_success.
RecordSuccess ==
    /\ Succeeded
    /\ UNCHANGED <<probes, cooling>>
    /\ CASE state = "HALF_OPEN" /\ successes + 1 >= SuccessThreshold ->
              /\ state' = "CLOSED"
              /\ failures' = 0
              /\ successes' = 0
         [] state = "HALF_OPEN" /\ successes + 1 < SuccessThreshold ->
              successes' = successes + 1 /\ UNCHANGED <<state, failures>>
         [] state = "CLOSED" ->
              failures' = 0 /\ UNCHANGED <<state, successes>>
         [] state = "OPEN" ->
              UNCHANGED <<state, failures, successes>>

\* allow_signal, when it returns TRUE.
Allow ==
    /\ \/ Current = "CLOSED"
       \/ Current = "HALF_OPEN" /\ (Expired \/ probes < MaxProbes)
    /\ state' = Current
    /\ probes' = IF Expired THEN 1
                 ELSE IF state = "HALF_OPEN" THEN probes + 1 ELSE probes
    /\ UNCHANGED <<failures, successes, cooling, outcomes>>

\* allow_signal, when it returns FALSE.
Block ==
    /\ \/ Current = "OPEN"
       \/ state = "HALF_OPEN" /\ probes >= MaxProbes
    /\ UNCHANGED <<breaker, outcomes>>

\* Mutant: get_status reports _state and does not apply the cooldown.
PollsRawState == Expired /\ UNCHANGED vars

\* _broadcast_circuit_breaker_status reads the state every five seconds.
PollStatus ==
    /\ Expired
    /\ state' = "HALF_OPEN"
    /\ probes' = 0
    /\ UNCHANGED <<failures, successes, cooling, phase, task, pushed, world, adapters, outcomes>>

CooldownElapses ==
    /\ cooling
    /\ cooling' = FALSE
    /\ UNCHANGED <<state, failures, successes, probes, phase, task, pushed, world, adapters, outcomes>>

-----------------------------------------------------------------------------
(* _generate_signals: stat-arb first, then one task per symbol; the next    *)
(* wave starts when all of them are done.                                   *)

WakeUp ==
    /\ phase = "asleep"
    /\ phase' = "statarb"
    /\ UNCHANGED <<breaker, task, pushed, world, adapters, outcomes>>

\* A stat-arb signal is broadcast and nothing more: no order, no outcome.
StatArbSignal ==
    /\ phase = "statarb"
    /\ StatArb
    /\ Allow \/ Block
    /\ UNCHANGED <<phase, task, pushed, world, adapters>>

\* The symbols in S have an actionable, validated signal.
StartTasks(S) ==
    /\ phase = "statarb"
    /\ phase' = "tasks"
    /\ task' = [s \in Symbols |-> IF s \in S THEN "ready" ELSE "done"]
    /\ pushed' = {}
    /\ UNCHANGED <<breaker, world, adapters, outcomes>>

WaveDone ==
    /\ phase = "tasks"
    /\ \A s \in Symbols : task[s] = "done"
    /\ phase' = "asleep"
    /\ UNCHANGED <<breaker, task, pushed, world, adapters, outcomes>>

Becomes(s, step) == task' = [task EXCEPT ![s] = step]

Blocked(s) ==
    /\ task[s] = "ready"
    /\ Block
    /\ Becomes(s, "done")
    /\ UNCHANGED <<phase, pushed, world, adapters>>

Broadcast(s) ==
    /\ task[s] = "ready"
    /\ Allow
    /\ Becomes(s, "broadcasting")
    /\ UNCHANGED <<phase, pushed, world, adapters>>

\* Mutant: the order paths do not look at the kill-switch latch.
HaltedIgnoresKill == ~trading

Halted == killed \/ ~trading

\* After the broadcast the signal goes to the shared-memory ring, unless killed.
Push(s) == pushed' = IF killed THEN pushed ELSE pushed \cup {s}

\* The broadcast is over and the order path is halted.
StopAtGate(s) ==
    /\ task[s] = "broadcasting"
    /\ Halted
    /\ Push(s)
    /\ Becomes(s, "done")
    /\ UNCHANGED <<breaker, phase, world, adapters, outcomes>>

\* _execute_paper_order with nothing to trade returns without an outcome.
Unsized(s) ==
    /\ task[s] = "broadcasting"
    /\ PaperTrading
    /\ ~Halted
    /\ ~healthy
    /\ Push(s)
    /\ Becomes(s, "done")
    /\ UNCHANGED <<breaker, phase, world, adapters, outcomes>>

Disconnected(s) ==
    /\ task[s] = "broadcasting"
    /\ PaperTrading
    /\ ~Halted
    /\ ~connected
    /\ RecordFailure
    /\ Push(s)
    /\ Becomes(s, "done")
    /\ UNCHANGED <<phase, world, adapters>>

SendOrder(s) ==
    /\ task[s] = "broadcasting"
    /\ PaperTrading
    /\ ~Halted
    /\ connected
    /\ Push(s)
    /\ Becomes(s, "sending")
    /\ UNCHANGED <<breaker, phase, world, adapters, outcomes>>

OrderSent(s) ==
    /\ task[s] = "sending"
    /\ RecordSuccess
    /\ Becomes(s, "done")
    /\ UNCHANGED <<phase, pushed, world, adapters>>

SendFails(s) ==
    /\ task[s] = "sending"
    /\ ~healthy
    /\ RecordFailure
    /\ Becomes(s, "done")
    /\ UNCHANGED <<phase, pushed, world, adapters>>

\* websockets.ConnectionClosed is none of the exceptions _execute_paper_order
\* catches: the task ends without an outcome.
SendRaises(s) ==
    /\ task[s] = "sending"
    /\ ~healthy
    /\ Becomes(s, "done")
    /\ UNCHANGED <<breaker, phase, pushed, world, adapters, outcomes>>

\* _execute_live_order without a cached adapter.
CreateAdapter(s) ==
    /\ task[s] = "broadcasting"
    /\ ~PaperTrading
    /\ ~Halted
    /\ adapters = 0
    /\ Push(s)
    /\ Becomes(s, "creating")
    /\ UNCHANGED <<breaker, phase, world, adapters, outcomes>>

\* A Signal has no position_size, so a live order has quantity 0 and is skipped
\* without an outcome.
SkipLive(s) ==
    /\ task[s] = "broadcasting"
    /\ ~PaperTrading
    /\ ~Halted
    /\ adapters > 0
    /\ Push(s)
    /\ Becomes(s, "done")
    /\ UNCHANGED <<breaker, phase, world, adapters, outcomes>>

AdapterCreated(s) ==
    /\ task[s] = "creating"
    /\ adapters' = adapters + 1
    /\ Becomes(s, "done")
    /\ UNCHANGED <<breaker, phase, pushed, world, outcomes>>

AdapterFails(s) ==
    /\ task[s] = "creating"
    /\ ~healthy
    /\ RecordFailure
    /\ Becomes(s, "done")
    /\ UNCHANGED <<phase, pushed, world, adapters>>

\* An exchange library error that _execute_live_order does not catch.
AdapterRaises(s) ==
    /\ task[s] = "creating"
    /\ ~healthy
    /\ Becomes(s, "done")
    /\ UNCHANGED <<breaker, phase, pushed, world, adapters, outcomes>>

-----------------------------------------------------------------------------
(* The world                                                                *)

\* _on_kill_switch latches what the C++ bot wrote to the kill-switch ring.
KillSwitch ==
    /\ ~killed
    /\ ~healthy
    /\ killed' = TRUE
    /\ UNCHANGED <<breaker, phase, task, pushed, trading, connected, healthy, adapters, outcomes>>

\* A trading_state or candles message of the simulator.
TradingState ==
    /\ ~healthy
    /\ trading' = ~trading
    /\ UNCHANGED <<breaker, phase, task, pushed, killed, connected, healthy, adapters, outcomes>>

\* The listener loses or regains the connection.
Connection ==
    /\ ~healthy
    /\ connected' = ~connected
    /\ UNCHANGED <<breaker, phase, task, pushed, killed, trading, healthy, adapters, outcomes>>

\* From here on every order can be sent.
Heal ==
    /\ ~healthy
    /\ ~killed
    /\ trading
    /\ connected
    /\ healthy' = TRUE
    /\ UNCHANGED <<breaker, phase, task, pushed, killed, trading, connected, adapters, outcomes>>

TaskStep(s) ==
    \/ Blocked(s)
    \/ Broadcast(s)
    \/ StopAtGate(s)
    \/ Unsized(s)
    \/ Disconnected(s)
    \/ SendOrder(s)
    \/ OrderSent(s)
    \/ SendFails(s)
    \/ SendRaises(s)
    \/ CreateAdapter(s)
    \/ SkipLive(s)
    \/ AdapterCreated(s)
    \/ AdapterFails(s)
    \/ AdapterRaises(s)

MainLoop ==
    \/ WakeUp
    \/ StatArbSignal
    \/ \E S \in SUBSET Symbols : StartTasks(S)
    \/ WaveDone

World == KillSwitch \/ TradingState \/ Connection \/ Heal

Next ==
    \/ MainLoop
    \/ \E s \in Symbols : TaskStep(s)
    \/ PollStatus
    \/ CooldownElapses
    \/ World

Spec == Init /\ [][Next]_vars

\* Every await ends: the broadcast and the socket have timeouts.  Time passes,
\* the status task polls and the main loop only sleeps for signal_interval.
FairSpec ==
    /\ Spec
    /\ \A s \in Symbols : WF_vars(TaskStep(s))
    /\ WF_vars(WakeUp)
    /\ WF_vars(\E S \in SUBSET Symbols : StartTasks(S))
    /\ WF_vars(WaveDone)
    /\ WF_vars(PollStatus)
    /\ WF_vars(CooldownElapses)

\* Besides, the market keeps giving every symbol a signal.
BusySpec == FairSpec /\ SF_vars(StartTasks(Symbols))

-----------------------------------------------------------------------------
\* The type invariant.
TypeOK ==
    /\ state \in {"CLOSED", "OPEN", "HALF_OPEN"}
    /\ failures \in 0..(FailureThreshold - 1)
    /\ successes \in 0..(SuccessThreshold - 1)
    /\ probes \in 0..MaxProbes
    /\ cooling \in BOOLEAN
    /\ phase \in {"asleep", "statarb", "tasks"}
    /\ task \in [Symbols -> {"done", "ready", "broadcasting", "sending", "creating"}]
    /\ pushed \subseteq Symbols
    /\ killed \in BOOLEAN
    /\ trading \in BOOLEAN
    /\ connected \in BOOLEAN
    /\ adapters \in Nat
    /\ healthy \in BOOLEAN
    /\ losses \in 0..FailureThreshold
    /\ wins \in 0..SuccessThreshold

\* The breaker's counters against the whole history of outcomes, whichever order
\* the tasks of a wave report in and whenever the state is read: a CLOSED breaker
\* counts exactly the failures since the last success and there are fewer than
\* FailureThreshold of them, although a success while OPEN clears nothing and a
\* failure while OPEN counts; the successes of a half-open period are successes
\* no failure followed, and none is carried into another period.
CountsAreStreaks ==
    /\ state = "CLOSED" => failures = losses /\ losses < FailureThreshold
    /\ successes <= wins
    /\ state # "HALF_OPEN" => successes = 0

\* The breaker closes again only when the last SuccessThreshold outcomes were all
\* successes, however many tasks of earlier periods still report.
CloseIsEarned ==
    [][state # "CLOSED" /\ state' = "CLOSED" => wins' >= SuccessThreshold]_vars

\* Once the kill-switch latch is set no signal is pushed to the C++ bot and no
\* order is sent or handshake begun, not even by a task that passed the breaker
\* and was waiting for its broadcast.
KillStops ==
    [][killed =>
         /\ pushed' \subseteq pushed
         /\ \A s \in Symbols : task'[s] \in {"sending", "creating"} => task'[s] = task[s]]_vars

\* An OPEN breaker leaves that state: late failures of tasks that were in flight
\* can restart the cooldown, but only as often as there are such tasks.
OpenEnds == state = "OPEN" ~> state # "OPEN"

\* Probe recovery: once every order can be sent again, the breaker closes.
Recovers == healthy ~> state = "CLOSED"

\* The live adapter is created once and reused.
AdapterOnce == adapters <= 1
=============================================================================
