---------------------------- MODULE ServerCompute ----------------------------
(***************************************************************************)
(* The panels that ask the signal bot to compute something and wait for    *)
(* the answer: a click sends a request over the signal socket and arms a   *)
(* timer; the answer lands in a slot of useSignalData that keeps its last  *)
(* value; an effect of the panel, run after a render, takes the slot's     *)
(* value.  Answers carry no request id, several panels read one slot, and  *)
(* no slot is ever emptied: a repeated request may show an older answer.   *)
(* Renders are separate steps: what arrives between two renders is seen at *)
(* the next one only, as its last value.                                   *)
(***************************************************************************)
EXTENDS Naturals, FiniteSets

CONSTANTS Panels,       \* the panels of this instance
          MaxRequests   \* bound: requests of one panel

VARIABLES
  asked,     \* asked[p]: requests panel p has made; the last one is current
  pending,   \* pending[p]: the panel waits (its button is disabled)
  shown,     \* shown[p]: what the panel displays
  timers,    \* armed timers [panel, id]
  handle,    \* handle[p]: the request whose timer timeoutRef.current holds, 0 if none
  inflight,  \* requests the server has not answered
  slot,      \* slot[s]: the request the last answer of type s was for
  taken,     \* taken[p]: the slot value the panel's effect last ran with
  rendered,  \* every effect has run since the last change
  alone      \* history: when p asked last, its slot was empty and no request of it on its way

vars == <<asked, pending, shown, timers, handle, inflight, slot, taken, rendered, alone>>

(* How each panel treats its timer and its slot; a direct one displays the slot itself
   whenever it does not wait, and says nothing when its timer runs. *)
HawkesTraits     == [slot |-> "hawkes",    timer |-> TRUE,  tracked |-> TRUE,  atRequest |-> TRUE,  atResult |-> FALSE, onlyWaiting |-> TRUE, direct |-> FALSE]
CVaRTraits       == [slot |-> "cvar",      timer |-> TRUE,  tracked |-> FALSE, atRequest |-> FALSE, atResult |-> FALSE, onlyWaiting |-> TRUE, direct |-> FALSE]
SizeTraits       == [slot |-> "size",      timer |-> TRUE,  tracked |-> TRUE,  atRequest |-> FALSE, atResult |-> TRUE,  onlyWaiting |-> TRUE, direct |-> FALSE]
PortfolioTraits  == [slot |-> "portfolio", timer |-> TRUE,  tracked |-> TRUE,  atRequest |-> FALSE, atResult |-> TRUE,  onlyWaiting |-> TRUE, direct |-> FALSE]
StressTraits     == [slot |-> "stress",    timer |-> TRUE,  tracked |-> TRUE,  atRequest |-> FALSE, atResult |-> TRUE,  onlyWaiting |-> TRUE, direct |-> TRUE]
FundingTraits    == [slot |-> "funding",   timer |-> TRUE,  tracked |-> TRUE,  atRequest |-> FALSE, atResult |-> TRUE,  onlyWaiting |-> TRUE, direct |-> TRUE]
RunnerTraits     == [slot |-> "backtest",  timer |-> TRUE,  tracked |-> FALSE, atRequest |-> FALSE, atResult |-> FALSE, onlyWaiting |-> FALSE, direct |-> FALSE]
StrategyTraits   == [slot |-> "backtest",  timer |-> FALSE, tracked |-> FALSE, atRequest |-> FALSE, atResult |-> FALSE, onlyWaiting |-> FALSE, direct |-> FALSE]

\* Mutant: the stored handle is never used when the answer comes.
TraitsForget(p) ==
  CASE p = "Hawkes" -> HawkesTraits [] p = "CVaR" -> CVaRTraits
    [] p = "Size" -> [SizeTraits EXCEPT !.atResult = FALSE]
    [] p = "Portfolio" -> [PortfolioTraits EXCEPT !.atResult = FALSE]
    [] p = "Stress" -> [StressTraits EXCEPT !.atResult = FALSE]
    [] p = "Funding" -> [FundingTraits EXCEPT !.atResult = FALSE]
    [] p = "Runner" -> RunnerTraits [] OTHER -> StrategyTraits

Traits(p) ==
  CASE p = "Hawkes" -> HawkesTraits [] p = "CVaR" -> CVaRTraits
    [] p = "Size" -> SizeTraits [] p = "Portfolio" -> PortfolioTraits
    [] p = "Stress" -> StressTraits [] p = "Funding" -> FundingTraits
    [] p = "Runner" -> RunnerTraits [] OTHER -> StrategyTraits

Slots == {Traits(p).slot : p \in Panels}
NoAnswer == [panel |-> "nobody", id |-> 0]
Request(p, i) == [panel |-> p, id |-> i]
Requests == {NoAnswer} \cup {Request(p, i) : p \in Panels, i \in 1..MaxRequests}

TypeOK ==
  /\ asked \in [Panels -> 0..MaxRequests]
  /\ pending \in [Panels -> BOOLEAN]
  /\ shown \in [Panels -> [kind : {"nothing", "answer", "timeout"}, of : Requests]]
  /\ timers \subseteq Requests /\ inflight \subseteq Requests
  /\ handle \in [Panels -> 0..MaxRequests]
  /\ slot \in [Slots -> Requests] /\ taken \in [Panels -> Requests]
  /\ rendered \in BOOLEAN /\ alone \in [Panels -> BOOLEAN]

-----------------------------------------------------------------------------
\* The panel's button: disabled while a request is pending.
Click(p) ==
  /\ ~pending[p] /\ rendered /\ asked[p] < MaxRequests
  /\ asked' = [asked EXCEPT ![p] = @ + 1]
  /\ pending' = [pending EXCEPT ![p] = TRUE]
  /\ shown' = [shown EXCEPT ![p] = [kind |-> "nothing", of |-> NoAnswer]]
  /\ timers' = (timers \ {r \in {Request(p, handle[p])} : Traits(p).atRequest})
               \cup {r \in {Request(p, asked[p] + 1)} : Traits(p).timer}
  /\ handle' = [handle EXCEPT ![p] = IF Traits(p).tracked THEN asked[p] + 1 ELSE @]
  /\ inflight' = inflight \cup {Request(p, asked[p] + 1)}
  /\ rendered' = FALSE
  /\ alone' = [alone EXCEPT ![p] = slot[Traits(p).slot] = NoAnswer
                                     /\ \A r \in inflight : r.panel # p]
  /\ UNCHANGED <<slot, taken>>

\* The signal bot answers a request; the answer overwrites its slot.
Answer ==
  \E r \in inflight :
    /\ inflight' = inflight \ {r}
    /\ slot' = [slot EXCEPT ![Traits(r.panel).slot] = r]
    /\ rendered' = FALSE
    /\ UNCHANGED <<asked, pending, shown, timers, handle, taken, alone>>

\* The request or its answer is lost with the connection.
Lose ==
  \E r \in inflight :
    /\ inflight' = inflight \ {r}
    /\ UNCHANGED <<asked, pending, shown, timers, handle, slot, taken, rendered, alone>>

\* Does the effect of panel p take the value in its slot at this render?
Takes(p) ==
  LET v == slot[Traits(p).slot]
  IN /\ v # NoAnswer
     /\ IF Traits(p).onlyWaiting THEN pending[p] ELSE v # taken[p]

\* A render, with the effects of all panels.
Render ==
  /\ ~rendered
  /\ rendered' = TRUE
  /\ taken' = [p \in Panels |-> slot[Traits(p).slot]]
  /\ pending' = [p \in Panels |-> pending[p] /\ ~Takes(p)]
  /\ shown' = [p \in Panels |-> IF Takes(p) /\ ~Traits(p).direct
                                THEN [kind |-> "answer", of |-> slot[Traits(p).slot]]
                                ELSE shown[p]]
  /\ timers' = timers \ {Request(p, handle[p]) : p \in {q \in Panels : Takes(q) /\ Traits(q).atResult}}
  /\ UNCHANGED <<asked, handle, inflight, slot, alone>>

\* A timer runs: if the panel waits, it stops waiting and, unless direct, says so.
Timeout(p) ==
  \E r \in timers :
    /\ r.panel = p /\ timers' = timers \ {r}
    /\ IF pending[p]
       THEN /\ pending' = [pending EXCEPT ![p] = FALSE]
            /\ shown' = [shown EXCEPT ![p] = IF Traits(p).direct THEN @
                                             ELSE [kind |-> "timeout", of |-> r]]
            /\ rendered' = FALSE
       ELSE UNCHANGED <<pending, shown, rendered>>
    /\ UNCHANGED <<asked, handle, inflight, slot, taken, alone>>

Init ==
  /\ asked = [p \in Panels |-> 0] /\ pending = [p \in Panels |-> FALSE]
  /\ shown = [p \in Panels |-> [kind |-> "nothing", of |-> NoAnswer]]
  /\ timers = {} /\ handle = [p \in Panels |-> 0] /\ inflight = {}
  /\ slot = [s \in Slots |-> NoAnswer] /\ taken = [p \in Panels |-> NoAnswer]
  /\ rendered = TRUE /\ alone = [p \in Panels |-> TRUE]

Next == Answer \/ Lose \/ Render \/ \E p \in Panels : Click(p) \/ Timeout(p)

\* The browser renders and runs its timers; the server need not answer.
Spec == Init /\ [][Next]_vars /\ WF_vars(Render) /\ \A p \in Panels : WF_vars(Timeout(p))

-----------------------------------------------------------------------------
(***************************************************************************)
(* "No answer in 30 s" is shown only when the request on the screen has    *)
(* waited the whole time: the timer that ran was armed for it (the timer   *)
(* comment of BacktestRunner: "reset running state after 30s if no         *)
(* response").                                                             *)
(***************************************************************************)
TimeoutIsOwn ==
  \A p \in Panels : shown[p].kind = "timeout" /\ ~pending[p] => shown[p].of.id = asked[p]

(***************************************************************************)
(* No timer of an older request is armed, so none can end a later one      *)
(* early (the clearTimeout calls at request or at result).                 *)
(***************************************************************************)
TimersAreCurrent == \A r \in timers : r.id = asked[r.panel]

(***************************************************************************)
(* The button always comes back, also when the answer is lost.             *)
(***************************************************************************)
Waits(p) == pending[p]
ButtonReturns == \A p \in Panels : Waits(p) ~> ~Waits(p)

\* What the panel displays.
Displayed(p) ==
  IF ~Traits(p).direct THEN shown[p]
  ELSE IF pending[p] \/ slot[Traits(p).slot] = NoAnswer THEN [kind |-> "nothing", of |-> NoAnswer]
  ELSE [kind |-> "answer", of |-> slot[Traits(p).slot]]

(***************************************************************************)
(* A panel that has its own slot displays an answer to one of its own      *)
(* requests; it is the answer to the last one unless, when that was made,  *)
(* the slot still held an answer or an earlier request was on its way.     *)
(***************************************************************************)
AnswersAreOwn ==
  \A p \in Panels : Displayed(p).kind = "answer" =>
    /\ Displayed(p).of.panel = p /\ Displayed(p).of.id \in 1..asked[p]
    /\ alone[p] => Displayed(p).of.id = asked[p]

(***************************************************************************)
(* The answer on the screen is that of the last request, always.  It is    *)
(* not: the effect runs as soon as the panel waits and takes the answer to *)
(* the request before, which no one removed from the slot (README,         *)
(* disagreements).                                                         *)
(***************************************************************************)
AnswersAreCurrent ==
  \A p \in Panels : Displayed(p).kind = "answer" => Displayed(p).of.id = asked[p]
=============================================================================
