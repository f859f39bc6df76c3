------------------------------ MODULE Tournament ------------------------------
(***************************************************************************)
(* CompetitionFramework.jsx: a tournament asks the signal bot for one      *)
(* backtest per ticked strategy and ranks the answers.  All answers come   *)
(* through one value, backtestResult, which keeps the last answer of any   *)
(* panel; an effect, run after a render, takes it for the strategy it      *)
(* names.  A timer of a minute makes the leaderboard when answers are      *)
(* missing, but may leave the tournament running.  The ELO arithmetic of rankByElo is left out: a leaderboard is *)
(* the set of its entries, each an answer or an error.                     *)
(***************************************************************************)
EXTENDS Naturals, FiniteSets

CONSTANTS Strategies,    \* STRATEGIES
          MaxRounds,     \* bound: tournaments
          MaxOther,      \* bound: answers to requests of other panels
          MaxToggles     \* bound: clicks on the check boxes

VARIABLES selected,      \* ticked strategies
          pending,       \* strategies without an answer, Idle if none is running
          collected,     \* collectedRef: answers taken, by strategy
          results,       \* the leaderboard
          wanted,        \* history: the strategies of the last tournament
          timer,         \* armed timer: the strategies of its closure, Idle if none
          slot,          \* backtestResult
          due,           \* the effect will run after the coming render
          round,         \* tournaments started
          inflight,      \* requests the bot has not answered
          answered,      \* strategies whose answer came and was replaced by the next
          others, toggles

vars == <<selected, wanted, pending, collected, results, timer, slot, due, round, inflight, answered,
          others, toggles>>

Idle == [idle |-> TRUE]
Running == pending # Idle
Waiting(S) == [for |-> S]

\* A request, and the answer to it; round 0 is another panel's.
Request(s, r) == [strategy |-> s, round |-> r]
NoAnswer == Request("nobody", 0)
NoBoard == {}

TypeOK ==
  /\ selected \subseteq Strategies /\ wanted \subseteq Strategies
  /\ collected \subseteq Strategies \X (0 .. MaxRounds)
  /\ Running => pending.for \subseteq Strategies /\ pending.for # {}
  /\ due \in BOOLEAN /\ round \in 0 .. MaxRounds
  /\ \A c, d \in collected : c[1] = d[1] => c = d

Init ==
  /\ selected = Strategies /\ wanted = {} /\ pending = Idle /\ collected = {} /\ results = NoBoard
  /\ timer = Idle /\ slot = NoAnswer /\ due = FALSE /\ round = 0
  /\ inflight = {} /\ answered = {} /\ others = 0 /\ toggles = 0

-----------------------------------------------------------------------------
\* Strategies with an answer.
Has == {c[1] : c \in collected}

\* finishTournament: one entry per ticked strategy, an error without an answer.
Leaderboard(ticked, taken) ==
  {[strategy |-> s, ok |-> s \in {c[1] : c \in taken}] : s \in ticked}

\* The check boxes are not disabled while a tournament runs.
ToggleStrategy(s) ==
  /\ toggles < MaxToggles /\ toggles' = toggles + 1
  /\ selected' = IF s \in selected THEN selected \ {s} ELSE selected \cup {s}
  /\ due' = TRUE
  /\ UNCHANGED <<wanted, pending, collected, results, timer, slot, round, inflight, answered, others>>

RunTournament ==
  /\ ~Running /\ Cardinality(selected) >= 2 /\ round < MaxRounds
  /\ collected' = {} /\ results' = NoBoard
  /\ pending' = Waiting(selected) /\ timer' = Waiting(selected) /\ wanted' = selected
  /\ inflight' = inflight \cup {Request(s, round + 1) : s \in selected}
  /\ round' = round + 1 /\ answered' = {} /\ due' = TRUE
  /\ UNCHANGED <<selected, slot, others, toggles>>

-----------------------------------------------------------------------------
(* The signal bot. *)

Answer(q) ==
  /\ q \in inflight /\ inflight' = inflight \ {q}
  /\ slot' = q /\ due' = TRUE
  /\ answered' = IF slot.round = round /\ Running THEN answered \cup {slot.strategy} ELSE answered
  /\ UNCHANGED <<selected, wanted, pending, collected, results, timer, round, others, toggles>>

\* The connection drops with the request or its answer.
Lose(q) ==
  /\ q \in inflight /\ inflight' = inflight \ {q}
  /\ UNCHANGED <<selected, wanted, pending, collected, results, timer, slot, due, round, answered, others, toggles>>

\* The backtest of another panel is answered.
OtherAnswer(s) ==
  /\ others < MaxOther /\ others' = others + 1
  /\ slot' = Request(s, 0) /\ due' = TRUE
  /\ UNCHANGED <<selected, wanted, pending, collected, results, timer, round, inflight, answered, toggles>>

-----------------------------------------------------------------------------
(* The effect that collects answers. *)

\* Does it take the value in backtestResult?
Takes == Running /\ slot # NoAnswer /\ slot.strategy \in pending.for /\ slot.strategy \notin Has

\* With the last answer the timer is cleared and the leaderboard made of the
\* strategies ticked now; a change of pending runs the effect again.
Collect ==
  /\ due
  /\ IF ~Takes THEN due' = FALSE /\ UNCHANGED <<pending, collected, results, timer>>
     ELSE LET left == pending.for \ {slot.strategy}
              taken == collected \cup {<<slot.strategy, slot.round>>}
          IN /\ due' = TRUE /\ collected' = taken
             /\ IF left = {}
                THEN pending' = Idle /\ timer' = Idle /\ results' = Leaderboard(selected, taken)
                ELSE pending' = Waiting(left) /\ UNCHANGED <<timer, results>>
  /\ UNCHANGED <<selected, wanted, slot, round, inflight, answered, others, toggles>>

\* Mutant: the timer only notes that time is up.
TimeoutSilent ==
  /\ timer # Idle /\ timer' = Idle
  /\ UNCHANGED <<selected, wanted, pending, collected, results, slot, due, round, inflight, answered, others, toggles>>

\* The minute is over: an updater of pending calls finishTournament, which makes
\* the leaderboard of the strategies ticked when the tournament was started and
\* calls setPending(null); then the updater returns the old value.  Called at
\* once, as React does when no other update of the panel waits, it leaves the
\* null behind in the queue and then its own value, so the tournament runs on;
\* called in the next render, the null is applied after it.
Timeout ==
  /\ timer # Idle /\ timer' = Idle
  /\ IF Running
     THEN /\ results' = Leaderboard(timer.for, collected)
          /\ UNCHANGED <<pending, due>> \/ (pending' = Idle /\ due' = TRUE)
     ELSE UNCHANGED <<pending, results, due>>
  /\ UNCHANGED <<selected, wanted, collected, slot, round, inflight, answered, others, toggles>>

\* The panel is closed and opened again: its state is new, its timer cleared.
Reopen ==
  /\ pending' = Idle /\ timer' = Idle /\ collected' = {} /\ results' = NoBoard
  /\ selected' = Strategies /\ answered' = {} /\ due' = TRUE
  /\ toggles < MaxToggles /\ toggles' = toggles + 1
  /\ UNCHANGED <<wanted, slot, round, inflight, others>>

Next ==
  \/ RunTournament \/ Collect \/ Timeout \/ Reopen
  \/ \E s \in Strategies : ToggleStrategy(s) \/ OtherAnswer(s)
  \/ \E q \in inflight : Answer(q) \/ Lose(q)

\* Renders and timers are run by the browser; the bot may never answer.
Spec == Init /\ [][Next]_vars /\ WF_vars(Collect) /\ WF_vars(Timeout)

-----------------------------------------------------------------------------
(***************************************************************************)
(* While a tournament runs, each strategy it asked for is either waited    *)
(* for or has its one answer: "Running (n left)" is right, whatever is     *)
(* ticked, lost, late or answered for others meanwhile.                    *)
(***************************************************************************)
RunningAccountsForAll ==
  Running => pending.for \cap Has = {} /\ pending.for \cup Has = wanted

(***************************************************************************)
(* An armed timer is that of the tournament that runs, so none of an       *)
(* earlier one makes the leaderboard of a later one (clearTimeout with the *)
(* last answer); a tournament that runs without one has its leaderboard.   *)
(***************************************************************************)
TimerIsOwn ==
  /\ timer # Idle => Running /\ timer = Waiting(wanted)
  /\ Running /\ timer = Idle => results # NoBoard

(***************************************************************************)
(* Every tournament comes to a leaderboard, also when answers are lost:    *)
(* RESPONSE_TIMEOUT_MS.                                                    *)
(***************************************************************************)
Unranked == Running /\ results = NoBoard
LeaderboardComes == Unranked ~> ~Unranked

(***************************************************************************)
(* Every tournament ends and the button comes back.  It does not when an   *)
(* answer is lost and Timeout leaves the tournament running (README,       *)
(* disagreements).                                                         *)
(***************************************************************************)
TournamentEnds == Running ~> ~Running

(***************************************************************************)
(* The answers taken are responses to requests of this tournament ("the    *)
(* strategy field echoes the request").                                    *)
(***************************************************************************)
AnswersAreFresh == \A c \in collected : c[2] = round

(***************************************************************************)
(* "no response" on the leaderboard means that the bot did not respond     *)
(* while the tournament ran.                                               *)
(***************************************************************************)
NoResponseIsTrue == ~Running => \A e \in results : e.ok \/ e.strategy \notin answered
===============================================================================
