------------------------------ MODULE PageFeeds -----------------------------
(***************************************************************************)
(* The parts of the page that talk to the servers. They share no variable, *)
(* so a property of one part holds of the page when it holds of every      *)
(* behaviour of that part alone: each behaviour of this specification      *)
(* follows one part, chosen at the start, while the others stand still.    *)
(***************************************************************************)
EXTENDS Integers, FiniteSets

CONSTANTS MaxReconnects,                          \* the maxReconnects option
          QueueCap, MaxSockets, MaxSends,         \* the queue, bounds: only timers reconnect
          EventsQueue, EventsSockets, EventsSends,  \* the same when users and tokens do too
          Levels, Quantities, Cids, CandleCap, FillCap,  \* the feed
          MaxSeq, MaxDrops,                       \* bounds: broadcasts, losses
          Panels, MaxRequests,                    \* panels that ask, bound: requests of each
          Strategies, MaxRounds, MaxOther, MaxToggles,  \* the tournament and its bounds
          MaxCandles, MaxClicks                   \* bounds: candles, uses of the controls

ASSUME SocketAssumption ==
  /\ MaxReconnects \in Nat \ {0}
  /\ QueueCap \in Nat /\ MaxSockets \in Nat \ {0} /\ MaxSends \in Nat
  /\ EventsQueue \in Nat /\ EventsSockets \in Nat \ {0} /\ EventsSends \in Nat
ASSUME FeedAssumption ==
  /\ 0 \in Quantities /\ Quantities \subseteq Nat
  /\ CandleCap \in Nat /\ FillCap \in Nat /\ MaxSeq \in Nat /\ MaxDrops \in Nat
\* The panels that keep the handle of their timer and share their slot with no other.
ASSUME ComputeAssumption ==
  /\ Panels \subseteq {"Hawkes", "Size", "Portfolio", "Stress", "Funding"}
  /\ MaxRequests \in Nat
ASSUME CupAssumption ==
  IsFiniteSet(Strategies) /\ MaxRounds \in Nat /\ MaxOther \in Nat /\ MaxToggles \in Nat
ASSUME ClockAssumption == MaxCandles \in Nat \ {0} /\ MaxClicks \in Nat

VARIABLE part  \* the part that this behaviour follows

\* useWebSocket
VARIABLES sock, wsRef, armed, timerRef, attempts, backoff, manualClose, isRetry, queue,
          connected, gaveUp, pings, pingRef, mounted, wire, sent, autoOpens
socketVars == <<sock, wsRef, armed, timerRef, attempts, backoff, manualClose, isRetry,
                queue, connected, gaveUp, pings, pingRef, mounted, wire, sent, autoOpens>>

\* useExchangeData, the connection and the exchange
VARIABLES srvSeq, srvBook, srvOrder, down, up, isUp, outQueue, lastSeq, throttled, book,
          openOrders, candleMap, candles, fills, promise, truth, at, seen, drops
feedVars == <<srvSeq, srvBook, srvOrder, down, up, isUp, outQueue, lastSeq, throttled, book,
              openOrders, candleMap, candles, fills, promise, truth, at, seen, drops>>

\* useSignalData and the panels that ask for a computation
VARIABLES asked, pending, shown, timers, handle, inflight, slot, taken, rendered, alone
computeVars == <<asked, pending, shown, timers, handle, inflight, slot, taken, rendered, alone>>

\* CompetitionFramework
VARIABLES selected, wanted, cupPending, collected, results, timer, cupSlot, due, round, cupInflight,
          answered, others, toggles
cupVars == <<selected, wanted, cupPending, collected, results, timer, cupSlot, due, round,
             cupInflight, answered, others, toggles>>

\* the pause and speed controls and _broadcast_loop
VARIABLES paused, speedEvent, tickSpeed, offset, loop, made, clockUp, clockDown,
          replayPaused, simSpeed, have, scrubOffset, debounce, clockAsked, since, clicks
clockVars == <<paused, speedEvent, tickSpeed, offset, loop, made, clockUp, clockDown,
               replayPaused, simSpeed, have, scrubOffset, debounce, clockAsked, since,
               clicks>>

\* Only timers reconnect (socket), or the user and a new token do too (events).
Socket(p) == INSTANCE WebSocketClient WITH
  QueueCap <- IF p = "events" THEN EventsQueue ELSE QueueCap,
  MaxSockets <- IF p = "events" THEN EventsSockets ELSE MaxSockets,
  MaxSends <- IF p = "events" THEN EventsSends ELSE MaxSends,
  Events <- IF p = "events" THEN {"retry", "token", "unmount"} ELSE {"unmount"}

Feed == INSTANCE ExchangeFeed

Compute == INSTANCE ServerCompute

Cup == INSTANCE Tournament WITH
  pending <- cupPending, slot <- cupSlot, inflight <- cupInflight

Clock == INSTANCE SimulationClock WITH
  up <- clockUp, down <- clockDown, asked <- clockAsked,
  Controls <- {"speed", "space", "replay", "scrub"}

vars == <<part, socketVars, feedVars, computeVars, cupVars, clockVars>>

Init ==
  /\ part \in {"socket", "events", "feed", "compute", "tournament", "clock"}
  /\ Socket("socket")!Init
  /\ Feed!Init
  /\ Compute!Init
  /\ Cup!Init
  /\ Clock!Init

\* The parts that are not followed stand still.
Next ==
  \/ part = "socket" /\ Socket("socket")!Next
     /\ UNCHANGED <<part, feedVars, computeVars, cupVars, clockVars>>
  \/ part = "events" /\ Socket("events")!Next
     /\ UNCHANGED <<part, feedVars, computeVars, cupVars, clockVars>>
  \/ part = "feed" /\ Feed!Next
     /\ UNCHANGED <<part, socketVars, computeVars, cupVars, clockVars>>
  \/ part = "compute" /\ Compute!Next
     /\ UNCHANGED <<part, socketVars, feedVars, cupVars, clockVars>>
  \/ part = "tournament" /\ Cup!Next
     /\ UNCHANGED <<part, socketVars, feedVars, computeVars, clockVars>>
  \/ part = "clock" /\ Clock!Next
     /\ UNCHANGED <<part, socketVars, feedVars, computeVars, cupVars>>

\* Each part has the fairness of its own specification.
Fairness ==
  /\ \A k \in 1..MaxSockets : WF_socketVars(part = "socket" /\ Socket("socket")!SocketEvent(k))
  /\ \A k \in 1..MaxSockets : WF_socketVars(part = "socket" /\ Socket("socket")!ArmedTimer(k))
  /\ WF_feedVars(part = "feed" /\ Feed!ServerHandles)
  /\ WF_feedVars(part = "feed" /\ Feed!Deliver)
  /\ WF_feedVars(part = "feed" /\ Feed!Reopen)
  /\ WF_feedVars(part = "feed" /\ Feed!ThrottleEnds)
  /\ \A c \in Cids : WF_feedVars(part = "feed" /\ Feed!AckTimeout(c))
  /\ WF_computeVars(part = "compute" /\ Compute!Render)
  /\ \A p \in Panels : WF_computeVars(part = "compute" /\ Compute!Timeout(p))
  /\ WF_cupVars(part = "tournament" /\ Cup!Collect)
  /\ WF_cupVars(part = "tournament" /\ Cup!Timeout)
  /\ WF_clockVars(part = "clock" /\ Clock!Handle)
  /\ WF_clockVars(part = "clock" /\ Clock!LoopChecks)
  /\ WF_clockVars(part = "clock" /\ Clock!LoopWoken)
  /\ WF_clockVars(part = "clock" /\ Clock!LoopMakes)
  /\ WF_clockVars(part = "clock" /\ Clock!Receive)
  /\ WF_clockVars(part = "clock" /\ Clock!SyncEffect)
  /\ WF_clockVars(part = "clock" /\ Clock!ScrubTimer)

Spec == Init /\ [][Next]_vars /\ Fairness

-----------------------------------------------------------------------------
(***************************************************************************)
(* The socket of useWebSocket.  What send() accepts goes out at most once  *)
(* and in order, nothing waits in the queue of an open socket; and while   *)
(* only timers reconnect, one socket is live, the flag that is shown is    *)
(* its state, and the budget of scheduleRetry is kept.                     *)
(***************************************************************************)
SocketSound ==
  /\ part = "events" => Socket("events")!TypeOK /\ Socket("events")!SentOnceInOrder /\ Socket("events")!NothingStuck
  /\ part = "socket" =>
       /\ Socket("socket")!TypeOK /\ Socket("socket")!SentOnceInOrder /\ Socket("socket")!NothingStuck
       /\ Socket("socket")!OneLiveSocket /\ Socket("socket")!ConnectedIsTrue /\ Socket("socket")!RetriesAreCapped

(***************************************************************************)
(* The feed of useExchangeData.  Without a missed broadcast the book is    *)
(* the server's; when nothing is in flight the open orders are the         *)
(* server's; the candles are the newest received; and an order that is     *)
(* still queued is never answered with "no response".                      *)
(***************************************************************************)
FeedAgrees ==
  part = "feed" =>
    /\ Feed!TypeOK /\ Feed!BookFollows /\ Feed!OpenOrdersAgree /\ Feed!CandlesAreNewest
    /\ Feed!NoNullWhileQueued

(***************************************************************************)
(* Panels that ask the signal bot to compute (and the tournament, which    *)
(* asks once per strategy) never take the timer of another request or the  *)
(* answer to another panel for their own; an answer to an earlier request  *)
(* of the same panel is taken only if the slot held one, or that request   *)
(* was on its way, when the panel asked; and "n left" counts what is       *)
(* missing.                                                                *)
(***************************************************************************)
AnswersAreOwn ==
  /\ part = "compute" =>
       /\ Compute!TypeOK /\ Compute!AnswersAreOwn
       /\ Compute!TimeoutIsOwn /\ Compute!TimersAreCurrent
  /\ part = "tournament" => Cup!TypeOK /\ Cup!RunningAccountsForAll /\ Cup!TimerIsOwn

(***************************************************************************)
(* The buttons that pause the simulation agree with _broadcast_loop: when  *)
(* nothing is under way the page shows "paused" exactly if the server is,  *)
(* and at most the candle whose sleep had begun comes after a pause.       *)
(***************************************************************************)
PauseIsTrue == part = "clock" => Clock!TypeOK /\ Clock!PauseShown /\ Clock!AtMostOneAfterPause

(***************************************************************************)
(* What the user waits for ends: the socket opens or says that it gave up, *)
(* an order is answered, a computation's button comes back, a tournament   *)
(* has a leaderboard, a resume reaches the broadcast loop and the page     *)
(* settles.                                                                *)
(***************************************************************************)
Waiting(panel, c) ==
  \/ part = "socket" /\ Socket("socket")!Silent
  \/ part = "feed" /\ Feed!Unanswered(c)
  \/ part = "compute" /\ Compute!Waits(panel)
  \/ part = "tournament" /\ Cup!Unranked
  \/ part = "clock" /\ Clock!LeftWaiting
WaitsEnd ==
  /\ \A panel \in Panels, c \in Cids : Waiting(panel, c) ~> ~Waiting(panel, c)
  /\ part = "clock" => Clock!Settles
=============================================================================
