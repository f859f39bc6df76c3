---------------------------- MODULE OrderExecutor ----------------------------
(***************************************************************************)
(* The connection of the C++ order executor (execution/order_executor.h):  *)
(* the thread that runs the WebSocket client and its handlers, the thread  *)
(* that sleeps before a reconnection, the watchdog and disconnect() on the *)
(* main thread.  They share connected_, should_reconnect_ and              *)
(* reconnect_cancel_, the mutex reconnect_mtx_, and join one another.      *)
(***************************************************************************)
EXTENDS Naturals

CONSTANTS MaxDelay,      \* the cap of the backoff, in seconds (30)
          Refuses,       \* may an attempt to connect fail?
          Shutdown,      \* may the bot shut down?
          SlowThreads    \* may a whole backoff pass while a thread is inside a handler?

VARIABLES
  conn,       \* "none", "opening", "open", "dead" (silent), "closing" (terminated)
  connected, should, cancel,   \* connected_, should_reconnect_, reconnect_cancel_
  delay,      \* reconnect_delay_
  mtx,        \* holder of reconnect_mtx_
  io,         \* ws_thread_: "none", "running", "lock", "join", "ended"
  rec,        \* reconnect_thread_: "none", "sleeping", "joining", "ended"
  wd,         \* watchdog: "watch", "stale", "expired", "lock", "join", "ended"
  main        \* "up", "lock", "join_rec", "close", "join_ws", "join_wd", "down"

flags == <<connected, should, cancel>>
vars == <<conn, flags, delay, mtx, io, rec, wd, main>>

Least(a, b) == IF a < b THEN a ELSE b

\* connect() starts the watchdog and the first attempt.
Init ==
  /\ conn = "opening" /\ connected = FALSE /\ should = TRUE /\ cancel = FALSE /\ delay = 1
  /\ mtx = "free" /\ io = "running" /\ rec = "none" /\ wd = "watch" /\ main = "up"

-----------------------------------------------------------------------------
(* schedule_reconnect(), called by thread t: lock, cancel, join, start.     *)

Backoff == Least(2 * delay, MaxDelay)

Lock(t) ==
  /\ mtx = "free" /\ mtx' = t
  /\ delay' = Backoff /\ cancel' = TRUE

\* The old sleeper is joined once it has ended; the new one starts.
JoinAndStart(t) ==
  /\ mtx = t /\ rec \in {"none", "ended"}
  /\ cancel' = FALSE /\ rec' = "sleeping" /\ mtx' = "free"

-----------------------------------------------------------------------------
(* The client thread. *)

\* The open handler.
Opened ==
  /\ conn = "opening" /\ io = "running"
  /\ conn' = "open" /\ connected' = TRUE /\ delay' = 1
  /\ UNCHANGED <<should, cancel, mtx, io, rec, wd, main>>

\* The attempt fails: there is no fail handler, and run() returns.
Refused ==
  /\ Refuses /\ conn = "opening" /\ io = "running"
  /\ conn' = "none" /\ io' = "ended"
  /\ UNCHANGED <<flags, delay, mtx, rec, wd, main>>

\* The peer falls silent without a close.
Silent ==
  /\ conn = "open" /\ conn' = "dead"
  /\ UNCHANGED <<flags, delay, mtx, io, rec, wd, main>>

\* Mutant: the close handler does not schedule a reconnection.
ClosedForGood ==
  /\ conn \in {"open", "dead", "closing"} /\ io = "running"
  /\ conn' = "none" /\ connected' = FALSE /\ io' = "ended"
  /\ UNCHANGED <<should, cancel, delay, mtx, rec, wd, main>>

\* The close handler, up to the lock of schedule_reconnect.
Closed ==
  /\ conn \in {"open", "dead", "closing"} /\ io = "running"
  /\ conn' = "none" /\ connected' = FALSE
  /\ io' = IF should THEN "lock" ELSE "ended"
  /\ UNCHANGED <<should, cancel, delay, mtx, rec, wd, main>>

IoLocks == io = "lock" /\ Lock("io") /\ io' = "join" /\ UNCHANGED <<conn, connected, should, rec, wd, main>>
IoStarts == io = "join" /\ JoinAndStart("io") /\ io' = "ended" /\ UNCHANGED <<conn, connected, should, delay, wd, main>>

-----------------------------------------------------------------------------
(* The sleeper. *)

\* Mutant: the sleeper does not look whether reconnections are still wanted.
MayConnectAlways == ~cancel
MayConnect == should /\ ~cancel

\* No other thread is inside a handler or schedule_reconnect().
Settled == wd \in {"watch", "ended"} /\ io \notin {"lock", "join"}

\* Its delay is over, or cancel has woken it.
Wakes ==
  /\ rec = "sleeping" /\ (cancel \/ SlowThreads \/ Settled)
  /\ rec' = IF MayConnect THEN "joining" ELSE "ended"
  /\ UNCHANGED <<conn, flags, delay, mtx, io, wd, main>>

\* The old client thread is joined, do_connect() starts another.
Connects ==
  /\ rec = "joining" /\ io \in {"none", "ended"}
  /\ rec' = "ended" /\ io' = "running" /\ conn' = "opening"
  /\ UNCHANGED <<flags, delay, mtx, wd, main>>

-----------------------------------------------------------------------------
(* The watchdog. *)

\* It looks at connected_ first, then at the time of the last frame.
FindsStale ==
  /\ wd = "watch" /\ main = "up" /\ connected /\ conn = "dead" /\ wd' = "stale"
  /\ UNCHANGED <<conn, flags, delay, mtx, io, rec, main>>

\* A connection that is there is terminated; else the handle has expired.
Handles ==
  /\ wd = "stale"
  /\ IF conn \in {"open", "dead"} THEN conn' = "closing" /\ wd' = "watch"
     ELSE wd' = "expired" /\ UNCHANGED conn
  /\ UNCHANGED <<flags, delay, mtx, io, rec, main>>

\* connected_ = false, then schedule_reconnect().
Expired ==
  /\ wd = "expired" /\ connected' = FALSE /\ wd' = IF should THEN "lock" ELSE "watch"
  /\ UNCHANGED <<conn, should, cancel, delay, mtx, io, rec, main>>

WdLocks == wd = "lock" /\ Lock("wd") /\ wd' = "join" /\ UNCHANGED <<conn, connected, should, io, rec, main>>
WdStarts == wd = "join" /\ JoinAndStart("wd") /\ wd' = "watch" /\ UNCHANGED <<conn, connected, should, delay, io, main>>

WdEnds ==
  /\ wd = "watch" /\ main # "up" /\ wd' = "ended"
  /\ UNCHANGED <<conn, flags, delay, mtx, io, rec, main>>

-----------------------------------------------------------------------------
(* disconnect(), on the main thread. *)

Stops ==
  /\ Shutdown /\ main = "up" /\ main' = "lock" /\ should' = FALSE
  /\ UNCHANGED <<conn, connected, cancel, delay, mtx, io, rec, wd>>

MainLocks ==
  /\ main = "lock" /\ mtx = "free" /\ mtx' = "main" /\ cancel' = TRUE /\ main' = "join_rec"
  /\ UNCHANGED <<conn, connected, should, delay, io, rec, wd>>

MainJoins ==
  /\ main = "join_rec" /\ rec \in {"none", "ended"} /\ rec' = "none" /\ mtx' = "free" /\ main' = "close"
  /\ UNCHANGED <<conn, flags, delay, io, wd>>

MainCloses ==
  /\ main = "close" /\ main' = "join_ws"
  /\ conn' = IF connected /\ conn \in {"open", "dead"} THEN "closing" ELSE conn
  /\ UNCHANGED <<flags, delay, mtx, io, rec, wd>>

MainJoinsWs ==
  /\ main = "join_ws" /\ io \in {"none", "ended"} /\ io' = "none" /\ main' = "join_wd"
  /\ UNCHANGED <<conn, flags, delay, mtx, rec, wd>>

MainEnds ==
  /\ main = "join_wd" /\ wd = "ended" /\ main' = "down" /\ connected' = FALSE
  /\ UNCHANGED <<conn, should, cancel, delay, mtx, io, rec, wd>>

-----------------------------------------------------------------------------
IoThread == Opened \/ Refused \/ IoLocks \/ IoStarts \/ (conn = "closing" /\ Closed)
Sleeper == Wakes \/ Connects
WatchdogThread == FindsStale \/ Handles \/ Expired \/ WdLocks \/ WdStarts \/ WdEnds
MainThread == MainLocks \/ MainJoins \/ MainCloses \/ MainJoinsWs \/ MainEnds

Next == IoThread \/ Silent \/ Closed \/ Sleeper \/ WatchdogThread \/ Stops \/ MainThread

\* Every thread that can go on does; peers need not fall silent or close.
Fairness == WF_vars(IoThread) /\ WF_vars(Sleeper) /\ WF_vars(WatchdogThread) /\ WF_vars(MainThread)
Spec == Init /\ [][Next]_vars /\ Fairness

-----------------------------------------------------------------------------
\* The states of the threads, and the delay within its cap.
TypeOK ==
  /\ conn \in {"none", "opening", "open", "dead", "closing"} /\ delay \in 1..MaxDelay
  /\ mtx \in {"free", "io", "wd", "main"} /\ io \in {"none", "running", "lock", "join", "ended"}
  /\ rec \in {"none", "sleeping", "joining", "ended"} /\ main \in {"up", "lock", "join_rec", "close", "join_ws", "join_wd", "down"}
  /\ wd \in {"watch", "stale", "expired", "lock", "join", "ended"}

(***************************************************************************)
(* An executor that lost its connection gets one again, unless it is shut  *)
(* down: every close leads through schedule_reconnect to another attempt.  *)
(***************************************************************************)
Lost == ~connected /\ should
Reconnects == Lost ~> ~Lost

(***************************************************************************)
(* Nobody keeps reconnect_mtx_: a join under the lock ends.                *)
(***************************************************************************)
LockIsReleased == mtx # "free" ~> mtx = "free"

(***************************************************************************)
(* After disconnect() has returned no client runs and none is started.     *)
(***************************************************************************)
DownStaysDown == main = "down" => io \in {"none", "ended"} /\ rec # "joining"

(***************************************************************************)
(* No reconnect sleeper outlives the executor: after disconnect() its      *)
(* thread has been joined.                                                 *)
(***************************************************************************)
NoSleeperOutlives == main = "down" => rec = "none"

(***************************************************************************)
(* disconnect() returns.                                                   *)
(***************************************************************************)
ShutdownEnds == main # "up" ~> main = "down"
=============================================================================
