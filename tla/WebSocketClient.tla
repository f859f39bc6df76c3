-------------------------- MODULE WebSocketClient --------------------------
(***************************************************************************)
(* The hook web-ui/src/hooks/useWebSocket.ts: one logical connection over  *)
(* a series of browser sockets, with an automatic retry budget, a queue    *)
(* for what is sent while the connection is down, and the callbacks of     *)
(* every socket it ever created still attached.                            *)
(*                                                                         *)
(* A socket is named by the number of the connect() that created it, a     *)
(* retry timer by the socket whose close armed it, a ping interval by the  *)
(* socket whose open started it.  The browser runs one callback at a time, *)
(* so a callback is one action; which callback runs next is the browser's  *)
(* choice.  Delays are not modelled: a timer may fire at any time after it *)
(* was armed.                                                              *)
(***************************************************************************)
EXTENDS Naturals, Sequences

CONSTANTS MaxReconnects,  \* the maxReconnects option (20 in the code)
          QueueCap,       \* messages kept while the socket is down (100)
          MaxSockets,     \* bound: calls of connect() that open a socket
          MaxSends,       \* bound: calls of send()
          Events          \* which of "retry", "token", "unmount" happen

VARIABLES
  sock,        \* sequence: the state of each socket created so far
  wsRef,       \* the socket in wsRef.current, 0 for null
  armed,       \* retry timers that are armed in the browser
  timerRef,    \* the timer in reconnectTimer.current, 0 for null
  attempts,    \* reconnectAttempts.current
  backoff,     \* backoffRef.current as the number of doublings
  manualClose, \* manualCloseRef.current
  isRetry,     \* isRetryRef.current
  queue,       \* outgoingQueueRef.current
  connected,   \* the state the user interface shows
  gaveUp,      \* error = "Max reconnections reached"
  pings,       \* ping intervals that run in the browser
  pingRef,     \* the interval in pingTimer.current, 0 for null
  mounted,     \* the component that uses the hook is mounted
  wire,        \* history: what was handed to a socket, with its number
  sent,        \* history: the number of messages given to send()
  autoOpens    \* history: sockets opened by timers since the last manual
               \* connect or successful open

conn  == <<sock, wsRef, armed, timerRef, attempts, backoff, manualClose, isRetry,
           connected, gaveUp, pings, pingRef, mounted, autoOpens>>
vars  == <<conn, queue, wire, sent>>

SockStates == {"connecting", "open", "closing", "closed"}
Frame(k, kind, m) == [sock |-> k, kind |-> kind, msg |-> m]
IsOpen(k) == k # 0 /\ sock[k] = "open"

TypeOK ==
  /\ sock \in Seq(SockStates) /\ Len(sock) <= MaxSockets
  /\ wsRef \in 0..Len(sock)
  /\ armed \subseteq 1..Len(sock)
  /\ timerRef \in 0..Len(sock)
  /\ attempts \in Nat /\ backoff \in Nat
  /\ {manualClose, isRetry, connected, gaveUp, mounted} \subseteq BOOLEAN
  /\ queue \in Seq(1..MaxSends) /\ Len(queue) <= QueueCap
  /\ pings \subseteq 1..Len(sock)
  /\ pingRef \in 0..Len(sock)
  /\ sent \in 0..MaxSends
  /\ autoOpens \in Nat

-----------------------------------------------------------------------------
(* What a handler changes, as functions of the part of the state that      *)
(* connect(), disconnect() and the cleanup share, so that they compose.    *)

Here == [sock |-> sock, wsRef |-> wsRef, armed |-> armed, timerRef |-> timerRef,
         attempts |-> attempts, backoff |-> backoff, manualClose |-> manualClose,
         isRetry |-> isRetry, connected |-> connected, gaveUp |-> gaveUp,
         pings |-> pings, pingRef |-> pingRef, mounted |-> mounted,
         autoOpens |-> autoOpens]

Become(s) ==
  /\ sock' = s.sock /\ wsRef' = s.wsRef /\ armed' = s.armed /\ timerRef' = s.timerRef
  /\ attempts' = s.attempts /\ backoff' = s.backoff /\ manualClose' = s.manualClose
  /\ isRetry' = s.isRetry /\ connected' = s.connected /\ gaveUp' = s.gaveUp
  /\ pings' = s.pings /\ pingRef' = s.pingRef /\ mounted' = s.mounted
  /\ autoOpens' = s.autoOpens

Smaller(a, b) == IF a < b THEN a ELSE b

\* scheduleRetry: count the failure, give up at the cap, else arm a timer.  The
\* handle of an earlier timer is overwritten, the earlier timer is not cleared.
ScheduleRetry(s, k) ==
  IF s.attempts + 1 >= MaxReconnects
  THEN [s EXCEPT !.attempts = @ + 1, !.gaveUp = TRUE]
  ELSE [s EXCEPT !.attempts = @ + 1, !.backoff = Smaller(@ + 1, 5),
                 !.armed = @ \cup {k}, !.timerRef = k]

\* connect(): nothing if the socket is open (the retry flag then stays as it is);
\* otherwise drop the pending timer, reset the budget unless this is an automatic
\* retry, and create a socket.  gaveUp is cleared by onopen only.
Connect(s) ==
  IF s.wsRef # 0 /\ s.sock[s.wsRef] = "open" THEN s
  ELSE [s EXCEPT !.armed = @ \ {s.timerRef}, !.timerRef = 0,
                 !.attempts = IF s.isRetry THEN @ ELSE 0,
                 !.isRetry = FALSE, !.manualClose = FALSE,
                 !.sock = Append(@, "connecting"), !.wsRef = Len(s.sock) + 1,
                 !.autoOpens = IF s.isRetry THEN @ + 1 ELSE 0]

\* ws.close(): an open or connecting socket starts to close; its onclose comes later.
Closing(s, k) == IF k # 0 /\ s.sock[k] \in {"connecting", "open"}
                 THEN [s.sock EXCEPT ![k] = "closing"] ELSE s.sock

Disconnect(s) ==
  [s EXCEPT !.armed = @ \ {s.timerRef}, !.timerRef = 0, !.pings = @ \ {s.pingRef},
            !.manualClose = TRUE, !.sock = Closing(s, s.wsRef), !.wsRef = 0,
            !.connected = FALSE]

\* The cleanup of the mount effect, run on unmount and when connect() is replaced.
Cleanup(s) ==
  [s EXCEPT !.manualClose = TRUE, !.armed = @ \ {s.timerRef},
            !.pings = @ \ {s.pingRef}, !.sock = Closing(s, s.wsRef)]

-----------------------------------------------------------------------------
(* Callbacks of the sockets and timers. *)

\* Mutant: the queue is kept after it was flushed.
OpenedKeepsQueue(k) ==
  /\ sock[k] = "connecting"
  /\ Become([Here EXCEPT !.sock[k] = "open", !.connected = TRUE, !.gaveUp = FALSE,
                         !.backoff = 0, !.attempts = 0, !.autoOpens = 0,
                         !.pings = @ \cup {k}, !.pingRef = k])
  /\ wire' = Append(wire, Frame(k, IF attempts > 0 THEN "sync_state" ELSE "subscribe", 0))
             \o [i \in 1..Len(queue) |-> Frame(k, "app", queue[i])]
  /\ UNCHANGED <<queue, sent>>

\* onopen of socket k: first auth, then sync_state or subscribe, then the queue.
Opened(k) ==
  /\ sock[k] = "connecting"
  /\ Become([Here EXCEPT !.sock[k] = "open", !.connected = TRUE, !.gaveUp = FALSE,
                         !.backoff = 0, !.attempts = 0, !.autoOpens = 0,
                         !.pings = @ \cup {k}, !.pingRef = k])
  /\ wire' = Append(wire, Frame(k, IF attempts > 0 THEN "sync_state" ELSE "subscribe", 0))
             \o [i \in 1..Len(queue) |-> Frame(k, "app", queue[i])]
  /\ queue' = <<>>
  /\ UNCHANGED sent

\* onclose of socket k, whichever socket it is: refused, dropped or closed by us.
Closed(k) ==
  /\ sock[k] # "closed"
  /\ LET s == [Here EXCEPT !.sock[k] = "closed", !.connected = FALSE,
                           !.pings = @ \ {pingRef}]
     IN Become(IF manualClose THEN s ELSE ScheduleRetry(s, k))
  /\ UNCHANGED <<queue, wire, sent>>

\* The retry timer armed by socket k's close runs.
TimerFires(k) ==
  /\ k \in armed
  /\ Len(sock) < MaxSockets
  /\ Become(Connect([Here EXCEPT !.armed = @ \ {k}, !.timerRef = 0, !.isRetry = TRUE]))
  /\ UNCHANGED <<queue, wire, sent>>

-----------------------------------------------------------------------------
(* Calls of the components that use the hook. *)

\* send(): to the open socket, else into the bounded queue, else dropped.
Send ==
  /\ mounted /\ sent < MaxSends
  /\ sent' = sent + 1
  /\ IF IsOpen(wsRef)
     THEN wire' = Append(wire, Frame(wsRef, "app", sent + 1)) /\ UNCHANGED queue
     ELSE /\ queue' = IF Len(queue) < QueueCap THEN Append(queue, sent + 1) ELSE queue
          /\ UNCHANGED wire
  /\ UNCHANGED conn

\* The Retry and Reconnect buttons of WsManager and ReconnectBanner: shown while
\* the connection is shown as down, whatever the current socket is doing.
ClickRetry ==
  /\ "retry" \in Events /\ mounted /\ ~connected
  /\ Len(sock) < MaxSockets
  /\ Become(Connect(Here))
  /\ UNCHANGED <<queue, wire, sent>>

\* A new auth token replaces connect(), so the mount effect cleans up and connects,
\* and then useExchangeData's own effect disconnects and connects again.
TokenChange ==
  /\ "token" \in Events /\ mounted
  /\ Len(sock) + 1 < MaxSockets
  /\ Become(Connect(Disconnect(Connect(Cleanup(Here)))))
  /\ queue' = <<>>
  /\ UNCHANGED <<wire, sent>>

Unmount ==
  /\ "unmount" \in Events /\ mounted
  /\ Become([Cleanup(Here) EXCEPT !.mounted = FALSE])
  /\ UNCHANGED <<queue, wire, sent>>

\* The mount effect has just called connect() once.
Init ==
  /\ sock = <<"connecting">> /\ wsRef = 1
  /\ armed = {} /\ timerRef = 0
  /\ attempts = 0 /\ backoff = 0
  /\ manualClose = FALSE /\ isRetry = FALSE
  /\ queue = <<>>
  /\ connected = FALSE /\ gaveUp = FALSE
  /\ pings = {} /\ pingRef = 0
  /\ mounted = TRUE
  /\ wire = <<>> /\ sent = 0
  /\ autoOpens = 0

Next ==
  \/ \E k \in 1..Len(sock) : Opened(k) \/ Closed(k) \/ TimerFires(k)
  \/ Send \/ ClickRetry \/ TokenChange \/ Unmount

Spec == Init /\ [][Next]_vars

\* A socket that is connecting or closing gets its event, an armed timer fires.
SocketEvent(k) == k \in 1..Len(sock) /\ sock[k] \in {"connecting", "closing"} /\ (Opened(k) \/ Closed(k))
ArmedTimer(k) == k \in 1..Len(sock) /\ TimerFires(k)
Fairness == \A k \in 1..MaxSockets : WF_vars(SocketEvent(k)) /\ WF_vars(ArmedTimer(k))

LiveSpec == Spec /\ Fairness

-----------------------------------------------------------------------------
IsApp(i) == wire[i].kind = "app"

(***************************************************************************)
(* What send() accepts reaches the server side of a socket at most once    *)
(* and in the order of the calls, however many sockets were opened, failed *)
(* or flushed the queue in between (onopen's flush and send's two paths).  *)
(***************************************************************************)
SentOnceInOrder ==
  \A i, j \in 1..Len(wire) : i < j /\ IsApp(i) /\ IsApp(j) => wire[i].msg < wire[j].msg

(***************************************************************************)
(* Nothing waits in the queue while the current socket is open: the flush  *)
(* in onopen took all of it and send() then goes straight to the socket.   *)
(***************************************************************************)
NothingStuck == IsOpen(wsRef) => queue = <<>>

(***************************************************************************)
(* Between two successful opens or manual connects, timers open fewer than *)
(* maxReconnects sockets: the budget of scheduleRetry caps a server that   *)
(* never accepts (the comment above reconnectAttempts).                    *)
(***************************************************************************)
RetriesAreCapped == autoOpens < MaxReconnects

(***************************************************************************)
(* At most one socket of the hook is connecting or open and it is the one  *)
(* in wsRef, so no second stream calls onMessage.                          *)
(***************************************************************************)
OneLiveSocket ==
  \A k \in 1..Len(sock) : sock[k] \in {"connecting", "open"} => k = wsRef

(***************************************************************************)
(* The connected flag is what the current socket is (Opened and Closed set *)
(* it for whichever socket calls them).                                    *)
(***************************************************************************)
ConnectedIsTrue == mounted => (connected <=> IsOpen(wsRef))

(***************************************************************************)
(* After the component is unmounted no socket is created (the comment      *)
(* "unmount close must not scheduleRetry" in the mount effect's cleanup).  *)
(***************************************************************************)
NoGhostSocket == [][~mounted => Len(sock') = Len(sock)]_vars

(***************************************************************************)
(* An automatic retry in flight, a timer armed or an open socket: the hook *)
(* always gets to a socket that is open, to the error that asks for a      *)
(* manual connect, or to its unmount; it is never left down in silence.    *)
(***************************************************************************)
Silent == ~connected /\ ~gaveUp /\ mounted /\ Len(sock) < MaxSockets
NeverSilentlyDown == Silent ~> ~Silent
=============================================================================
