--------------------------- MODULE PageFeedsProofs --------------------------
(***************************************************************************)
(* What PageFeeds.cfg checks on small instances, for every number of       *)
(* sockets, orders, price levels, broadcasts, panels, strategies, candles  *)
(* and uses of the controls.  Each part has an inductive invariant and a   *)
(* lemma for each of its actions; PartInv puts them together.              *)
(***************************************************************************)
EXTENDS PageFeeds, FiniteSetTheorems, SequenceTheorems, WellFoundedInduction, TLAPS

\* Appending to and taking from a queue.
LEMMA AppendFacts ==
  ASSUME NEW M, NEW s \in Seq(M), NEW x \in M
  PROVE  /\ Append(s, x) \in Seq(M) /\ Len(s) \in Nat /\ Len(Append(s, x)) = Len(s) + 1
         /\ Append(s, x)[Len(s) + 1] = x
         /\ \A i \in 1..Len(s) : Append(s, x)[i] = s[i]
         /\ \A i \in 1..Len(s) + 1 : i = Len(s) + 1 \/ i \in 1..Len(s)
OBVIOUS

\* Taking from the front of a queue.
LEMMA TailFacts ==
  ASSUME NEW M, NEW s \in Seq(M), s # <<>>
  PROVE  /\ Tail(s) \in Seq(M) /\ Head(s) \in M /\ Head(s) = s[1] /\ 1 \in 1..Len(s)
         /\ Len(s) \in Nat /\ Len(Tail(s)) \in Nat /\ Len(Tail(s)) = Len(s) - 1
         /\ \A i \in 1..Len(Tail(s)) : i + 1 \in 1..Len(s) /\ Tail(s)[i] = s[i + 1]
OBVIOUS

-----------------------------------------------------------------------------
(***************************************************************************)
(* The socket of useWebSocket.                                             *)
(***************************************************************************)
LEMMA ConcatFacts ==
  ASSUME NEW M, NEW s \in Seq(M), NEW t \in Seq(M)
  PROVE  /\ s \o t \in Seq(M) /\ Len(s) \in Nat /\ Len(t) \in Nat /\ Len(s \o t) = Len(s) + Len(t)
         /\ \A i \in 1..Len(s \o t) :
              \/ i \in 1..Len(s) /\ (s \o t)[i] = s[i]
              \/ i - Len(s) \in 1..Len(t) /\ (s \o t)[i] = t[i - Len(s)]
<1>1. s \o t \in Seq(M) /\ Len(s) \in Nat /\ Len(t) \in Nat /\ Len(s \o t) = Len(s) + Len(t)
  OBVIOUS
<1>2. ASSUME NEW i \in 1..Len(s) + Len(t), i <= Len(s)
      PROVE  i \in 1..Len(s) /\ (s \o t)[i] = s[i]
  BY <1>1, <1>2
<1>3. ASSUME NEW i \in 1..Len(s) + Len(t), ~(i <= Len(s))
      PROVE  i - Len(s) \in 1..Len(t) /\ (s \o t)[i] = t[i - Len(s)]
  BY <1>1, <1>3
<1>4. ASSUME NEW i \in 1..Len(s \o t)
      PROVE  \/ i \in 1..Len(s) /\ (s \o t)[i] = s[i]
             \/ i - Len(s) \in 1..Len(t) /\ (s \o t)[i] = t[i - Len(s)]
  <2>1. i \in 1..Len(s) + Len(t)
    BY <1>1, <1>4
  <2>2. CASE i <= Len(s)
    BY <2>1, <2>2, <1>2
  <2>3. CASE ~(i <= Len(s))
    BY <2>1, <2>3, <1>3
  <2>4. QED
    BY <2>2, <2>3
<1>5. QED
  BY <1>1, <1>4

\* The empty queue has no place.
LEMMA NoElements == Len(<<>>) = 0 /\ ~ \E i \in 1..0 : TRUE
OBVIOUS


\* The constants of the two parts.
Sockets(p) == IF p = "events" THEN EventsSockets ELSE MaxSockets
Sends(p) == IF p = "events" THEN EventsSends ELSE MaxSends
Cap(p) == IF p = "events" THEN EventsQueue ELSE QueueCap

\* The bounds of both parts are numbers.
LEMMA SocketConstants ==
  \A p : Sockets(p) \in Nat /\ Sockets(p) >= 1 /\ Sends(p) \in Nat /\ Cap(p) \in Nat
BY SocketAssumption DEF Sockets, Sends, Cap

States == {"connecting", "open", "closing", "closed"}

\* What the handlers work on, and its references are to sockets there are.
Conns == [sock : Seq(States), wsRef : Nat, armed : SUBSET Nat, timerRef : Nat, attempts : Nat,
          backoff : Nat, manualClose : BOOLEAN, isRetry : BOOLEAN, connected : BOOLEAN,
          gaveUp : BOOLEAN, pings : SUBSET Nat, pingRef : Nat, mounted : BOOLEAN, autoOpens : Nat]
Bounded(s) ==
  /\ s.wsRef <= Len(s.sock) /\ s.timerRef <= Len(s.sock) /\ s.pingRef <= Len(s.sock)
  /\ s.armed \subseteq 1..Len(s.sock) /\ s.pings \subseteq 1..Len(s.sock)
Good(s) == s \in Conns /\ Bounded(s)
OpenIn(s) == s.wsRef # 0 /\ s.sock[s.wsRef] = "open"

ConnTypes(p) ==
  /\ sock \in Seq(States) /\ Len(sock) <= Sockets(p)
  /\ wsRef \in 0..Len(sock) /\ armed \subseteq 1..Len(sock) /\ timerRef \in 0..Len(sock)
  /\ attempts \in Nat /\ backoff \in Nat
  /\ manualClose \in BOOLEAN /\ isRetry \in BOOLEAN /\ connected \in BOOLEAN
  /\ gaveUp \in BOOLEAN /\ mounted \in BOOLEAN
  /\ pings \subseteq 1..Len(sock) /\ pingRef \in 0..Len(sock) /\ autoOpens \in Nat

\* The variables, read as one record, are a good connection state.
LEMMA GoodHere == \A p : ConnTypes(p) => Good(Socket(p)!Here)
<1> SUFFICES ASSUME NEW p, ConnTypes(p) PROVE Good(Socket(p)!Here)
  OBVIOUS
<1>1. Len(sock) \in Nat
  BY DEF ConnTypes
<1>2. wsRef \in Nat /\ timerRef \in Nat /\ pingRef \in Nat /\ armed \subseteq Nat /\ pings \subseteq Nat
      /\ wsRef <= Len(sock) /\ timerRef <= Len(sock) /\ pingRef <= Len(sock)
  BY <1>1 DEF ConnTypes
<1>3. Socket(p)!Here \in Conns
  BY <1>2 DEF ConnTypes, Conns, Socket!Here
<1>4. Bounded(Socket(p)!Here)
  BY <1>2 DEF ConnTypes, Bounded, Socket!Here
<1>5. QED
  BY <1>3, <1>4 DEF Good

\* A good record, stored in the variables, keeps their types.
LEMMA GoodBecomes ==
  ASSUME NEW p, NEW s, Good(s), Len(s.sock) <= Sockets(p), Socket(p)!Become(s)
  PROVE  ConnTypes(p)'
<1>1. /\ sock' = s.sock /\ wsRef' = s.wsRef /\ armed' = s.armed /\ timerRef' = s.timerRef
      /\ attempts' = s.attempts /\ backoff' = s.backoff /\ manualClose' = s.manualClose
      /\ isRetry' = s.isRetry /\ connected' = s.connected /\ gaveUp' = s.gaveUp
      /\ pings' = s.pings /\ pingRef' = s.pingRef /\ mounted' = s.mounted
      /\ autoOpens' = s.autoOpens
  BY DEF Socket!Become
<1>2. /\ s.sock \in Seq(States) /\ s.wsRef \in Nat /\ s.timerRef \in Nat /\ s.attempts \in Nat
      /\ s.backoff \in Nat /\ s.pingRef \in Nat /\ s.autoOpens \in Nat
      /\ s.manualClose \in BOOLEAN /\ s.isRetry \in BOOLEAN /\ s.connected \in BOOLEAN
      /\ s.gaveUp \in BOOLEAN /\ s.mounted \in BOOLEAN
  BY DEF Good, Conns
<1>3. Len(s.sock) \in Nat
  BY <1>2
<1>4. s.wsRef \in 0..Len(s.sock) /\ s.timerRef \in 0..Len(s.sock) /\ s.pingRef \in 0..Len(s.sock)
      /\ s.armed \subseteq 1..Len(s.sock) /\ s.pings \subseteq 1..Len(s.sock)
  BY <1>2, <1>3 DEF Good, Bounded
<1>5. QED
  BY <1>1, <1>2, <1>4 DEF ConnTypes, Sockets

\* What each handler does to a well-formed state: it stays well-formed, a handler that
\* connects adds one socket at most, and none leaves another socket open as the current one.
LEMMA GoodRetry ==
  ASSUME NEW p, NEW s, Good(s), NEW k \in 1..Len(s.sock)
  PROVE  /\ Good(Socket(p)!ScheduleRetry(s, k))
         /\ Socket(p)!ScheduleRetry(s, k).sock = s.sock
         /\ Socket(p)!ScheduleRetry(s, k).wsRef = s.wsRef
<1>1. /\ s \in Conns /\ Len(s.sock) \in Nat /\ k \in Nat /\ k <= Len(s.sock)
      /\ s.armed \subseteq 1..Len(s.sock) /\ s.armed \subseteq Nat
      /\ s.attempts + 1 \in Nat /\ s.backoff + 1 \in Nat
  BY DEF Good, Conns, Bounded
<1>2. PICK n, l, r : /\ n = s.attempts + 1 /\ l = Socket(p)!Smaller(s.backoff + 1, 5)
                     /\ r = s.armed \cup {k}
  OBVIOUS
<1>3. n \in Nat /\ l \in Nat /\ r \subseteq Nat /\ r \subseteq 1..Len(s.sock)
  BY <1>1, <1>2 DEF Socket!Smaller
<1>4. PICK a, b : /\ a = [s EXCEPT !.attempts = n, !.gaveUp = TRUE]
                  /\ b = [s EXCEPT !.attempts = n, !.backoff = l, !.armed = r, !.timerRef = k]
  OBVIOUS
<1>5. a \in Conns /\ a.sock = s.sock /\ a.wsRef = s.wsRef /\ a.timerRef = s.timerRef
      /\ a.armed = s.armed /\ a.pings = s.pings /\ a.pingRef = s.pingRef
  BY <1>1, <1>3, <1>4 DEF Conns
<1>6. b \in Conns /\ b.sock = s.sock /\ b.wsRef = s.wsRef /\ b.timerRef = k
      /\ b.armed = r /\ b.pings = s.pings /\ b.pingRef = s.pingRef
  BY <1>1, <1>3, <1>4 DEF Conns
<1>7. Bounded(a) /\ Bounded(b)
  BY <1>1, <1>3, <1>5, <1>6 DEF Good, Bounded
<1>8. Socket(p)!ScheduleRetry(s, k) = a \/ Socket(p)!ScheduleRetry(s, k) = b
  BY <1>2, <1>4 DEF Socket!ScheduleRetry
<1>9. QED
  BY <1>5, <1>6, <1>7, <1>8 DEF Good

\* connect() gives a good state, one socket later.
LEMMA GoodConnect ==
  ASSUME NEW p, NEW s, Good(s)
  PROVE  /\ Good(Socket(p)!Connect(s))
         /\ Len(Socket(p)!Connect(s).sock) <= Len(s.sock) + 1
         /\ OpenIn(Socket(p)!Connect(s)) => OpenIn(s)
<1>1. s \in Conns /\ s.sock \in Seq(States) /\ Len(s.sock) \in Nat
  BY DEF Good, Conns
<1>2. CASE OpenIn(s)
  <2>1. Socket(p)!Connect(s) = s
    BY <1>2 DEF Socket!Connect, OpenIn
  <2>2. QED
    BY <2>1, <1>1, <1>2
<1>3. CASE ~OpenIn(s)
  <2>1. PICK n : n = Append(s.sock, "connecting")
    OBVIOUS
  <2>2. n \in Seq(States) /\ Len(n) = Len(s.sock) + 1 /\ n[Len(s.sock) + 1] = "connecting"
    BY <2>1, <1>1 DEF States
  <2> PICK u, w : /\ u = (IF s.isRetry THEN s.attempts ELSE 0)
                  /\ w = (IF s.isRetry THEN s.autoOpens + 1 ELSE 0)
    OBVIOUS
  <2>0. u \in Nat /\ w \in Nat /\ Len(s.sock) + 1 \in Nat
    BY <1>1 DEF Conns
  <2>3. PICK c : c = [s EXCEPT !.armed = @ \ {s.timerRef}, !.timerRef = 0, !.attempts = u,
                               !.isRetry = FALSE, !.manualClose = FALSE,
                               !.sock = n, !.wsRef = Len(s.sock) + 1, !.autoOpens = w]
    OBVIOUS
  <2>4. Socket(p)!Connect(s) = c
    BY <2>1, <2>3, <1>3 DEF Socket!Connect, OpenIn
  <2>5. /\ c \in Conns /\ c.sock = n /\ c.wsRef = Len(s.sock) + 1 /\ c.timerRef = 0
        /\ c.armed = s.armed \ {s.timerRef} /\ c.pings = s.pings /\ c.pingRef = s.pingRef
    BY <2>0, <2>2, <2>3, <1>1 DEF Conns
  <2>6. 1..Len(s.sock) \subseteq 1..Len(n)
    BY <2>2, <1>1
  <2>7. s.pingRef <= Len(n) /\ s.pingRef \in Nat
    BY <2>2, <1>1 DEF Good, Bounded, Conns
  <2>8. Bounded(c)
    BY <2>2, <2>5, <2>6, <2>7, <1>1 DEF Good, Bounded
  <2>9. ~OpenIn(c)
    BY <2>2, <2>5 DEF OpenIn
  <2>10. QED
    BY <2>2, <2>4, <2>5, <2>8, <2>9, <1>1 DEF Good
<1>4. QED
  BY <1>2, <1>3

\* Closing the current socket gives a good state.
LEMMA GoodClosing ==
  ASSUME NEW p, NEW s, Good(s)
  PROVE  /\ Socket(p)!Closing(s, s.wsRef) \in Seq(States)
         /\ Len(Socket(p)!Closing(s, s.wsRef)) = Len(s.sock)
         /\ s.wsRef # 0 => Socket(p)!Closing(s, s.wsRef)[s.wsRef] # "open"
<1>1. s.sock \in Seq(States) /\ s.wsRef \in Nat /\ s.wsRef <= Len(s.sock) /\ Len(s.sock) \in Nat
  BY DEF Good, Conns, Bounded
<1>2. CASE s.wsRef # 0 /\ s.sock[s.wsRef] \in {"connecting", "open"}
  <2>1. Socket(p)!Closing(s, s.wsRef) = [s.sock EXCEPT ![s.wsRef] = "closing"]
    BY <1>2 DEF Socket!Closing
  <2>2. s.wsRef \in 1..Len(s.sock) /\ "closing" \in States
    BY <1>1, <1>2 DEF States
  <2>3. QED
    BY <2>1, <2>2, <1>1
<1>3. CASE ~(s.wsRef # 0 /\ s.sock[s.wsRef] \in {"connecting", "open"})
  BY <1>1, <1>3 DEF Socket!Closing
<1>4. QED
  BY <1>2, <1>3

\* The cleanup of the effect gives a good state.
LEMMA GoodCleanup ==
  ASSUME NEW p, NEW s, Good(s)
  PROVE  /\ Good(Socket(p)!Cleanup(s)) /\ ~OpenIn(Socket(p)!Cleanup(s))
         /\ Len(Socket(p)!Cleanup(s).sock) = Len(s.sock)
<1>1. PICK n : n = Socket(p)!Closing(s, s.wsRef)
  OBVIOUS
<1>2. n \in Seq(States) /\ Len(n) = Len(s.sock) /\ (s.wsRef # 0 => n[s.wsRef] # "open")
  BY <1>1, GoodClosing
<1>3. PICK c : c = Socket(p)!Cleanup(s)
  OBVIOUS
<1>4. c = [s EXCEPT !.manualClose = TRUE, !.armed = @ \ {s.timerRef},
                    !.pings = @ \ {s.pingRef}, !.sock = n]
  BY <1>1, <1>3 DEF Socket!Cleanup
<1>5. /\ c \in Conns /\ c.sock = n /\ c.wsRef = s.wsRef /\ c.timerRef = s.timerRef
      /\ c.pingRef = s.pingRef /\ c.armed = s.armed \ {s.timerRef} /\ c.pings = s.pings \ {s.pingRef}
  BY <1>2, <1>4 DEF Good, Conns
<1>6. Good(c) /\ ~OpenIn(c)
  BY <1>2, <1>5 DEF Good, Bounded, OpenIn
<1>7. QED
  BY <1>2, <1>3, <1>5, <1>6

\* disconnect() gives a good state.
LEMMA GoodDisconnect ==
  ASSUME NEW p, NEW s, Good(s)
  PROVE  /\ Good(Socket(p)!Disconnect(s)) /\ ~OpenIn(Socket(p)!Disconnect(s))
         /\ Len(Socket(p)!Disconnect(s).sock) = Len(s.sock)
<1>1. PICK n : n = Socket(p)!Closing(s, s.wsRef)
  OBVIOUS
<1>2. n \in Seq(States) /\ Len(n) = Len(s.sock) /\ Len(n) \in Nat
  BY <1>1, GoodClosing
<1>3. PICK c : c = Socket(p)!Disconnect(s)
  OBVIOUS
<1>4. c = [s EXCEPT !.armed = @ \ {s.timerRef}, !.timerRef = 0, !.pings = @ \ {s.pingRef},
                    !.manualClose = TRUE, !.sock = n, !.wsRef = 0, !.connected = FALSE]
  BY <1>1, <1>3 DEF Socket!Disconnect
<1>5. /\ c \in Conns /\ c.sock = n /\ c.wsRef = 0 /\ c.timerRef = 0
      /\ c.pingRef = s.pingRef /\ c.armed = s.armed \ {s.timerRef} /\ c.pings = s.pings \ {s.pingRef}
  BY <1>2, <1>4 DEF Good, Conns
<1>6. Good(c) /\ ~OpenIn(c)
  BY <1>2, <1>5 DEF Good, Bounded, OpenIn
<1>7. QED
  BY <1>2, <1>3, <1>5, <1>6

-----------------------------------------------------------------------------
\* What was handed to a socket (w), what waits (q) and how many messages there were (n).
Frames == [sock : Nat, kind : {"app", "subscribe", "sync_state"}, msg : Nat]
Ordered(w, q, n) ==
  /\ \A i, j \in 1..Len(w) :
       i < j /\ w[i].kind = "app" /\ w[j].kind = "app" => w[i].msg < w[j].msg
  /\ \A i \in 1..Len(w) :
       w[i].kind = "app" => w[i].msg <= n /\ \A j \in 1..Len(q) : w[i].msg < q[j]
  /\ \A i, j \in 1..Len(q) : i < j => q[i] < q[j]
  /\ \A j \in 1..Len(q) : q[j] <= n

\* Flushing the queue onto the wire keeps the order.
LEMMA OrderedFlush ==
  ASSUME NEW w \in Seq(Frames), NEW q \in Seq(Nat), NEW n \in Nat, Ordered(w, q, n),
         NEW f \in Frames, f.kind # "app", NEW k \in Nat, NEW fs,
         fs = [i \in 1..Len(q) |-> [sock |-> k, kind |-> "app", msg |-> q[i]]]
  PROVE  Append(w, f) \o fs \in Seq(Frames) /\ Ordered(Append(w, f) \o fs, <<>>, n)
<1>1. Len(q) \in Nat /\ Len(w) \in Nat /\ \A i \in 1..Len(q) : q[i] \in Nat
  OBVIOUS
<1>2. fs \in Seq(Frames) /\ Len(fs) = Len(q)
  BY <1>1 DEF Frames
<1>3. Append(w, f) \in Seq(Frames) /\ Len(Append(w, f)) = Len(w) + 1
  BY AppendFacts
<1>4. PICK v : v = Append(w, f) \o fs
  OBVIOUS
<1>5. v \in Seq(Frames) /\ Len(v) = Len(w) + 1 + Len(q)
  BY <1>1, <1>2, <1>3, <1>4, ConcatFacts
<1>6. \A i \in 1..Len(v) : \/ i \in 1..Len(w) /\ v[i] = w[i]
                           \/ i = Len(w) + 1 /\ v[i] = f
                           \/ i - (Len(w) + 1) \in 1..Len(q) /\ v[i] = fs[i - (Len(w) + 1)]
  <2> SUFFICES ASSUME NEW i \in 1..Len(v)
               PROVE  \/ i \in 1..Len(w) /\ v[i] = w[i]
                      \/ i = Len(w) + 1 /\ v[i] = f
                      \/ i - (Len(w) + 1) \in 1..Len(q) /\ v[i] = fs[i - (Len(w) + 1)]
    OBVIOUS
  <2>1. \/ i \in 1..Len(w) + 1 /\ v[i] = Append(w, f)[i]
        \/ i - (Len(w) + 1) \in 1..Len(q) /\ v[i] = fs[i - (Len(w) + 1)]
    BY <1>1, <1>2, <1>3, <1>4, ConcatFacts
  <2>2. i \in 1..Len(w) + 1 => \/ i \in 1..Len(w) /\ Append(w, f)[i] = w[i]
                               \/ i = Len(w) + 1 /\ Append(w, f)[i] = f
    BY AppendFacts
  <2>3. QED
    BY <2>1, <2>2
<1>7. \A i \in 1..Len(q) : fs[i].kind = "app" /\ fs[i].msg = q[i]
  OBVIOUS
<1>8. \A i \in 1..Len(v) : v[i].kind = "app" =>
        \/ i \in 1..Len(w) /\ v[i] = w[i]
        \/ i - (Len(w) + 1) \in 1..Len(q) /\ v[i].msg = q[i - (Len(w) + 1)]
  BY <1>6, <1>7
<1>9. \A i \in 1..Len(v) : v[i].kind = "app" => v[i].msg <= n
  BY <1>8 DEF Ordered
<1>10. ASSUME NEW i \in 1..Len(v), NEW j \in 1..Len(v), i < j, v[i].kind = "app", v[j].kind = "app"
       PROVE  v[i].msg < v[j].msg
  <2>1. CASE i \in 1..Len(w) /\ v[i] = w[i] /\ j \in 1..Len(w) /\ v[j] = w[j]
    BY <2>1, <1>10 DEF Ordered
  <2>2. CASE i \in 1..Len(w) /\ v[i] = w[i] /\ j - (Len(w) + 1) \in 1..Len(q)
             /\ v[j].msg = q[j - (Len(w) + 1)]
    BY <2>2, <1>10 DEF Ordered
  <2>3. CASE /\ i - (Len(w) + 1) \in 1..Len(q) /\ v[i].msg = q[i - (Len(w) + 1)]
             /\ j - (Len(w) + 1) \in 1..Len(q) /\ v[j].msg = q[j - (Len(w) + 1)]
    <3>1. i - (Len(w) + 1) < j - (Len(w) + 1)
      BY <1>1, <1>5, <1>10
    <3>2. QED
      BY <3>1, <2>3 DEF Ordered
  <2>4. CASE i - (Len(w) + 1) \in 1..Len(q) /\ j \in 1..Len(w)
    BY <2>4, <1>1, <1>5, <1>10
  <2>5. QED
    BY <2>1, <2>2, <2>3, <2>4, <1>8, <1>10
<1>11. QED
  BY <1>4, <1>5, <1>9, <1>10, NoElements DEF Ordered

\* A message sent at once comes after all that are on the wire.
LEMMA OrderedSend ==
  ASSUME NEW w \in Seq(Frames), NEW q, q = <<>>, NEW n \in Nat, Ordered(w, q, n), NEW k \in Nat,
         NEW f, f = [sock |-> k, kind |-> "app", msg |-> n + 1]
  PROVE  Append(w, f) \in Seq(Frames) /\ Ordered(Append(w, f), q, n + 1)
<1>1. f \in Frames /\ f.msg = n + 1
  BY DEF Frames
<1>2. /\ Append(w, f) \in Seq(Frames) /\ Len(w) \in Nat /\ Len(Append(w, f)) = Len(w) + 1
      /\ Append(w, f)[Len(w) + 1] = f
      /\ \A i \in 1..Len(w) : Append(w, f)[i] = w[i] /\ w[i].msg \in Nat
      /\ \A i \in 1..Len(w) + 1 : i = Len(w) + 1 \/ i \in 1..Len(w)
  <2>1. \A i \in 1..Len(w) : w[i] \in Frames
    OBVIOUS
  <2>2. \A i \in 1..Len(w) : w[i].msg \in Nat
    BY <2>1 DEF Frames
  <2>3. QED
    BY <2>2, <1>1, AppendFacts
<1>3. \A i \in 1..Len(w) : w[i].kind = "app" => w[i].msg < n + 1
  BY <1>2 DEF Ordered
<1>4. \A i, j \in 1..Len(w) + 1 : i < j => i \in 1..Len(w)
  BY <1>2
<1>5. Len(q) = 0 /\ ~ \E i \in 1..0 : TRUE
  OBVIOUS
<1>6. \A i, j \in 1..Len(w) + 1 : i < j /\ Append(w, f)[i].kind = "app" /\ Append(w, f)[j].kind = "app"
        => Append(w, f)[i].msg < Append(w, f)[j].msg
  BY <1>1, <1>2, <1>3, <1>4 DEF Ordered
<1>7. \A i \in 1..Len(w) + 1 : Append(w, f)[i].kind = "app" => Append(w, f)[i].msg <= n + 1
  BY <1>1, <1>2, <1>3
<1>8. QED
  BY <1>2, <1>5, <1>6, <1>7 DEF Ordered

\* A message that is queued, or refused, and a queue that is cleared, keep the order.
LEMMA OrderedWaits ==
  ASSUME NEW w \in Seq(Frames), NEW q \in Seq(Nat), NEW n \in Nat, Ordered(w, q, n)
  PROVE  /\ Ordered(w, Append(q, n + 1), n + 1)
         /\ Ordered(w, q, n + 1)
         /\ Ordered(w, <<>>, n)
<1>1. /\ Len(q) \in Nat /\ Len(Append(q, n + 1)) = Len(q) + 1 /\ Append(q, n + 1)[Len(q) + 1] = n + 1
      /\ \A i \in 1..Len(q) : Append(q, n + 1)[i] = q[i] /\ q[i] \in Nat
      /\ \A i \in 1..Len(q) + 1 : i = Len(q) + 1 \/ i \in 1..Len(q)
  <2>1. n + 1 \in Nat /\ \A i \in 1..Len(q) : q[i] \in Nat
    OBVIOUS
  <2>2. QED
    BY <2>1, AppendFacts
<1>2. \A i \in 1..Len(w) : w[i].msg \in Nat
  <2>1. \A i \in 1..Len(w) : w[i] \in Frames
    OBVIOUS
  <2>2. QED
    BY <2>1 DEF Frames
<1>3. \A i, j \in 1..Len(q) + 1 : i < j => i \in 1..Len(q)
  BY <1>1
<1>4. \A i \in 1..Len(q) : q[i] <= n /\ q[i] < n + 1 /\ q[i] <= n + 1
  BY <1>1 DEF Ordered
<1>5. \A i \in 1..Len(w) : w[i].kind = "app" => w[i].msg <= n /\ w[i].msg < n + 1 /\ w[i].msg <= n + 1
  BY <1>2 DEF Ordered
<1>6. Ordered(w, q, n + 1)
  BY <1>4, <1>5 DEF Ordered
<1>7. Ordered(w, Append(q, n + 1), n + 1)
  <2>1. \A i, j \in 1..Len(q) + 1 : i < j => Append(q, n + 1)[i] < Append(q, n + 1)[j]
    BY <1>1, <1>3, <1>4 DEF Ordered
  <2>2. \A j \in 1..Len(q) + 1 : Append(q, n + 1)[j] <= n + 1
    BY <1>1, <1>4
  <2>3. \A i \in 1..Len(w) : w[i].kind = "app" =>
          \A j \in 1..Len(q) + 1 : w[i].msg < Append(q, n + 1)[j]
    BY <1>1, <1>5 DEF Ordered
  <2>4. QED
    BY <2>1, <2>2, <2>3, <1>1, <1>5 DEF Ordered
<1>8. Len(<<>>) = 0 /\ ~ \E i \in 1..0 : TRUE
  OBVIOUS
<1>9. Ordered(w, <<>>, n)
  BY <1>8 DEF Ordered
<1>10. QED
  BY <1>6, <1>7, <1>9

-----------------------------------------------------------------------------
SocketInv(p) ==
  /\ ConnTypes(p)
  /\ queue \in Seq(1..Sends(p)) /\ Len(queue) <= Cap(p)
  /\ sent \in 0..Sends(p)
  /\ wire \in Seq(Frames)
  /\ Ordered(wire, queue, sent)
  /\ wsRef # 0 /\ sock[wsRef] = "open" => queue = <<>>

\* Queue and wire as sequences of naturals and frames, in order.
LEMMA SocketMessages ==
  ASSUME NEW p, SocketInv(p)
  PROVE  queue \in Seq(Nat) /\ sent \in Nat /\ wire \in Seq(Frames) /\ Ordered(wire, queue, sent)
<1>1. PICK T : T = 1..Sends(p)
  OBVIOUS
<1>2. queue \in Seq(Nat)
  <2>1. queue \in Seq(T)
    BY <1>1 DEF SocketInv
  <2>2. T \subseteq Nat
    BY <1>1, SocketConstants
  <2>3. QED
    BY <2>1, <2>2, SeqMonotonic
<1>3. QED
  BY <1>2 DEF SocketInv

\* A good connection state with ordered messages keeps the invariant.
LEMMA SocketBecomes ==
  ASSUME NEW p, SocketInv(p), NEW s, Good(s), Len(s.sock) <= Sockets(p), Socket(p)!Become(s),
         queue' \in Seq(1..Sends(p)), Len(queue') <= Cap(p), sent' \in 0..Sends(p),
         wire' \in Seq(Frames), Ordered(wire', queue', sent'), OpenIn(s) => queue' = <<>>
  PROVE  SocketInv(p)'
<1>1. ConnTypes(p)'
  BY GoodBecomes
<1>2. wsRef' = s.wsRef /\ sock' = s.sock
  BY DEF Socket!Become
<1>3. QED
  BY <1>1, <1>2 DEF SocketInv, OpenIn, Sends, Cap

\* The current state is good, and nothing waits if its socket is open.
LEMMA HereFields ==
  ASSUME NEW p, SocketInv(p)
  PROVE  /\ Good(Socket(p)!Here) /\ Socket(p)!Here \in Conns
         /\ Socket(p)!Here.sock = sock /\ Socket(p)!Here.wsRef = wsRef
         /\ Len(sock) \in Nat /\ Len(sock) <= Sockets(p) /\ Sockets(p) \in Nat
         /\ OpenIn(Socket(p)!Here) => queue = <<>>
<1>1. Good(Socket(p)!Here)
  BY GoodHere DEF SocketInv
<1>2. QED
  BY <1>1, SocketConstants DEF SocketInv, ConnTypes, Socket!Here, Good, OpenIn

\* onopen: the queue is flushed.
LEMMA SocketOpened ==
  ASSUME NEW p, SocketInv(p), NEW k \in 1..Len(sock), Socket(p)!Opened(k)
  PROVE  SocketInv(p)'
<1>1. PICK h : h = Socket(p)!Here
  OBVIOUS
<1>2. Good(h) /\ h \in Conns /\ h.sock = sock /\ h.sock \in Seq(States) /\ Len(sock) \in Nat
      /\ Len(sock) <= Sockets(p)
  BY <1>1, HereFields DEF Conns
<1>3. PICK n : n = [h.sock EXCEPT ![k] = "open"]
  OBVIOUS
<1>4. n \in Seq(States) /\ Len(n) = Len(sock)
  BY <1>2, <1>3 DEF States
<1>5. PICK s : s = [h EXCEPT !.sock = n, !.connected = TRUE, !.gaveUp = FALSE,
                             !.backoff = 0, !.attempts = 0, !.autoOpens = 0,
                             !.pings = @ \cup {k}, !.pingRef = k]
  OBVIOUS
<1>6. Socket(p)!Become(s)
  BY <1>1, <1>3, <1>5 DEF Socket!Opened
<1>7. /\ s \in Conns /\ s.sock = n /\ s.wsRef = h.wsRef /\ s.timerRef = h.timerRef
      /\ s.armed = h.armed /\ s.pings = h.pings \cup {k} /\ s.pingRef = k
  <2>1. k \in Nat
    BY <1>2
  <2>2. QED
    BY <2>1, <1>2, <1>4, <1>5 DEF Conns
<1>8. Good(s)
  BY <1>2, <1>4, <1>7 DEF Good, Bounded
<1>9. PICK f : f = Socket(p)!Frame(k, IF attempts > 0 THEN "sync_state" ELSE "subscribe", 0)
  OBVIOUS
<1>10. f \in Frames /\ f.kind # "app" /\ k \in Nat
  BY <1>9 DEF Frames, Socket!Frame
<1>11. wire' = Append(wire, f) \o [i \in 1..Len(queue) |-> [sock |-> k, kind |-> "app", msg |-> queue[i]]]
       /\ queue' = <<>> /\ sent' = sent
  BY <1>9 DEF Socket!Opened, Socket!Frame
<1>12. queue \in Seq(Nat) /\ sent \in Nat /\ wire \in Seq(Frames) /\ Ordered(wire, queue, sent)
  BY SocketMessages
<1>13. wire' \in Seq(Frames) /\ Ordered(wire', queue', sent')
  BY <1>10, <1>11, <1>12, OrderedFlush
<1>14. queue' \in Seq(1..Sends(p)) /\ Len(queue') <= Cap(p) /\ sent' \in 0..Sends(p)
  BY <1>11, SocketConstants DEF SocketInv
<1>15. QED
  BY <1>2, <1>4, <1>6, <1>7, <1>8, <1>11, <1>13, <1>14, SocketBecomes

\* The steps that leave the messages alone.
LEMMA SocketQuiet ==
  ASSUME NEW p, SocketInv(p), UNCHANGED <<queue, wire, sent>>, NEW s, Good(s),
         Len(s.sock) <= Sockets(p), Socket(p)!Become(s), OpenIn(s) => queue = <<>>
  PROVE  SocketInv(p)'
<1>1. /\ queue' \in Seq(1..Sends(p)) /\ Len(queue') <= Cap(p) /\ sent' \in 0..Sends(p)
      /\ wire' \in Seq(Frames) /\ Ordered(wire', queue', sent')
  BY DEF SocketInv
<1>2. QED
  BY <1>1, SocketBecomes

\* onclose: a retry may be scheduled.
LEMMA SocketClosed ==
  ASSUME NEW p, SocketInv(p), NEW k \in 1..Len(sock), Socket(p)!Closed(k)
  PROVE  SocketInv(p)'
<1>1. PICK h : h = Socket(p)!Here
  OBVIOUS
<1>2. Good(h) /\ h \in Conns /\ h.sock = sock /\ h.sock \in Seq(States) /\ Len(sock) \in Nat
      /\ Len(sock) <= Sockets(p) /\ (OpenIn(h) => queue = <<>>)
  BY <1>1, HereFields DEF Conns
<1>3. PICK n : n = [h.sock EXCEPT ![k] = "closed"]
  OBVIOUS
<1>4. n \in Seq(States) /\ Len(n) = Len(sock) /\ \A i \in 1..Len(sock) : n[i] = "open" => sock[i] = "open"
  BY <1>2, <1>3 DEF States
<1>5. PICK s : s = [h EXCEPT !.sock = n, !.connected = FALSE, !.pings = @ \ {pingRef}]
  OBVIOUS
<1>6. Socket(p)!Become(IF manualClose THEN s ELSE Socket(p)!ScheduleRetry(s, k))
      /\ UNCHANGED <<queue, wire, sent>>
  BY <1>1, <1>3, <1>5 DEF Socket!Closed
<1>7. /\ s \in Conns /\ s.sock = n /\ s.wsRef = h.wsRef /\ s.timerRef = h.timerRef
      /\ s.armed = h.armed /\ s.pings = h.pings \ {pingRef} /\ s.pingRef = h.pingRef
  BY <1>2, <1>4, <1>5 DEF Conns
<1>8. Good(s)
  BY <1>2, <1>4, <1>7 DEF Good, Bounded
<1>9. OpenIn(s) => queue = <<>>
  BY <1>2, <1>4, <1>7, <1>8 DEF OpenIn, Good, Bounded, Conns
<1>10. PICK r : r = IF manualClose THEN s ELSE Socket(p)!ScheduleRetry(s, k)
  OBVIOUS
<1>11. k \in 1..Len(s.sock)
  BY <1>4, <1>7
<1>12. Good(r) /\ r.sock = s.sock /\ r.wsRef = s.wsRef
  BY <1>8, <1>10, <1>11, GoodRetry
<1>13. OpenIn(r) => queue = <<>>
  BY <1>9, <1>12 DEF OpenIn
<1>14. QED
  BY <1>2, <1>4, <1>6, <1>7, <1>10, <1>12, <1>13, SocketQuiet

\* The timer of a retry.
LEMMA SocketTimer ==
  ASSUME NEW p, SocketInv(p), NEW k \in 1..Len(sock), Socket(p)!TimerFires(k)
  PROVE  SocketInv(p)'
<1>1. PICK h : h = Socket(p)!Here
  OBVIOUS
<1>2. Good(h) /\ h \in Conns /\ h.sock = sock /\ Len(sock) \in Nat /\ Sockets(p) \in Nat
      /\ (OpenIn(h) => queue = <<>>)
  BY <1>1, HereFields DEF Conns
<1>3. PICK s : s = [h EXCEPT !.armed = @ \ {k}, !.timerRef = 0, !.isRetry = TRUE]
  OBVIOUS
<1>4. /\ s \in Conns /\ s.sock = h.sock /\ s.wsRef = h.wsRef /\ s.timerRef = 0
      /\ s.armed = h.armed \ {k} /\ s.pings = h.pings /\ s.pingRef = h.pingRef
  BY <1>2, <1>3 DEF Conns
<1>5. Good(s)
  BY <1>2, <1>4 DEF Good, Bounded
<1>6. PICK c : c = Socket(p)!Connect(s)
  OBVIOUS
<1>7. Socket(p)!Become(c) /\ UNCHANGED <<queue, wire, sent>> /\ Len(sock) < Sockets(p)
  BY <1>1, <1>3, <1>6 DEF Socket!TimerFires, Sockets
<1>8. Good(c) /\ Len(c.sock) <= Len(sock) + 1 /\ (OpenIn(c) => OpenIn(s)) /\ Len(c.sock) \in Nat
  <2>1. Good(c) /\ Len(c.sock) <= Len(sock) + 1 /\ (OpenIn(c) => OpenIn(s))
    BY <1>2, <1>4, <1>5, <1>6, GoodConnect
  <2>2. QED
    BY <2>1 DEF Good, Conns
<1>9. Len(c.sock) <= Sockets(p)
  BY <1>2, <1>7, <1>8
<1>10. OpenIn(c) => queue = <<>>
  BY <1>2, <1>4, <1>8 DEF OpenIn
<1>11. QED
  BY <1>7, <1>8, <1>9, <1>10, SocketQuiet

\* The user asks for another attempt.
LEMMA SocketRetry ==
  ASSUME NEW p, SocketInv(p), Socket(p)!ClickRetry
  PROVE  SocketInv(p)'
<1>1. PICK h, c : h = Socket(p)!Here /\ c = Socket(p)!Connect(h)
  OBVIOUS
<1>2. Good(h) /\ h.sock = sock /\ Len(sock) \in Nat /\ Sockets(p) \in Nat
      /\ (OpenIn(h) => queue = <<>>)
  BY <1>1, HereFields
<1>3. Socket(p)!Become(c) /\ UNCHANGED <<queue, wire, sent>> /\ Len(sock) < Sockets(p)
  BY <1>1 DEF Socket!ClickRetry, Sockets
<1>4. Good(c) /\ Len(c.sock) <= Len(sock) + 1 /\ (OpenIn(c) => OpenIn(h)) /\ Len(c.sock) \in Nat
  BY <1>1, <1>2, GoodConnect DEF Good, Conns
<1>5. Len(c.sock) <= Sockets(p)
  BY <1>2, <1>3, <1>4
<1>6. QED
  BY <1>2, <1>3, <1>4, <1>5, SocketQuiet

\* A new token replaces the connection.
LEMMA SocketToken ==
  ASSUME NEW p, SocketInv(p), Socket(p)!TokenChange
  PROVE  SocketInv(p)'
<1>1. PICK h, a, b, c, d :
        /\ h = Socket(p)!Here /\ a = Socket(p)!Cleanup(h) /\ b = Socket(p)!Connect(a)
        /\ c = Socket(p)!Disconnect(b) /\ d = Socket(p)!Connect(c)
  OBVIOUS
<1>2. Good(h) /\ h.sock = sock /\ Len(sock) \in Nat /\ Sockets(p) \in Nat
  BY <1>1, HereFields
<1>3. Socket(p)!Become(d) /\ queue' = <<>> /\ UNCHANGED <<wire, sent>> /\ Len(sock) + 1 < Sockets(p)
  BY <1>1 DEF Socket!TokenChange, Sockets
<1>4. Good(a) /\ Len(a.sock) = Len(sock)
  BY <1>1, <1>2, GoodCleanup
<1>5. Good(b) /\ Len(b.sock) <= Len(a.sock) + 1
  BY <1>1, <1>4, GoodConnect
<1>6. Good(c) /\ Len(c.sock) = Len(b.sock)
  BY <1>1, <1>5, GoodDisconnect
<1>7. Good(d) /\ Len(d.sock) <= Len(c.sock) + 1
  BY <1>1, <1>6, GoodConnect
<1>8. Len(b.sock) \in Nat /\ Len(d.sock) \in Nat
  BY <1>5, <1>7 DEF Good, Conns
<1>9. Len(d.sock) <= Sockets(p)
  BY <1>2, <1>3, <1>4, <1>5, <1>6, <1>7, <1>8
<1>10. queue \in Seq(Nat) /\ sent \in Nat /\ wire \in Seq(Frames) /\ Ordered(wire, queue, sent)
  BY SocketMessages
<1>11. Ordered(wire', queue', sent') /\ wire' \in Seq(Frames)
  BY <1>3, <1>10, OrderedWaits
<1>12. queue' \in Seq(1..Sends(p)) /\ Len(queue') <= Cap(p) /\ sent' \in 0..Sends(p)
  BY <1>3, SocketConstants DEF SocketInv
<1>13. QED
  BY <1>3, <1>7, <1>9, <1>11, <1>12, SocketBecomes

\* The hook is unmounted.
LEMMA SocketUnmount ==
  ASSUME NEW p, SocketInv(p), Socket(p)!Unmount
  PROVE  SocketInv(p)'
<1>1. PICK h, c, s : /\ h = Socket(p)!Here /\ c = Socket(p)!Cleanup(h)
                     /\ s = [c EXCEPT !.mounted = FALSE]
  OBVIOUS
<1>2. Good(h) /\ h.sock = sock /\ Len(sock) <= Sockets(p)
  BY <1>1, HereFields
<1>3. Good(c) /\ Len(c.sock) = Len(sock) /\ ~OpenIn(c)
  BY <1>1, <1>2, GoodCleanup
<1>4. /\ s \in Conns /\ s.sock = c.sock /\ s.wsRef = c.wsRef /\ s.timerRef = c.timerRef
      /\ s.armed = c.armed /\ s.pings = c.pings /\ s.pingRef = c.pingRef
  BY <1>1, <1>3 DEF Good, Conns
<1>5. Good(s) /\ ~OpenIn(s)
  BY <1>3, <1>4 DEF Good, Bounded, OpenIn
<1>6. Socket(p)!Become(s) /\ UNCHANGED <<queue, wire, sent>>
  BY <1>1 DEF Socket!Unmount
<1>7. QED
  BY <1>2, <1>3, <1>4, <1>5, <1>6, SocketQuiet

\* send(): onto the wire or into the queue.
LEMMA SocketSend ==
  ASSUME NEW p, SocketInv(p), Socket(p)!Send
  PROVE  SocketInv(p)'
<1>1. UNCHANGED <<sock, wsRef, armed, timerRef, attempts, backoff, manualClose, isRetry,
                  connected, gaveUp, pings, pingRef, mounted, autoOpens>>
      /\ sent' = sent + 1 /\ sent < Sends(p)
  BY DEF Socket!Send, Socket!conn, Sends
<1>2. ConnTypes(p)'
  BY <1>1 DEF SocketInv, ConnTypes, Sockets
<1>3. /\ queue \in Seq(1..Sends(p)) /\ Len(queue) <= Cap(p) /\ queue \in Seq(Nat) /\ Cap(p) \in Nat
      /\ Len(queue) \in Nat
      /\ sent \in Nat /\ wire \in Seq(Frames) /\ Ordered(wire, queue, sent) /\ Sends(p) \in Nat
  BY SocketConstants DEF SocketInv
<1>4. sent' \in 0..Sends(p) /\ sent + 1 \in 1..Sends(p)
  BY <1>1, <1>3
<1>5. CASE wsRef # 0 /\ sock[wsRef] = "open"
  <2>1. queue = <<>> /\ wsRef \in Nat
    BY <1>5 DEF SocketInv, ConnTypes
  <2>2. wire' = Append(wire, [sock |-> wsRef, kind |-> "app", msg |-> sent + 1]) /\ queue' = queue
    BY <1>5 DEF Socket!Send, Socket!IsOpen, Socket!Frame
  <2>3. wire' \in Seq(Frames) /\ Ordered(wire', queue', sent')
    BY <2>1, <2>2, <1>1, <1>3, OrderedSend
  <2>4. QED
    BY <2>1, <2>2, <2>3, <1>2, <1>3, <1>4 DEF SocketInv, Sends, Cap
<1>6. CASE ~(wsRef # 0 /\ sock[wsRef] = "open")
  <2>1. queue' = (IF Len(queue) < Cap(p) THEN Append(queue, sent + 1) ELSE queue) /\ wire' = wire
    BY <1>6 DEF Socket!Send, Socket!IsOpen, Cap
  <2>2. Ordered(wire', queue', sent')
    BY <2>1, <1>1, <1>3, OrderedWaits
  <2>3. queue' \in Seq(1..Sends(p)) /\ Len(queue') <= Cap(p)
    <3>1. CASE Len(queue) < Cap(p)
      <4>1. queue' \in Seq(1..Sends(p)) /\ Len(queue') = Len(queue) + 1
        BY <3>1, <2>1, <1>3, <1>4, AppendFacts
      <4>2. QED
        BY <4>1, <3>1, <1>3
    <3>2. CASE ~(Len(queue) < Cap(p))
      BY <3>2, <2>1, <1>3
    <3>3. QED
      BY <3>1, <3>2
  <2>4. QED
    BY <2>1, <2>2, <2>3, <1>1, <1>2, <1>3, <1>4, <1>6 DEF SocketInv, Sends, Cap
<1>7. QED
  BY <1>5, <1>6

\* The invariant holds at the start.
LEMMA SocketInitial == \A p : Socket("socket")!Init => SocketInv(p)
<1> SUFFICES ASSUME NEW p, Socket("socket")!Init PROVE SocketInv(p)
  OBVIOUS
<1>1. /\ sock = <<"connecting">> /\ wsRef = 1 /\ armed = {} /\ timerRef = 0 /\ attempts = 0
      /\ backoff = 0 /\ queue = <<>> /\ pings = {} /\ pingRef = 0 /\ wire = <<>> /\ sent = 0
      /\ autoOpens = 0
  BY DEF Socket!Init
<1>2. manualClose \in BOOLEAN /\ isRetry \in BOOLEAN /\ connected \in BOOLEAN
      /\ gaveUp \in BOOLEAN /\ mounted \in BOOLEAN
  BY DEF Socket!Init
<1>3. sock \in Seq(States) /\ Len(sock) = 1 /\ sock[1] = "connecting"
  BY <1>1 DEF States
<1>4. Len(sock) <= Sockets(p) /\ Sends(p) \in Nat /\ Cap(p) \in Nat
  BY <1>3, SocketConstants
<1>5. ConnTypes(p)
  BY <1>1, <1>2, <1>3, <1>4 DEF ConnTypes
<1>6. Len(<<>>) = 0 /\ ~ \E i \in 1..0 : TRUE
  OBVIOUS
<1>7. Ordered(wire, queue, sent)
  BY <1>1, <1>6 DEF Ordered
<1>8. QED
  BY <1>1, <1>4, <1>5, <1>7 DEF SocketInv

\* Every step of the socket keeps it.
LEMMA SocketStep ==
  \A p : SocketInv(p) /\ (Socket(p)!Next \/ UNCHANGED socketVars) => SocketInv(p)'
<1>1. ASSUME NEW p, SocketInv(p), UNCHANGED socketVars PROVE SocketInv(p)'
  BY <1>1 DEF socketVars, SocketInv, ConnTypes, Sockets, Sends, Cap
<1>2. QED
  BY <1>1, SocketOpened, SocketClosed, SocketTimer, SocketSend, SocketRetry, SocketToken, SocketUnmount
  DEF Socket!Next

\* What it says about types, order and the queue.
LEMMA SocketTyped ==
  \A p : SocketInv(p) => Socket(p)!TypeOK /\ Socket(p)!SentOnceInOrder /\ Socket(p)!NothingStuck
<1> SUFFICES ASSUME NEW p, SocketInv(p)
             PROVE  Socket(p)!TypeOK /\ Socket(p)!SentOnceInOrder /\ Socket(p)!NothingStuck
  OBVIOUS
<1>1. Socket(p)!TypeOK
  BY DEF SocketInv, ConnTypes, Socket!TypeOK, Socket!SockStates, States, Sockets, Sends, Cap
<1>2. Socket(p)!SentOnceInOrder
  BY DEF SocketInv, Ordered, Socket!SentOnceInOrder, Socket!IsApp
<1>3. Socket(p)!NothingStuck
  BY DEF SocketInv, Socket!NothingStuck, Socket!IsOpen
<1>4. QED
  BY <1>1, <1>2, <1>3

-----------------------------------------------------------------------------
\* While only timers reconnect: the last socket is the current one and the only one that
\* is not closed, one timer at most is armed, and only when it is closed and the budget is
\* not used up.
TimersInv ==
  /\ wsRef = Len(sock) /\ 1 <= wsRef
  /\ \A k \in 1..Len(sock) : sock[k] # "closed" => k = wsRef
  /\ manualClose <=> ~mounted
  /\ armed # {} => /\ armed = {timerRef} /\ sock[wsRef] = "closed" /\ mounted
                   /\ autoOpens < attempts /\ attempts < MaxReconnects
  /\ mounted => (connected <=> sock[wsRef] = "open")
  /\ autoOpens <= attempts /\ autoOpens < MaxReconnects

\* While only timers reconnect: the start.
LEMMA TimersInitial == Socket("socket")!Init => TimersInv
<1> SUFFICES ASSUME Socket("socket")!Init PROVE TimersInv
  OBVIOUS
<1>1. sock = <<"connecting">> /\ wsRef = 1 /\ armed = {} /\ attempts = 0 /\ autoOpens = 0
  BY DEF Socket!Init
<1>2. manualClose = FALSE /\ mounted = TRUE /\ connected = FALSE
  BY DEF Socket!Init
<1>3. Len(sock) = 1 /\ sock[1] = "connecting" /\ \A k \in 1..Len(sock) : k = 1
  BY <1>1
<1>4. QED
  BY <1>1, <1>2, <1>3, SocketAssumption DEF TimersInv

\* onopen of the one live socket.
LEMMA TimersOpened ==
  ASSUME SocketInv("socket"), TimersInv, NEW k \in 1..Len(sock), Socket("socket")!Opened(k)
  PROVE  TimersInv'
<1>1. /\ sock[k] = "connecting" /\ sock' = [sock EXCEPT ![k] = "open"] /\ wsRef' = wsRef
      /\ armed' = armed /\ attempts' = 0 /\ autoOpens' = 0
      /\ manualClose' = manualClose /\ mounted' = mounted /\ connected' = TRUE
  BY DEF Socket!Opened, Socket!Become, Socket!Here
<1>2. sock \in Seq(States) /\ Len(sock) \in Nat
  BY DEF SocketInv, ConnTypes
<1>3. k = wsRef /\ armed = {}
  BY <1>1 DEF TimersInv
<1>4. Len(sock') = Len(sock) /\ sock'[k] = "open" /\ \A i \in 1..Len(sock) : i # k => sock'[i] = sock[i]
  BY <1>1, <1>2
<1>5. QED
  BY <1>1, <1>3, <1>4, SocketAssumption DEF TimersInv

\* onclose of the one live socket.
LEMMA TimersClosed ==
  ASSUME SocketInv("socket"), TimersInv, NEW k \in 1..Len(sock), Socket("socket")!Closed(k)
  PROVE  TimersInv'
<1>1. sock \in Seq(States) /\ Len(sock) \in Nat /\ attempts \in Nat /\ autoOpens \in Nat
  BY DEF SocketInv, ConnTypes
<1>2. sock[k] # "closed" /\ k = wsRef /\ armed = {}
  BY DEF Socket!Closed, TimersInv
<1>3. /\ sock' = [sock EXCEPT ![k] = "closed"] /\ wsRef' = wsRef /\ autoOpens' = autoOpens
      /\ manualClose' = manualClose /\ mounted' = mounted /\ connected' = FALSE
      /\ \/ armed' = armed /\ attempts' = attempts
         \/ armed' = armed /\ attempts' = attempts + 1
         \/ /\ armed' = armed \cup {k} /\ timerRef' = k /\ attempts' = attempts + 1
            /\ ~manualClose /\ ~(attempts + 1 >= MaxReconnects)
  BY DEF Socket!Closed, Socket!Become, Socket!Here, Socket!ScheduleRetry
<1>4. Len(sock') = Len(sock) /\ sock'[k] = "closed" /\ \A i \in 1..Len(sock) : i # k => sock'[i] = sock[i]
  BY <1>1, <1>3
<1>5. armed' # {} => /\ armed' = {timerRef'} /\ ~manualClose
                     /\ autoOpens' < attempts' /\ attempts' < MaxReconnects
  BY <1>1, <1>2, <1>3, SocketAssumption DEF TimersInv
<1>6. autoOpens' <= attempts' /\ autoOpens' < MaxReconnects
  BY <1>1, <1>3, SocketAssumption DEF TimersInv
<1>7. QED
  BY <1>2, <1>3, <1>4, <1>5, <1>6 DEF TimersInv

\* A retry opens the only live socket.
LEMMA TimersFire ==
  ASSUME SocketInv("socket"), TimersInv, NEW k \in 1..Len(sock), Socket("socket")!TimerFires(k)
  PROVE  TimersInv'
<1>1. sock \in Seq(States) /\ Len(sock) \in Nat /\ attempts \in Nat /\ autoOpens \in Nat
  BY DEF SocketInv, ConnTypes
<1>2. k \in armed /\ armed = {timerRef} /\ armed = {k} /\ sock[wsRef] = "closed" /\ mounted
      /\ autoOpens < attempts /\ attempts < MaxReconnects
  BY DEF Socket!TimerFires, TimersInv
<1>3. /\ sock' = Append(sock, "connecting") /\ wsRef' = Len(sock) + 1 /\ armed' = (armed \ {k}) \ {0}
      /\ attempts' = attempts /\ autoOpens' = autoOpens + 1 /\ manualClose' = FALSE
      /\ mounted' = mounted /\ connected' = connected
  BY <1>2 DEF Socket!TimerFires, Socket!Become, Socket!Here, Socket!Connect
<1>4. /\ Len(sock') = Len(sock) + 1 /\ sock'[Len(sock) + 1] = "connecting"
      /\ \A i \in 1..Len(sock') : i = Len(sock) + 1 \/ (i \in 1..Len(sock) /\ sock'[i] = sock[i])
  BY <1>1, <1>3
<1>5. \A i \in 1..Len(sock) : sock[i] = "closed"
  BY <1>2 DEF TimersInv
<1>6. armed' = {}
  BY <1>2, <1>3
<1>7. autoOpens' <= attempts' /\ autoOpens' < MaxReconnects /\ 1 <= wsRef' /\ wsRef' = Len(sock')
  BY <1>1, <1>2, <1>3, <1>4, SocketAssumption
<1>8. connected' <=> FALSE
  BY <1>2, <1>3 DEF TimersInv
<1>9. manualClose' <=> ~mounted'
  BY <1>2, <1>3
<1>10. \A i \in 1..Len(sock') : sock'[i] # "closed" => i = wsRef'
  BY <1>3, <1>4, <1>5
<1>11. sock'[wsRef'] = "connecting"
  BY <1>3, <1>4
<1>12. QED
  BY <1>6, <1>7, <1>8, <1>9, <1>10, <1>11 DEF TimersInv

\* The unmount closes the live socket.
LEMMA TimersUnmount ==
  ASSUME SocketInv("socket"), TimersInv, Socket("socket")!Unmount
  PROVE  TimersInv'
<1>1. sock \in Seq(States) /\ Len(sock) \in Nat /\ wsRef \in Nat
  BY DEF SocketInv, ConnTypes
<1>2. /\ wsRef' = wsRef /\ armed' = armed \ {timerRef} /\ attempts' = attempts
      /\ autoOpens' = autoOpens /\ manualClose' = TRUE /\ mounted' = FALSE
      /\ sock' = Socket("socket")!Closing(Socket("socket")!Here, wsRef)
  BY DEF Socket!Unmount, Socket!Become, Socket!Here, Socket!Cleanup
<1>3. sock' = sock \/ sock' = [sock EXCEPT ![wsRef] = "closing"]
  BY <1>2 DEF Socket!Closing, Socket!Here
<1>4. Len(sock') = Len(sock) /\ \A i \in 1..Len(sock) : i # wsRef => sock'[i] = sock[i]
  BY <1>1, <1>3
<1>5. armed' = {}
  BY <1>2 DEF TimersInv
<1>6. QED
  BY <1>2, <1>4, <1>5 DEF TimersInv

\* Every step keeps one live socket and the budget.
LEMMA TimersStep ==
  SocketInv("socket") /\ TimersInv /\ (Socket("socket")!Next \/ UNCHANGED socketVars) => TimersInv'
<1>1. ASSUME TimersInv,
             UNCHANGED <<sock, wsRef, armed, timerRef, attempts, autoOpens, manualClose, mounted,
                         connected>>
      PROVE  TimersInv'
  BY <1>1 DEF TimersInv
<1>2. ASSUME TimersInv, UNCHANGED socketVars PROVE TimersInv'
  BY <1>1, <1>2 DEF socketVars
<1>3. ASSUME TimersInv, Socket("socket")!Send PROVE TimersInv'
  BY <1>1, <1>3 DEF Socket!Send, Socket!conn
<1>4. ~Socket("socket")!ClickRetry /\ ~Socket("socket")!TokenChange
  BY DEF Socket!ClickRetry, Socket!TokenChange
<1>5. QED
  BY <1>2, <1>3, <1>4, TimersOpened, TimersClosed, TimersFire, TimersUnmount DEF Socket!Next

\* What follows for the page.
LEMMA TimersSound ==
  SocketInv("socket") /\ TimersInv =>
    /\ Socket("socket")!OneLiveSocket /\ Socket("socket")!ConnectedIsTrue
    /\ Socket("socket")!RetriesAreCapped
<1> SUFFICES ASSUME SocketInv("socket"), TimersInv
             PROVE  /\ Socket("socket")!OneLiveSocket /\ Socket("socket")!ConnectedIsTrue
                    /\ Socket("socket")!RetriesAreCapped
  OBVIOUS
<1>1. Socket("socket")!OneLiveSocket
  BY DEF TimersInv, Socket!OneLiveSocket
<1>2. Socket("socket")!RetriesAreCapped
  BY DEF TimersInv, Socket!RetriesAreCapped
<1>3. wsRef # 0
  BY DEF TimersInv, SocketInv, ConnTypes
<1>4. Socket("socket")!ConnectedIsTrue
  BY <1>3 DEF TimersInv, Socket!ConnectedIsTrue, Socket!IsOpen
<1>5. QED
  BY <1>1, <1>2, <1>4

-----------------------------------------------------------------------------
(***************************************************************************)
(* Sets of candle times: trimming and sorting.                             *)
(***************************************************************************)
LEMMA FeedCardinality == \A S : Feed!Cardinality(S) = Cardinality(S)
BY DEF Feed!Cardinality, Cardinality

\* A set of naturals has a least member, a bounded one a greatest.
LEMMA LeastNat ==
  ASSUME NEW T, T \subseteq Nat, T # {}
  PROVE  \E x \in T : \A y \in T : x <= y
<1>1. PICK x \in T : \A y \in T : ~(<<y, x>> \in OpToRel(<, Nat))
  BY NatLessThanWellFounded, WFMin
<1>2. \A y \in T : y < x => <<y, x>> \in OpToRel(<, Nat)
  BY DEF OpToRel
<1>3. \A y \in T : x \in Nat /\ y \in Nat /\ ~(y < x)
  BY <1>1, <1>2
<1>4. QED
  BY <1>3

\* A bounded set of naturals has a greatest member.
LEMMA GreatestNat ==
  ASSUME NEW T, T \subseteq Nat, T # {}, NEW n \in Nat, \A x \in T : x <= n
  PROVE  \E x \in T : \A y \in T : y <= x
<1> DEFINE B == {m \in Nat : \A x \in T : x <= m}
<1>1. B \subseteq Nat /\ B # {}
  OBVIOUS
<1>2. PICK m \in B : \A k \in B : m <= k
  BY <1>1, LeastNat
<1>3. SUFFICES ASSUME m \notin T PROVE FALSE
  BY <1>2
<1>4. m \in Nat /\ \A x \in T : x \in Nat /\ x <= m /\ x # m
  BY <1>3
<1>5. PICK y \in T : TRUE
  OBVIOUS
<1>6. m - 1 \in Nat /\ \A x \in T : x <= m - 1
  BY <1>4, <1>5
<1>7. m - 1 \in B
  BY <1>6
<1>8. QED
  BY <1>2, <1>4, <1>7

\* The members of S above t, and how many.
Above(S, t) == {u \in S : u > t}
Rank(S, t) == Cardinality(Above(S, t))

\* The rank in a finite set is a number.
LEMMA RankType ==
  ASSUME NEW S, IsFiniteSet(S), NEW t
  PROVE  Rank(S, t) \in Nat /\ IsFiniteSet(Above(S, t))
BY FS_Subset, FS_CardinalityType DEF Rank, Above

\* In a larger set there are more members above.
LEMMA RankMonotone ==
  ASSUME NEW S, IsFiniteSet(S), NEW R, NEW t, R \subseteq S
  PROVE  Rank(R, t) <= Rank(S, t)
<1>1. Above(R, t) \in SUBSET Above(S, t)
  BY DEF Above
<1>2. QED
  BY <1>1, RankType, FS_Subset DEF Rank

\* Trim keeps the members with fewer than CandleCap above them.
LEMMA TrimIsRank ==
  ASSUME NEW S, S \subseteq Nat, IsFiniteSet(S)
  PROVE  Feed!Trim(S) = {t \in S : Rank(S, t) < CandleCap}
<1>1. ASSUME NEW t \in S, Cardinality(S) <= CandleCap PROVE Rank(S, t) < CandleCap
  <2>1. IsFiniteSet(S \ {t}) /\ Cardinality(S \ {t}) = Cardinality(S) - 1
    BY FS_RemoveElement
  <2>2. Above(S, t) \in SUBSET (S \ {t})
    BY DEF Above
  <2>3. Rank(S, t) <= Cardinality(S) - 1
    BY <2>1, <2>2, FS_Subset DEF Rank
  <2>4. Rank(S, t) \in Nat /\ Cardinality(S) \in Nat
    BY RankType, FS_CardinalityType
  <2>5. QED
    BY <1>1, <2>3, <2>4, FeedAssumption
<1>2. Cardinality(S) \in Nat /\ CandleCap \in Nat
  BY FS_CardinalityType, FeedAssumption
<1>3. CASE Cardinality(S) > CandleCap
  <2>1. Feed!Trim(S) = {t \in S : Cardinality({u \in S : u > t}) < CandleCap}
    BY <1>3, FeedCardinality DEF Feed!Trim
  <2>2. QED
    BY <2>1 DEF Rank, Above
<1>4. CASE ~(Cardinality(S) > CandleCap)
  <2>1. Feed!Trim(S) = S
    BY <1>4, FeedCardinality DEF Feed!Trim
  <2>2. \A t \in S : Rank(S, t) < CandleCap
    BY <1>1, <1>2, <1>4
  <2>3. QED
    BY <2>1, <2>2
<1>5. QED
  BY <1>3, <1>4

\* Trim keeps at most CandleCap members: the least one kept has the others above it.
LEMMA TrimBound ==
  ASSUME NEW S, S \subseteq Nat, IsFiniteSet(S)
  PROVE  /\ Feed!Trim(S) \subseteq S /\ IsFiniteSet(Feed!Trim(S))
         /\ Cardinality(Feed!Trim(S)) \in Nat /\ Cardinality(Feed!Trim(S)) <= CandleCap
<1> DEFINE T == Feed!Trim(S)
<1>1. T = {t \in S : Rank(S, t) < CandleCap}
  BY TrimIsRank
<1>2. T \in SUBSET S
  BY <1>1
<1>3. IsFiniteSet(T)
  BY <1>2, FS_Subset
<1>4. Cardinality(T) \in Nat /\ CandleCap \in Nat
  BY <1>3, FS_CardinalityType, FeedAssumption
<1>5. CASE T = {}
  <2>1. Cardinality(T) = 0
    BY <1>5, FS_EmptySet
  <2>2. QED
    BY <1>2, <1>3, <1>4, <2>1
<1>6. CASE T # {}
  <2>1. T \subseteq Nat
    BY <1>2
  <2>2. PICK m \in T : \A y \in T : m <= y
    BY <1>6, <2>1, LeastNat
  <2>3. T \ {m} \in SUBSET Above(S, m)
    BY <1>2, <2>1, <2>2 DEF Above
  <2>4. IsFiniteSet(Above(S, m)) /\ Rank(S, m) \in Nat
    BY RankType
  <2>5. Cardinality(T \ {m}) <= Rank(S, m)
    BY <2>3, <2>4, FS_Subset DEF Rank
  <2>6. Cardinality(T \ {m}) = Cardinality(T) - 1
    BY <1>3, FS_RemoveElement
  <2>7. Rank(S, m) < CandleCap
    BY <1>1
  <2>8. QED
    BY <1>2, <1>3, <1>4, <2>4, <2>5, <2>6, <2>7
<1>7. QED
  BY <1>5, <1>6

\* What was cut before never comes back: the cut map and all candles trim to the same.
LEMMA TrimAbsorbs ==
  ASSUME NEW A, A \subseteq Nat, IsFiniteSet(A), NEW B, B \subseteq Nat, IsFiniteSet(B),
         NEW n \in Nat, \A x \in A \cup B : x <= n
  PROVE  Feed!Trim(Feed!Trim(A) \cup B) = Feed!Trim(A \cup B)
<1> DEFINE U == A \cup B
           V == Feed!Trim(A) \cup B
<1>1. Feed!Trim(A) = {t \in A : Rank(A, t) < CandleCap}
  BY TrimIsRank
<1>2. U \subseteq Nat /\ IsFiniteSet(U) /\ V \subseteq U /\ IsFiniteSet(V) /\ V \subseteq Nat
  <2>1. IsFiniteSet(U) /\ V \in SUBSET U
    BY <1>1, FS_Union
  <2>2. QED
    BY <2>1, FS_Subset
<1>3. /\ Feed!Trim(U) = {t \in U : Rank(U, t) < CandleCap}
      /\ Feed!Trim(V) = {t \in V : Rank(V, t) < CandleCap}
  BY <1>2, TrimIsRank
<1>4. CandleCap \in Nat
  BY FeedAssumption
<1>5. ASSUME NEW t \in U, Rank(U, t) < CandleCap PROVE t \in V /\ Rank(V, t) < CandleCap
  <2>1. Rank(A, t) <= Rank(U, t) /\ Rank(V, t) <= Rank(U, t)
    BY <1>2, RankMonotone
  <2>2. Rank(A, t) \in Nat /\ Rank(U, t) \in Nat /\ Rank(V, t) \in Nat
    BY <1>2, RankType
  <2>3. Rank(A, t) < CandleCap /\ Rank(V, t) < CandleCap
    BY <1>4, <1>5, <2>1, <2>2
  <2>4. QED
    BY <1>1, <2>3
<1>6. ASSUME NEW t \in V, Rank(V, t) < CandleCap PROVE Rank(U, t) < CandleCap
  <2>1. SUFFICES ASSUME ~(Rank(U, t) < CandleCap) PROVE FALSE
    OBVIOUS
  <2> DEFINE G == Above(U, t) \ V
  <2>2. G # {}
    <3>1. SUFFICES ASSUME G = {} PROVE FALSE
      OBVIOUS
    <3>2. Above(U, t) = Above(V, t)
      BY <1>2, <3>1 DEF Above
    <3>3. QED
      BY <1>6, <2>1, <3>2 DEF Rank
  <2>3. G \subseteq Nat /\ \A x \in G : x <= n
    BY <1>2 DEF Above
  <2>4. PICK u \in G : \A y \in G : y <= u
    BY <2>2, <2>3, GreatestNat
  <2>5. u \in A /\ u \in Nat /\ t \in Nat /\ u > t /\ u \notin Feed!Trim(A)
    BY <1>2, <2>3, <2>4 DEF Above
  <2>6. ~(Rank(A, u) < CandleCap)
    BY <1>1, <2>5
  <2>7. Above(A, u) \in SUBSET Above(V, t)
    <3>1. SUFFICES ASSUME NEW w \in A, w > u PROVE w \in V /\ w > t
      BY DEF Above
    <3>2. w \in Nat /\ w > t
      BY <2>5, <3>1
    <3>3. w \notin G
      BY <2>4, <2>5, <3>1, <3>2
    <3>4. QED
      BY <3>2, <3>3 DEF Above
  <2>8. Rank(A, u) <= Rank(V, t)
    BY <1>2, <2>7, RankType, FS_Subset DEF Rank
  <2>9. Rank(A, u) \in Nat /\ Rank(V, t) \in Nat
    BY <1>2, RankType
  <2>10. QED
    BY <1>4, <1>6, <2>6, <2>8, <2>9
<1>7. QED
  BY <1>2, <1>3, <1>5, <1>6

\* A finite set of naturals has an increasing list.
LEMMA IncreasingList ==
  ASSUME NEW T, T \subseteq Nat, IsFiniteSet(T)
  PROVE  \E list \in [1..Cardinality(T) -> T] :
           \A i, j \in DOMAIN list : i < j => list[i] < list[j]
<1> DEFINE n == Cardinality(T)
           Below(t) == {u \in T : u <= t}
           pos == [t \in T |-> Cardinality(Below(t))]
<1>1. n \in Nat
  BY FS_CardinalityType
<1>2. ASSUME NEW t \in T
      PROVE  IsFiniteSet(Below(t)) /\ pos[t] \in 1..n
  <2>1. Below(t) \in SUBSET T
    OBVIOUS
  <2>2. IsFiniteSet(Below(t)) /\ Cardinality(Below(t)) <= n
    BY <2>1, FS_Subset
  <2>3. Cardinality(Below(t)) \in Nat /\ Cardinality(Below(t)) # 0
    <3>1. t \in Below(t)
      OBVIOUS
    <3>2. QED
      BY <2>2, <3>1, FS_CardinalityType, FS_EmptySet
  <2>4. QED
    BY <1>1, <2>2, <2>3
<1>3. ASSUME NEW t \in T, NEW u \in T, t < u PROVE pos[t] < pos[u]
  <2>1. Below(t) \in SUBSET Below(u)
    <3>1. t \in Nat /\ u \in Nat /\ \A w \in T : w \in Nat
      OBVIOUS
    <3>2. \A w \in T : w <= t => w <= u
      BY <1>3, <3>1
    <3>3. QED
      BY <3>2
  <2>2. Below(t) # Below(u)
    <3>1. u \in Below(u) /\ u \notin Below(t)
      BY <1>3
    <3>2. QED
      BY <3>1
  <2>3. pos[t] <= pos[u] /\ pos[t] # pos[u]
    BY <1>2, <2>1, <2>2, FS_Subset
  <2>4. QED
    BY <1>2, <2>3
<1>4. pos \in [T -> 1..n]
  BY <1>2
<1>5. \A t, u \in T : pos[t] = pos[u] => t = u
  <2>1. SUFFICES ASSUME NEW t \in T, NEW u \in T, pos[t] = pos[u], t # u PROVE FALSE
    OBVIOUS
  <2>2. t < u \/ u < t
    BY <2>1
  <2>3. pos[t] \in Int /\ pos[u] \in Int
    BY <1>1, <1>2
  <2>4. QED
    BY <1>3, <2>1, <2>2, <2>3
<1>6. pos \in Injection(T, 1..n)
  BY <1>4, <1>5 DEF Injection, IsInjective
<1>7. IsFiniteSet(1..n) /\ Cardinality(1..n) = n
  BY <1>1, FS_Interval
<1>8. pos \in Surjection(T, 1..n)
  BY <1>6, <1>7, FS_Injection
<1>9. \A i \in 1..n : \E t \in T : pos[t] = i
  BY <1>8 DEF Surjection
<1> DEFINE f == [i \in 1..n |-> CHOOSE t \in T : pos[t] = i]
<1>10. \A i \in 1..n : f[i] \in T /\ pos[f[i]] = i
  BY <1>9
<1>11. f \in [1..n -> T]
  BY <1>10
<1> HIDE DEF f, pos
<1>12. ASSUME NEW i \in 1..n, NEW j \in 1..n, i < j PROVE f[i] < f[j]
  <2>1. f[i] \in T /\ f[j] \in T /\ pos[f[i]] = i /\ pos[f[j]] = j
    BY <1>10
  <2>2. f[i] \in Nat /\ f[j] \in Nat /\ i \in Nat /\ j \in Nat
    <3>1. i \in Nat /\ j \in Nat
      BY <1>1
    <3>2. f[i] \in Nat /\ f[j] \in Nat
      BY <2>1 
    <3>3. QED
      BY <3>1, <3>2
  <2>3. f[i] # f[j]
    BY <2>1, <2>2, <1>12
  <2>4. ~(f[j] < f[i])
    BY <1>3, <1>12, <2>1, <2>2
  <2>5. QED
    BY <2>2, <2>3, <2>4
<1>13. QED
  BY <1>11, <1>12

\* The list of the newest is a list of at most CandleCap.
LEMMA NewestFacts ==
  ASSUME NEW S, S \subseteq Nat, IsFiniteSet(S)
  PROVE  /\ Feed!Newest(S) \in Seq(S)
         /\ Len(Feed!Newest(S)) <= CandleCap
<1> DEFINE T == Feed!Trim(S)
           n == Cardinality(T)
<1>1. T \subseteq S /\ IsFiniteSet(T) /\ n \in Nat /\ n <= CandleCap
  BY TrimBound
<1>2. T \subseteq Nat
  BY <1>1
<1>3. \E list \in [1..n -> T] : \A i, j \in DOMAIN list : i < j => list[i] < list[j]
  BY <1>1, <1>2, IncreasingList
<1>4. Feed!Newest(S) \in [1..n -> T]
  BY <1>3, FeedCardinality DEF Feed!Newest
<1>5. QED
  BY <1>1, <1>4

\* It depends on the trimmed set alone.
LEMMA NewestOfTrim ==
  ASSUME NEW R, NEW S, Feed!Trim(R) = Feed!Trim(S)
  PROVE  Feed!Newest(R) = Feed!Newest(S)
BY DEF Feed!Newest

\* Nothing received, nothing shown.
LEMMA NewestOfNone == Feed!Trim({}) = {} /\ Feed!Newest({}) = <<>>
<1>1. Cardinality({}) = 0 /\ CandleCap \in Nat
  BY FS_EmptySet, FeedAssumption
<1>2. Feed!Trim({}) = {}
  BY <1>1, FeedCardinality DEF Feed!Trim
<1>3. Len(Feed!Newest({})) \in Nat /\ Feed!Newest({}) \in Seq({})
  BY FS_EmptySet, NewestFacts
<1>4. QED
  BY <1>2, <1>3

-----------------------------------------------------------------------------
(***************************************************************************)
(* The feed of useExchangeData.                                            *)
(***************************************************************************)
Books == [Levels -> Quantities]
FullTypes == {"snapshot", "sync_state"}
MarketMessages ==
  [type : {"candles"} \cup FullTypes, seq : 0..MaxSeq, ts : 0..MaxSeq, cs : SUBSET (1..MaxSeq),
   delta : (Levels \X Quantities) \cup {<<>>}, book : Books, open : SUBSET Cids]
OrderMessages ==
  [type : {"fill", "fills_batch", "order_cancelled"}, cid : Cids, status : Feed!OrderStates]
Messages == MarketMessages \cup OrderMessages
SyncRequests ==
  {[type |-> "sync_state", ts |-> IF q = {} THEN 0 ELSE Feed!Max(q)] : q \in SUBSET (1..MaxSeq)}
OrderRequests == [type : {"order", "cancel_order"}, cid : Cids]
Requests == SyncRequests \cup OrderRequests
Promises == {"none", "untimed", "timed", "order", "null"}

FeedTypes ==
  /\ srvSeq \in 0..MaxSeq /\ srvBook \in Books /\ srvOrder \in [Cids -> Feed!OrderStates]
  /\ down \in Seq(Messages) /\ up \in Seq(Requests) /\ outQueue \in Seq(OrderRequests)
  /\ isUp \in BOOLEAN /\ throttled \in BOOLEAN
  /\ lastSeq \in 0..MaxSeq /\ at \in -1..MaxSeq
  /\ book \in Books \cup {Feed!NoBook}
  /\ openOrders \in SUBSET Cids
  /\ seen \in SUBSET (1..MaxSeq)
  /\ fills \in Seq(Cids) /\ Len(fills) <= FillCap
  /\ promise \in [Cids -> Promises]

\* The map and the list hold the newest of all candles received.
CandlesKept == candleMap = Feed!Trim(seen) /\ candles = Feed!Newest(seen)

\* Nothing travels while the socket is down, nothing waits while it is up, and the
\* timers of what waits have not been started.
QueueWaits ==
  /\ ~isUp => down = <<>> /\ up = <<>>
  /\ isUp => outQueue = <<>>
  /\ \A i \in 1..Len(outQueue) : promise[outQueue[i].cid] = "untimed"

\* Message m reports the books h of the first n broadcasts.
Reports(m, h, n) ==
  /\ m.type = "candles" =>
       /\ m.seq \in 1..n /\ m.delta \in Levels \X Quantities
       /\ m.book = h[m.seq]
       /\ m.book = [h[m.seq - 1] EXCEPT ![m.delta[1]] = m.delta[2]]
  /\ m.type \in FullTypes => m.ts \in 0..n /\ m.book = h[m.ts]

\* There are books, one per broadcast, that the server's, all messages and the
\* undisturbed page come from.
BooksFollow(h) ==
  /\ h \in [0..MaxSeq -> Books] /\ h[srvSeq] = srvBook
  /\ \A i \in 1..Len(down) : Reports(down[i], h, srvSeq)
  /\ at >= 0 => at <= srvSeq /\ book = truth /\ truth = h[at]

\* Whether message m speaks about order c, and says that it rests.
Speaks(m, c) == m.type \in FullTypes \/ (m \in OrderMessages /\ m.cid = c)
Says(m, c) == IF m.type \in FullTypes THEN c \in m.open
              ELSE m.type # "order_cancelled" /\ m.status = "PENDING"

\* A page that shows c (or not) and has still to receive d will then show p.
Tells(d, c, shows, p) ==
  /\ (\A i \in 1..Len(d) : ~Speaks(d[i], c)) => (shows <=> p)
  /\ \A i \in 1..Len(d) :
       /\ Speaks(d[i], c)
       /\ \A j \in 1..Len(d) : i < j => ~Speaks(d[j], c)
       => (Says(d[i], c) <=> p)

OrdersTold == isUp => \A c \in Cids : Tells(down, c, c \in openOrders, srvOrder[c] = "PENDING")

FeedInv ==
  /\ FeedTypes
  /\ CandlesKept
  /\ QueueWaits
  /\ \E h \in [0..MaxSeq -> Books] : BooksFollow(h)
  /\ OrdersTold

-----------------------------------------------------------------------------
\* The candles of the server are finitely many.
LEMMA SeenFinite ==
  ASSUME NEW S \in SUBSET (1..MaxSeq)
  PROVE  S \subseteq Nat /\ IsFiniteSet(S) /\ \A x \in S : x <= MaxSeq
<1>1. MaxSeq \in Nat
  BY FeedAssumption
<1>2. S \in SUBSET Nat /\ \A x \in S : x <= MaxSeq
  BY <1>1
<1>3. QED
  BY <1>1, <1>2, FS_BoundedSetOfNaturals

\* A message about c, now last, decides what will be shown.
LEMMA TellsSpoken ==
  ASSUME NEW M, NEW d \in Seq(M), NEW m \in M, NEW c, NEW shows, NEW p,
         Speaks(m, c), Says(m, c) <=> p
  PROVE  Tells(Append(d, m), c, shows, p)
<1>1. Len(Append(d, m)) = Len(d) + 1 /\ Append(d, m)[Len(d) + 1] = m /\ Len(d) \in Nat
  OBVIOUS
<1>2. \A i \in 1..Len(d) + 1 : i # Len(d) + 1 => i < Len(d) + 1
  BY <1>1
<1>3. Len(d) + 1 \in 1..Len(d) + 1
  BY <1>1
<1>4. QED
  BY <1>1, <1>2, <1>3 DEF Tells

\* A message about something else decides nothing.
LEMMA TellsSilent ==
  ASSUME NEW M, NEW d \in Seq(M), NEW m \in M, NEW c, NEW shows, NEW p,
         ~Speaks(m, c), Tells(d, c, shows, p)
  PROVE  Tells(Append(d, m), c, shows, p)
<1>1. /\ Len(Append(d, m)) = Len(d) + 1 /\ Append(d, m)[Len(d) + 1] = m /\ Len(d) \in Nat
      /\ \A i \in 1..Len(d) : Append(d, m)[i] = d[i]
  OBVIOUS
<1>2. \A i \in 1..Len(d) + 1 : i = Len(d) + 1 \/ i \in 1..Len(d)
  BY <1>1
<1>3. \A i \in 1..Len(d) : i \in 1..Len(d) + 1
  BY <1>1
<1>4. QED
  BY <1>1, <1>2, <1>3 DEF Tells

\* Delivering a message applies what it says.
LEMMA TellsTail ==
  ASSUME NEW M, NEW d \in Seq(M), d # <<>>, NEW c, NEW shows, NEW next, NEW p,
         Tells(d, c, shows, p),
         IF Speaks(Head(d), c) THEN next <=> Says(Head(d), c) ELSE next <=> shows
  PROVE  Tells(Tail(d), c, next, p)
<1>1. /\ Head(d) = d[1] /\ 1 \in 1..Len(d)
      /\ Len(d) \in Nat /\ Len(Tail(d)) \in Nat /\ Len(Tail(d)) = Len(d) - 1
      /\ \A i \in 1..Len(Tail(d)) : i + 1 \in 1..Len(d) /\ Tail(d)[i] = d[i + 1]
  BY TailFacts
<1>2. \A j \in 1..Len(d) : j # 1 => j - 1 \in 1..Len(Tail(d)) /\ Tail(d)[j - 1] = d[j]
  BY <1>1
<1>3. ASSUME \A i \in 1..Len(Tail(d)) : ~Speaks(Tail(d)[i], c) PROVE next <=> p
  <2>1. \A j \in 1..Len(d) : j # 1 => ~Speaks(d[j], c)
    BY <1>2, <1>3
  <2>2. \A j \in 1..Len(d) : 1 < j => ~Speaks(d[j], c)
    BY <2>1, <1>1
  <2>3. CASE Speaks(Head(d), c)
    BY <1>1, <2>2, <2>3 DEF Tells
  <2>4. CASE ~Speaks(Head(d), c)
    BY <1>1, <2>1, <2>4 DEF Tells
  <2>5. QED
    BY <2>3, <2>4
<1>4. ASSUME NEW i \in 1..Len(Tail(d)), Speaks(Tail(d)[i], c),
             \A j \in 1..Len(Tail(d)) : i < j => ~Speaks(Tail(d)[j], c)
      PROVE  Says(Tail(d)[i], c) <=> p
  <2>1. i \in Nat /\ i >= 1 /\ i + 1 \in 1..Len(d) /\ Tail(d)[i] = d[i + 1]
    BY <1>1
  <2>2. ASSUME NEW j \in 1..Len(d), i + 1 < j PROVE ~Speaks(d[j], c)
    <3>1. j # 1 /\ i < j - 1
      BY <2>1, <2>2, <1>1
    <3>2. QED
      BY <1>2, <1>4, <3>1
  <2>3. QED
    BY <1>4, <2>1, <2>2 DEF Tells
<1>5. QED
  BY <1>3, <1>4 DEF Tells

\* Messages are of one kind or the other.
LEMMA MessageKinds ==
  ASSUME NEW m \in Messages
  PROVE  /\ m.type \in {"candles"} \cup FullTypes <=> m \in MarketMessages
         /\ m \notin MarketMessages => m \in OrderMessages
         /\ m \in OrderMessages => m \notin MarketMessages /\ m.type \notin {"candles"} \cup FullTypes
BY DEF Messages, MarketMessages, OrderMessages, FullTypes

\* What the invariant says about the page.
LEMMA FeedSound == FeedInv => Feed!TypeOK /\ Feed!BookFollows /\ Feed!OpenOrdersAgree
                                 /\ Feed!CandlesAreNewest /\ Feed!NoNullWhileQueued
<1> SUFFICES ASSUME FeedInv PROVE Feed!TypeOK /\ Feed!BookFollows /\ Feed!OpenOrdersAgree
                                 /\ Feed!CandlesAreNewest /\ Feed!NoNullWhileQueued
  OBVIOUS
<1> USE DEF FeedInv
<1>1. seen \subseteq Nat /\ IsFiniteSet(seen) /\ MaxSeq \in Nat
  BY SeenFinite, FeedAssumption DEF FeedTypes
<1>2. Feed!TypeOK
  <2>1. candleMap \subseteq seen /\ Len(candles) <= CandleCap
    BY <1>1, TrimBound, NewestFacts DEF CandlesKept
  <2>2. candleMap \subseteq 0..MaxSeq
    BY <1>1, <2>1 DEF FeedTypes
  <2>3. QED
    BY <2>1, <2>2 DEF FeedTypes, Feed!TypeOK, Promises, Books
<1>3. Feed!BookFollows
  BY DEF Feed!BookFollows, BooksFollow
<1>4. Feed!OpenOrdersAgree
  <2>1. SUFFICES ASSUME isUp, down = <<>> PROVE openOrders = Feed!Pending
    BY DEF Feed!OpenOrdersAgree
  <2>2. \A c \in Cids : c \in openOrders <=> srvOrder[c] = "PENDING"
    BY <2>1 DEF OrdersTold, Tells
  <2>3. QED
    BY <2>2 DEF Feed!Pending, FeedTypes
<1>5. Feed!CandlesAreNewest
  BY DEF CandlesKept, Feed!CandlesAreNewest
<1>6. Feed!NoNullWhileQueued
  BY DEF QueueWaits, Feed!NoNullWhileQueued
<1>7. QED
  BY <1>2, <1>3, <1>4, <1>5, <1>6

\* It holds at the start.
LEMMA FeedInitial == Feed!Init => FeedInv
<1> SUFFICES ASSUME Feed!Init PROVE FeedInv
  OBVIOUS
<1>1. MaxSeq \in Nat /\ FillCap \in Nat /\ 0 \in Quantities
  BY FeedAssumption
<1>2. FeedTypes
  <2>1. srvBook \in Books /\ srvOrder \in [Cids -> Feed!OrderStates] /\ promise \in [Cids -> Promises]
    BY <1>1 DEF Feed!Init, Books, Feed!OrderStates, Promises
  <2>2. srvSeq \in 0..MaxSeq /\ lastSeq \in 0..MaxSeq /\ at \in -1..MaxSeq /\ Len(fills) <= FillCap
    BY <1>1 DEF Feed!Init
  <2>3. /\ down \in Seq(Messages) /\ up \in Seq(Requests) /\ outQueue \in Seq(OrderRequests)
        /\ fills \in Seq(Cids)
    BY DEF Feed!Init
  <2>4. QED
    BY <2>1, <2>2, <2>3 DEF Feed!Init, FeedTypes
<1>3. CandlesKept
  BY NewestOfNone DEF CandlesKept, Feed!Init
<1>4. QueueWaits
  BY DEF QueueWaits, Feed!Init
<1>5. \E h \in [0..MaxSeq -> Books] : BooksFollow(h)
  <2> DEFINE h == [n \in 0..MaxSeq |-> [l \in Levels |-> 0]]
  <2>1. h \in [0..MaxSeq -> Books] /\ h[0] = [l \in Levels |-> 0]
    BY <1>1 DEF Books
  <2>2. BooksFollow(h)
    BY <2>1 DEF BooksFollow, Feed!Init
  <2>3. QED
    BY <2>1, <2>2
<1>6. OrdersTold
  BY DEF OrdersTold, Feed!Init
<1>7. QED
  BY <1>2, <1>3, <1>4, <1>5, <1>6 DEF FeedInv

-----------------------------------------------------------------------------
\* One book more does not change what earlier messages report.
LEMMA ReportsLater ==
  ASSUME NEW n \in 0..MaxSeq, n < MaxSeq, NEW h \in [0..MaxSeq -> Books], NEW b \in Books,
         NEW m, Reports(m, h, n)
  PROVE  Reports(m, [h EXCEPT ![n + 1] = b], n + 1)
<1>0. MaxSeq \in Nat
  BY FeedAssumption
<1> DEFINE g == [h EXCEPT ![n + 1] = b]
<1>1. \A k \in 0..n : g[k] = h[k]
  BY <1>0
<1>2. 1..n \subseteq 1..n + 1 /\ 0..n \subseteq 0..n + 1 /\ 1..n \subseteq 0..n
      /\ \A k \in 1..n : k - 1 \in 0..n
  BY <1>0
<1> HIDE DEF g
<1>3. QED
  BY <1>1, <1>2 DEF Reports

\* The server's book changes at one level: broadcast n + 1.
LEMMA NextBook ==
  ASSUME FeedInv, NEW h \in [0..MaxSeq -> Books], BooksFollow(h), srvSeq < MaxSeq,
         NEW l \in Levels, NEW q \in Quantities
  PROVE  /\ srvSeq + 1 \in 1..MaxSeq /\ srvSeq \in 0..srvSeq + 1
         /\ [srvBook EXCEPT ![l] = q] \in Books
         /\ \E g \in [0..MaxSeq -> Books] :
              /\ g[srvSeq + 1] = [srvBook EXCEPT ![l] = q] /\ g[srvSeq] = srvBook
              /\ \A i \in 1..Len(down) : Reports(down[i], g, srvSeq + 1)
              /\ at >= 0 => at <= srvSeq + 1 /\ book = truth /\ truth = g[at]
<1> DEFINE b == [srvBook EXCEPT ![l] = q]
           g == [h EXCEPT ![srvSeq + 1] = b]
<1>1. /\ MaxSeq \in Nat /\ srvSeq \in 0..MaxSeq /\ srvBook \in Books /\ at \in -1..MaxSeq
  BY FeedAssumption DEF FeedInv, FeedTypes
<1>2. b \in Books
  BY <1>1 DEF Books
<1>3. srvSeq + 1 \in 1..MaxSeq /\ srvSeq + 1 \in 0..MaxSeq /\ srvSeq \in 0..srvSeq + 1 /\ srvSeq # srvSeq + 1
  BY <1>1
<1>4. g \in [0..MaxSeq -> Books] /\ g[srvSeq + 1] = b /\ g[srvSeq] = srvBook
  BY <1>1, <1>2, <1>3 DEF BooksFollow
<1> HIDE DEF b
<1>5. \A i \in 1..Len(down) : Reports(down[i], g, srvSeq + 1)
  BY <1>1, <1>2, ReportsLater DEF BooksFollow
<1>6. ASSUME at >= 0 PROVE at <= srvSeq + 1 /\ book = truth /\ truth = g[at]
  <2>1. at <= srvSeq /\ book = truth /\ truth = h[at]
    BY <1>6 DEF BooksFollow
  <2>2. at \in 0..MaxSeq /\ at # srvSeq + 1 /\ at <= srvSeq + 1
    BY <1>1, <1>6, <2>1
  <2>3. QED
    BY <2>1, <2>2
<1> HIDE DEF g
<1>7. QED
  BY <1>2, <1>3, <1>4, <1>5, <1>6 DEF b

\* A broadcast extends the books by one and reports it.
LEMMA FeedBroadcast == FeedInv /\ Feed!Broadcast => FeedInv'
<1> SUFFICES ASSUME FeedInv, Feed!Broadcast PROVE FeedInv'
  OBVIOUS
<1>0. UNCHANGED <<srvOrder, up, isUp, outQueue, lastSeq, throttled, book, openOrders, candleMap,
                  candles, fills, promise, truth, at, seen, drops>>
  BY DEF Feed!Broadcast, Feed!view, Feed!hist
<1>1. PICK h \in [0..MaxSeq -> Books] : BooksFollow(h)
  BY DEF FeedInv
<1>2. PICK l \in Levels, q \in Quantities :
        /\ srvBook' = [srvBook EXCEPT ![l] = q]
        /\ down' = IF isUp THEN Append(down, Feed!Candles(<<l, q>>)) ELSE down
  BY DEF Feed!Broadcast
<1>3. srvSeq < MaxSeq /\ srvSeq' = srvSeq + 1
  BY DEF Feed!Broadcast
<1>4. /\ srvSeq + 1 \in 1..MaxSeq /\ srvSeq \in 0..srvSeq + 1 /\ srvBook' \in Books
      /\ \E g \in [0..MaxSeq -> Books] :
           /\ g[srvSeq + 1] = srvBook' /\ g[srvSeq] = srvBook
           /\ \A i \in 1..Len(down) : Reports(down[i], g, srvSeq + 1)
           /\ at >= 0 => at <= srvSeq + 1 /\ book = truth /\ truth = g[at]
  BY <1>1, <1>2, <1>3, NextBook
<1>5. PICK g \in [0..MaxSeq -> Books] :
        /\ g[srvSeq + 1] = srvBook' /\ g[srvSeq] = srvBook
        /\ \A i \in 1..Len(down) : Reports(down[i], g, srvSeq + 1)
        /\ at >= 0 => at <= srvSeq + 1 /\ book = truth /\ truth = g[at]
  BY <1>4
<1>6. PICK m : m = Feed!Candles(<<l, q>>)
  OBVIOUS
<1>7. m = [type |-> "candles", seq |-> srvSeq + 1, ts |-> srvSeq + 1,
           cs |-> {srvSeq + 1}, delta |-> <<l, q>>, book |-> srvBook', open |-> {}]
  BY <1>6 DEF Feed!Candles
<1>8. MaxSeq \in Nat /\ srvSeq \in 0..MaxSeq /\ down \in Seq(Messages)
  BY FeedAssumption DEF FeedInv, FeedTypes
<1>9. m \in Messages
  <2>1. srvSeq + 1 \in 0..MaxSeq /\ {srvSeq + 1} \in SUBSET (1..MaxSeq)
    BY <1>4, <1>5
  <2>2. QED
    BY <1>4, <1>5, <1>7, <2>1 DEF Messages, MarketMessages
<1>10. Reports(m, g, srvSeq + 1)
  <2>1. m.seq \in 1..srvSeq + 1 /\ m.seq - 1 = srvSeq
    BY <1>7, <1>8
  <2>2. m.delta \in Levels \X Quantities /\ m.delta[1] = l /\ m.delta[2] = q
    BY <1>7
  <2>3. m.book = srvBook' /\ m.seq = srvSeq + 1 /\ m.type = "candles"
    BY <1>7
  <2>4. QED
    BY <1>2, <1>4, <1>5, <2>1, <2>2, <2>3 DEF Reports, FullTypes
<1>11. \A c : ~Speaks(m, c)
  BY <1>7 DEF Speaks, FullTypes, OrderMessages
<1>12. down' = IF isUp THEN Append(down, m) ELSE down
  BY <1>2, <1>6
<1>13. down' \in Seq(Messages) /\ \A i \in 1..Len(down') : Reports(down'[i], g, srvSeq + 1)
  BY <1>4, <1>5, <1>8, <1>9, <1>10, <1>12, AppendFacts
<1>14. FeedTypes'
  BY <1>0, <1>3, <1>4, <1>5, <1>13 DEF FeedInv, FeedTypes, Feed!NoBook
<1>15. CandlesKept' /\ QueueWaits'
  <2>1. ~isUp => down' = <<>>
    BY <1>12 DEF FeedInv, QueueWaits
  <2>2. QED
    BY <1>0, <2>1 DEF FeedInv, CandlesKept, QueueWaits, Feed!Trim, Feed!Newest
<1>16. BooksFollow(g)'
  BY <1>0, <1>3, <1>4, <1>5, <1>13 DEF BooksFollow
<1>17. OrdersTold'
  <2>1. ASSUME isUp, NEW c \in Cids
        PROVE  Tells(down', c, c \in openOrders, srvOrder[c] = "PENDING")
    BY <1>8, <1>9, <1>11, <1>12, <2>1, TellsSilent DEF FeedInv, OrdersTold
  <2>2. QED
    BY <1>0, <2>1 DEF OrdersTold
<1>18. QED
  BY <1>4, <1>5, <1>14, <1>15, <1>16, <1>17 DEF FeedInv

\* A lost one extends the books only.
LEMMA FeedLostBroadcast == FeedInv /\ Feed!LostBroadcast => FeedInv'
<1> SUFFICES ASSUME FeedInv, Feed!LostBroadcast PROVE FeedInv'
  OBVIOUS
<1>0. UNCHANGED <<srvOrder, down, up, isUp, outQueue, lastSeq, throttled, book, openOrders, candleMap,
                  candles, fills, promise, truth, at, seen>>
  BY DEF Feed!LostBroadcast, Feed!view, Feed!link
<1>1. PICK h \in [0..MaxSeq -> Books] : BooksFollow(h)
  BY DEF FeedInv
<1>2. PICK l \in Levels, q \in Quantities : srvBook' = [srvBook EXCEPT ![l] = q]
  BY DEF Feed!LostBroadcast
<1>3. srvSeq < MaxSeq /\ srvSeq' = srvSeq + 1
  BY DEF Feed!LostBroadcast
<1>4. /\ srvSeq + 1 \in 1..MaxSeq /\ srvSeq \in 0..srvSeq + 1 /\ srvBook' \in Books
      /\ \E g \in [0..MaxSeq -> Books] :
           /\ g[srvSeq + 1] = srvBook' /\ g[srvSeq] = srvBook
           /\ \A i \in 1..Len(down) : Reports(down[i], g, srvSeq + 1)
           /\ at >= 0 => at <= srvSeq + 1 /\ book = truth /\ truth = g[at]
  BY <1>1, <1>2, <1>3, NextBook
<1>5. PICK g \in [0..MaxSeq -> Books] :
        /\ g[srvSeq + 1] = srvBook' /\ g[srvSeq] = srvBook
        /\ \A i \in 1..Len(down) : Reports(down[i], g, srvSeq + 1)
        /\ at >= 0 => at <= srvSeq + 1 /\ book = truth /\ truth = g[at]
  BY <1>4
<1>6. FeedTypes'
  BY <1>0, <1>3, <1>4, <1>5 DEF FeedInv, FeedTypes, Feed!NoBook
<1>7. CandlesKept' /\ QueueWaits' /\ OrdersTold'
  BY <1>0 DEF FeedInv, CandlesKept, QueueWaits, OrdersTold, Feed!Trim, Feed!Newest
<1>8. BooksFollow(g)'
  BY <1>0, <1>3, <1>4, <1>5 DEF BooksFollow
<1>9. QED
  BY <1>4, <1>5, <1>6, <1>7, <1>8 DEF FeedInv

-----------------------------------------------------------------------------
\* A full state reports the server's book and speaks about every order.
LEMMA FullFacts ==
  ASSUME FeedInv, NEW type \in FullTypes, NEW cs \in SUBSET (1..MaxSeq)
  PROVE  /\ Feed!Full(type, cs) \in MarketMessages /\ Feed!Full(type, cs) \in Messages
         /\ \A h : BooksFollow(h) => Reports(Feed!Full(type, cs), h, srvSeq)
         /\ \A c \in Cids : /\ Speaks(Feed!Full(type, cs), c)
                            /\ Says(Feed!Full(type, cs), c) <=> srvOrder[c] = "PENDING"
<1>1. PICK m : m = Feed!Full(type, cs)
  OBVIOUS
<1>2. m = [type |-> type, seq |-> 0, ts |-> srvSeq, cs |-> cs, delta |-> <<>>,
           book |-> srvBook, open |-> Feed!Pending]
  BY <1>1 DEF Feed!Full
<1>3. /\ 0 \in 0..MaxSeq /\ srvSeq \in 0..MaxSeq /\ srvSeq \in 0..srvSeq /\ srvBook \in Books
      /\ Feed!Pending \in SUBSET Cids
  BY FeedAssumption DEF FeedInv, FeedTypes, Feed!Pending
<1>4. m \in MarketMessages
  BY <1>2, <1>3 DEF MarketMessages
<1>5. m.type = type /\ m.ts = srvSeq /\ m.book = srvBook /\ m.open = Feed!Pending
  BY <1>2
<1>6. type # "candles"
  BY DEF FullTypes
<1>7. \A h : BooksFollow(h) => Reports(m, h, srvSeq)
  BY <1>3, <1>5, <1>6 DEF Reports, BooksFollow
<1>8. \A c \in Cids : Speaks(m, c) /\ (Says(m, c) <=> srvOrder[c] = "PENDING")
  BY <1>5 DEF Speaks, Says, Feed!Pending
<1>9. QED
  BY <1>1, <1>4, <1>7, <1>8 DEF Messages

\* An order message reports no book and speaks about its own order.
LEMMA OrderFacts ==
  ASSUME NEW type \in {"fill", "fills_batch", "order_cancelled"}, NEW c \in Cids,
         NEW st \in Feed!OrderStates, type = "order_cancelled" => st # "PENDING"
  PROVE  /\ Feed!Order(type, c, st) \in OrderMessages /\ Feed!Order(type, c, st) \in Messages
         /\ \A h, n : Reports(Feed!Order(type, c, st), h, n)
         /\ \A d : Speaks(Feed!Order(type, c, st), d) <=> d = c
         /\ \A d : Says(Feed!Order(type, c, st), d) <=> st = "PENDING"
<1>1. PICK m : m = Feed!Order(type, c, st)
  OBVIOUS
<1>2. m = [type |-> type, cid |-> c, status |-> st]
  BY <1>1 DEF Feed!Order
<1>3. m \in OrderMessages /\ m.type = type /\ m.cid = c /\ m.status = st
  BY <1>2 DEF OrderMessages
<1>4. m.type # "candles" /\ m.type \notin FullTypes
  BY <1>3 DEF FullTypes
<1>5. QED
  BY <1>1, <1>3, <1>4 DEF Messages, Reports, Speaks, Says

\* One more message of the server, whose orders are then now.
LEMMA ServerSends ==
  ASSUME FeedInv, NEW m \in Messages, NEW now \in [Cids -> Feed!OrderStates],
         down' = Append(down, m), isUp, srvOrder' = now,
         UNCHANGED <<srvSeq, srvBook, isUp, outQueue, lastSeq, throttled, book, openOrders,
                     candleMap, candles, fills, promise, truth, at, seen>>,
         up' \in Seq(Requests),
         \A h : BooksFollow(h) => Reports(m, h, srvSeq),
         \A c \in Cids : IF Speaks(m, c) THEN Says(m, c) <=> now[c] = "PENDING"
                         ELSE now[c] = srvOrder[c]
  PROVE  FeedInv'
<1>1. down \in Seq(Messages)
  BY DEF FeedInv, FeedTypes
<1>2. down' \in Seq(Messages)
  BY <1>1, AppendFacts
<1>3. FeedTypes'
  BY <1>2 DEF FeedInv, FeedTypes, Feed!NoBook
<1>4. CandlesKept' /\ QueueWaits'
  BY DEF FeedInv, CandlesKept, QueueWaits, Feed!Trim, Feed!Newest
<1>5. \E h \in [0..MaxSeq -> Books] : BooksFollow(h)'
  <2>1. PICK h \in [0..MaxSeq -> Books] : BooksFollow(h)
    BY DEF FeedInv
  <2>2. \A i \in 1..Len(down') : Reports(down'[i], h, srvSeq)
    <3>1. Reports(m, h, srvSeq)
      BY <2>1
    <3>2. \A i \in 1..Len(down) : Reports(down[i], h, srvSeq)
      BY <2>1 DEF BooksFollow
    <3>3. /\ Len(down') = Len(down) + 1 /\ down'[Len(down) + 1] = m
          /\ \A i \in 1..Len(down) : down'[i] = down[i]
          /\ \A i \in 1..Len(down) + 1 : i = Len(down) + 1 \/ i \in 1..Len(down)
      BY <1>1, AppendFacts
    <3>4. QED
      BY <3>1, <3>2, <3>3
  <2>3. BooksFollow(h)'
    BY <2>1, <2>2 DEF BooksFollow
  <2>4. QED
    BY <2>3
<1>6. OrdersTold'
  <2>1. ASSUME NEW c \in Cids
        PROVE  Tells(down', c, c \in openOrders, now[c] = "PENDING")
    <3>1. Tells(down, c, c \in openOrders, srvOrder[c] = "PENDING")
      BY DEF FeedInv, OrdersTold
    <3>2. CASE Speaks(m, c)
      BY <1>1, <3>2, TellsSpoken
    <3>3. CASE ~Speaks(m, c)
      BY <1>1, <3>1, <3>3, TellsSilent
    <3>4. QED
      BY <3>2, <3>3
  <2>2. QED
    BY <2>1 DEF OrdersTold
<1>7. QED
  BY <1>3, <1>4, <1>5, <1>6 DEF FeedInv

\* The server answers a sync, an order or a cancellation.
LEMMA FeedServerHandles == FeedInv /\ Feed!ServerHandles => FeedInv'
<1> SUFFICES ASSUME FeedInv, Feed!ServerHandles PROVE FeedInv'
  OBVIOUS
<1>0. UNCHANGED <<srvSeq, srvBook, isUp, outQueue, lastSeq, throttled, book, openOrders,
                  candleMap, candles, fills, promise, truth, at, seen>>
  BY DEF Feed!ServerHandles, Feed!view, Feed!hist
<1>1. up # <<>> /\ up' = Tail(up) /\ up \in Seq(Requests)
  BY DEF FeedInv, FeedTypes, Feed!ServerHandles
<1>2. up' \in Seq(Requests) /\ Head(up) \in Requests
  BY <1>1, TailFacts
<1>3. isUp /\ srvOrder \in [Cids -> Feed!OrderStates] /\ srvSeq \in 0..MaxSeq /\ MaxSeq \in Nat
  BY <1>1, FeedAssumption DEF FeedInv, FeedTypes, QueueWaits
<1>4. PICK msg : msg = Head(up)
  OBVIOUS
<1>5. msg \in Requests
  BY <1>2, <1>4
<1>6. CASE msg.type = "sync_state"
  <2>1. PICK cs : cs = {t \in 1..srvSeq : t > msg.ts}
    OBVIOUS
  <2>2. down' = Append(down, Feed!Full("sync_state", cs)) /\ srvOrder' = srvOrder
    BY <1>4, <1>6, <2>1 DEF Feed!ServerHandles
  <2>3. cs \in SUBSET (1..MaxSeq) /\ "sync_state" \in FullTypes
    BY <1>3, <2>1 DEF FullTypes
  <2>4. PICK m : m = Feed!Full("sync_state", cs)
    OBVIOUS
  <2>5. /\ m \in Messages
        /\ \A h : BooksFollow(h) => Reports(m, h, srvSeq)
        /\ \A c \in Cids : Speaks(m, c) /\ (Says(m, c) <=> srvOrder[c] = "PENDING")
    BY <2>3, <2>4, FullFacts
  <2>6. QED
    BY <1>0, <1>2, <1>3, <2>2, <2>4, <2>5, ServerSends
<1>7. CASE msg.type = "order"
  <2>1. msg \in OrderRequests /\ msg.cid \in Cids
    BY <1>5, <1>7 DEF Requests, SyncRequests, OrderRequests
  <2>2. PICK st \in {"PENDING", "FILLED"} :
          LET now == IF srvOrder[msg.cid] = "none" THEN st ELSE srvOrder[msg.cid]
          IN /\ srvOrder' = [srvOrder EXCEPT ![msg.cid] = now]
             /\ down' = Append(down, Feed!Order("fill", msg.cid, now))
    BY <1>4, <1>7 DEF Feed!ServerHandles
  <2>3. PICK st2 : st2 = IF srvOrder[msg.cid] = "none" THEN st ELSE srvOrder[msg.cid]
    OBVIOUS
  <2>4. /\ srvOrder' = [srvOrder EXCEPT ![msg.cid] = st2]
        /\ down' = Append(down, Feed!Order("fill", msg.cid, st2))
    BY <2>2, <2>3
  <2>5. st2 \in Feed!OrderStates
    BY <1>3, <2>1, <2>3 DEF Feed!OrderStates
  <2>6. PICK m : m = Feed!Order("fill", msg.cid, st2)
    OBVIOUS
  <2>7. /\ m \in Messages
        /\ \A h : Reports(m, h, srvSeq)
        /\ \A d : Speaks(m, d) <=> d = msg.cid
        /\ \A d : Says(m, d) <=> st2 = "PENDING"
    BY <2>1, <2>5, <2>6, OrderFacts
  <2>8. PICK now : now = [srvOrder EXCEPT ![msg.cid] = st2]
    OBVIOUS
  <2>9. now \in [Cids -> Feed!OrderStates]
    BY <1>3, <2>1, <2>5, <2>8
  <2>10. \A c \in Cids : IF c = msg.cid THEN now[c] = st2 ELSE now[c] = srvOrder[c]
    BY <1>3, <2>1, <2>8
  <2>11. \A c \in Cids : IF Speaks(m, c) THEN Says(m, c) <=> now[c] = "PENDING"
                         ELSE now[c] = srvOrder[c]
    BY <2>7, <2>10
  <2>12. srvOrder' = now /\ down' = Append(down, m)
    BY <2>4, <2>6, <2>8
  <2>13. QED
    BY <1>0, <1>2, <1>3, <2>7, <2>9, <2>11, <2>12, ServerSends
<1>8. CASE msg.type \notin {"sync_state", "order"}
  <2>1. msg \in OrderRequests /\ msg.cid \in Cids
    BY <1>5, <1>8 DEF Requests, SyncRequests, OrderRequests
  <2>2. IF srvOrder[msg.cid] = "PENDING"
        THEN /\ srvOrder' = [srvOrder EXCEPT ![msg.cid] = "CANCELLED"]
             /\ down' = Append(down, Feed!Order("order_cancelled", msg.cid, "CANCELLED"))
        ELSE UNCHANGED <<srvOrder, down>>
    BY <1>4, <1>8 DEF Feed!ServerHandles
  <2>3. CASE srvOrder[msg.cid] = "PENDING"
    <3>1. PICK m : m = Feed!Order("order_cancelled", msg.cid, "CANCELLED")
      OBVIOUS
    <3>2. /\ m \in Messages
          /\ \A h : Reports(m, h, srvSeq)
          /\ \A d : Speaks(m, d) <=> d = msg.cid
          /\ \A d : ~Says(m, d)
      <4>1. "CANCELLED" \in Feed!OrderStates /\ "CANCELLED" # "PENDING"
        BY DEF Feed!OrderStates
      <4>2. QED
        BY <2>1, <3>1, <4>1, OrderFacts
    <3>3. PICK now : now = [srvOrder EXCEPT ![msg.cid] = "CANCELLED"]
      OBVIOUS
    <3>4. now \in [Cids -> Feed!OrderStates]
      BY <1>3, <2>1, <3>3 DEF Feed!OrderStates
    <3>5. \A c \in Cids : IF c = msg.cid THEN now[c] = "CANCELLED" ELSE now[c] = srvOrder[c]
      BY <1>3, <2>1, <3>3
    <3>6. \A c \in Cids : IF Speaks(m, c) THEN Says(m, c) <=> now[c] = "PENDING"
                          ELSE now[c] = srvOrder[c]
      BY <3>2, <3>5
    <3>7. srvOrder' = now /\ down' = Append(down, m)
      BY <2>2, <2>3, <3>1, <3>3
    <3>8. QED
      BY <1>0, <1>2, <1>3, <3>2, <3>4, <3>6, <3>7, ServerSends
  <2>4. CASE srvOrder[msg.cid] # "PENDING"
    <3>1. UNCHANGED <<srvOrder, down>>
      BY <2>2, <2>4
    <3>2. FeedTypes'
      BY <1>0, <1>2, <3>1 DEF FeedInv, FeedTypes, Feed!NoBook
    <3>3. CandlesKept' /\ QueueWaits' /\ OrdersTold'
      BY <1>0, <1>3, <3>1 DEF FeedInv, CandlesKept, QueueWaits, OrdersTold, Feed!Trim, Feed!Newest
    <3>4. \E h \in [0..MaxSeq -> Books] : BooksFollow(h)'
      BY <1>0, <3>1 DEF FeedInv, BooksFollow
    <3>5. QED
      BY <3>2, <3>3, <3>4 DEF FeedInv
  <2>5. QED
    BY <2>3, <2>4
<1>9. QED
  BY <1>6, <1>7, <1>8

\* The engine fills a resting order.
LEMMA FeedEngineFill == \A c \in Cids : FeedInv /\ Feed!EngineFill(c) => FeedInv'
<1> SUFFICES ASSUME NEW c \in Cids, FeedInv, Feed!EngineFill(c) PROVE FeedInv'
  OBVIOUS
<1>0. UNCHANGED <<srvSeq, srvBook, up, isUp, outQueue, lastSeq, throttled, book, openOrders,
                  candleMap, candles, fills, promise, truth, at, seen>>
  BY DEF Feed!EngineFill, Feed!view, Feed!hist
<1>1. PICK now : now = [srvOrder EXCEPT ![c] = "FILLED"]
  OBVIOUS
<1>2. srvOrder \in [Cids -> Feed!OrderStates] /\ up \in Seq(Requests)
  BY DEF FeedInv, FeedTypes
<1>3. now \in [Cids -> Feed!OrderStates]
  BY <1>1, <1>2 DEF Feed!OrderStates
<1>4. \A d \in Cids : IF d = c THEN now[d] = "FILLED" ELSE now[d] = srvOrder[d]
  BY <1>1, <1>2
<1>5. PICK m : m = Feed!Order("fills_batch", c, "FILLED")
  OBVIOUS
<1>6. /\ m \in Messages
      /\ \A h : Reports(m, h, srvSeq)
      /\ \A d : Speaks(m, d) <=> d = c
      /\ \A d : ~Says(m, d)
  <2>1. "FILLED" \in Feed!OrderStates /\ "FILLED" # "PENDING"
    BY DEF Feed!OrderStates
  <2>2. QED
    BY <1>5, <2>1, OrderFacts
<1>7. srvOrder' = now /\ down' = IF isUp THEN Append(down, m) ELSE down
  BY <1>1, <1>5 DEF Feed!EngineFill
<1>8. CASE isUp
  <2>1. \A d \in Cids : IF Speaks(m, d) THEN Says(m, d) <=> now[d] = "PENDING"
                        ELSE now[d] = srvOrder[d]
    BY <1>4, <1>6
  <2>2. down' = Append(down, m) /\ up' \in Seq(Requests)
    BY <1>0, <1>2, <1>7, <1>8
  <2>3. QED
    BY <1>0, <1>3, <1>6, <1>7, <1>8, <2>1, <2>2, ServerSends
<1>9. CASE ~isUp
  <2>1. down' = down
    BY <1>7, <1>9
  <2>2. FeedTypes'
    BY <1>0, <1>3, <1>7, <2>1 DEF FeedInv, FeedTypes, Feed!NoBook
  <2>3. CandlesKept' /\ QueueWaits' /\ OrdersTold'
    BY <1>0, <1>9, <2>1 DEF FeedInv, CandlesKept, QueueWaits, OrdersTold, Feed!Trim, Feed!Newest
  <2>4. \E h \in [0..MaxSeq -> Books] : BooksFollow(h)'
    BY <1>0, <2>1 DEF FeedInv, BooksFollow
  <2>5. QED
    BY <2>2, <2>3, <2>4 DEF FeedInv
<1>10. QED
  BY <1>8, <1>9

-----------------------------------------------------------------------------
\* What a delivery does to the messages that are still to come.
LEMMA Delivered ==
  ASSUME FeedInv, Feed!Deliver
  PROVE  /\ isUp /\ isUp' = isUp /\ outQueue = <<>> /\ outQueue' = outQueue
         /\ srvSeq' = srvSeq /\ srvBook' = srvBook /\ srvOrder' = srvOrder
         /\ Head(down) \in Messages /\ down' \in Seq(Messages)
         /\ \A h : BooksFollow(h) =>
              /\ Reports(Head(down), h, srvSeq)
              /\ \A i \in 1..Len(down') : Reports(down'[i], h, srvSeq)
         /\ (\A c \in Cids : IF Speaks(Head(down), c)
                             THEN c \in openOrders' <=> Says(Head(down), c)
                             ELSE c \in openOrders' <=> c \in openOrders) => OrdersTold'
<1>1. down # <<>> /\ down' = Tail(down) /\ down \in Seq(Messages)
      /\ UNCHANGED <<srvSeq, srvBook, srvOrder, isUp, outQueue>>
  BY DEF FeedInv, FeedTypes, Feed!Deliver, Feed!server
<1>2. isUp /\ outQueue = <<>>
  BY <1>1 DEF FeedInv, FeedTypes, QueueWaits
<1>3. /\ down' \in Seq(Messages) /\ Head(down) \in Messages
      /\ Head(down) = down[1] /\ 1 \in 1..Len(down)
      /\ \A i \in 1..Len(down') : i + 1 \in 1..Len(down) /\ down'[i] = down[i + 1]
  BY <1>1, TailFacts
<1>4. \A h : BooksFollow(h) =>
              /\ Reports(Head(down), h, srvSeq)
              /\ \A i \in 1..Len(down') : Reports(down'[i], h, srvSeq)
  BY <1>3 DEF BooksFollow
<1>5. ASSUME \A c \in Cids : IF Speaks(Head(down), c)
                             THEN c \in openOrders' <=> Says(Head(down), c)
                             ELSE c \in openOrders' <=> c \in openOrders
      PROVE  OrdersTold'
  <2>1. ASSUME NEW c \in Cids
        PROVE  Tells(down', c, c \in openOrders', srvOrder[c] = "PENDING")
    <3>1. PICK next : next = (c \in openOrders')
      OBVIOUS
    <3>2. Tells(down, c, c \in openOrders, srvOrder[c] = "PENDING")
      BY <1>2 DEF FeedInv, OrdersTold
    <3>3. IF Speaks(Head(down), c) THEN next <=> Says(Head(down), c) ELSE next <=> c \in openOrders
      BY <1>5, <3>1
    <3>4. Tells(Tail(down), c, next, srvOrder[c] = "PENDING")
      BY <1>1, <3>2, <3>3, TellsTail
    <3>5. QED
      BY <1>1, <3>1, <3>4
  <2>2. QED
    BY <1>1, <2>1 DEF OrdersTold
<1>6. QED
  BY <1>1, <1>2, <1>3, <1>4, <1>5

\* Delivery of a broadcast or of a full state.
LEMMA FeedMarketMessage == FeedInv /\ Feed!Deliver /\ Head(down) \in MarketMessages => FeedInv'
<1> SUFFICES ASSUME FeedInv, Feed!Deliver, Head(down) \in MarketMessages PROVE FeedInv'
  OBVIOUS
<1>1. PICK m : m = Head(down)
  OBVIOUS
<1>2. m \in MarketMessages /\ m \in Messages /\ m.type \in {"candles"} \cup FullTypes
  BY <1>1, MessageKinds DEF Messages
<1>3. Feed!MarketMessage(m)
  BY <1>1, <1>2 DEF Feed!Deliver, FullTypes
<1>4. /\ isUp /\ isUp' = isUp /\ outQueue = <<>> /\ outQueue' = outQueue
      /\ srvSeq' = srvSeq /\ srvBook' = srvBook /\ srvOrder' = srvOrder
      /\ down' \in Seq(Messages)
  BY Delivered
<1>5. /\ lastSeq' = IF m.type = "candles" THEN m.seq ELSE lastSeq
      /\ candleMap' = Feed!Trim(candleMap \cup m.cs)
      /\ candles' = Feed!Newest(candleMap \cup m.cs)
      /\ book' = IF m.type = "candles" THEN Feed!ApplyDeltas(book, m.delta) ELSE m.book
      /\ openOrders' = IF m.type = "candles" THEN openOrders ELSE m.open
      /\ truth' = m.book
      /\ at' = IF m.type # "candles" THEN m.ts
               ELSE IF at = m.seq - 1 THEN m.seq ELSE -1
      /\ seen' = seen \cup m.cs
      /\ UNCHANGED <<fills, promise>>
  BY <1>3 DEF Feed!MarketMessage, Feed!SnapshotOrders
<1>6. /\ m.seq \in 0..MaxSeq /\ m.ts \in 0..MaxSeq /\ m.cs \in SUBSET (1..MaxSeq)
      /\ m.delta \in (Levels \X Quantities) \cup {<<>>} /\ m.book \in Books /\ m.open \in SUBSET Cids
  BY <1>2 DEF MarketMessages
<1>7. /\ MaxSeq \in Nat /\ lastSeq \in 0..MaxSeq /\ at \in -1..MaxSeq /\ seen \in SUBSET (1..MaxSeq)
      /\ book \in Books \cup {Feed!NoBook} /\ openOrders \in SUBSET Cids /\ throttled \in BOOLEAN
      /\ up \in Seq(Requests)
  BY FeedAssumption DEF FeedInv, FeedTypes
<1>8. seen' \in SUBSET (1..MaxSeq)
  BY <1>5, <1>6, <1>7
<1>9. FeedTypes'
  <2>1. throttled' \in BOOLEAN /\ up' \in Seq(Requests)
    <3>1. PICK r : r = [type |-> "sync_state", ts |-> IF seen = {} THEN 0 ELSE Feed!Max(seen)]
      OBVIOUS
    <3>2. r \in Requests
      BY <1>7, <3>1 DEF Requests, SyncRequests
    <3>3. \/ throttled' = TRUE /\ up' = Append(up, r)
          \/ UNCHANGED <<throttled, up>>
      BY <1>3, <3>1 DEF Feed!MarketMessage
    <3>4. QED
      BY <1>7, <3>2, <3>3, AppendFacts
  <2>2. lastSeq' \in 0..MaxSeq /\ at' \in -1..MaxSeq
    BY <1>5, <1>6, <1>7
  <2>3. book' \in Books \cup {Feed!NoBook}
    <3>1. CASE m.type # "candles"
      BY <1>5, <1>6, <3>1
    <3>2. CASE m.type = "candles" /\ (book = Feed!NoBook \/ m.delta = <<>>)
      BY <1>5, <1>7, <3>2 DEF Feed!ApplyDeltas
    <3>3. CASE m.type = "candles" /\ book # Feed!NoBook /\ m.delta # <<>>
      <4>1. m.delta \in Levels \X Quantities /\ book \in Books
        BY <1>6, <1>7, <3>3
      <4>2. book' = [book EXCEPT ![m.delta[1]] = m.delta[2]]
        BY <1>5, <3>3 DEF Feed!ApplyDeltas
      <4>3. QED
        BY <4>1, <4>2 DEF Books
    <3>4. QED
      BY <3>1, <3>2, <3>3
  <2>4. openOrders' \in SUBSET Cids
    BY <1>5, <1>6, <1>7
  <2>5. QED
    BY <1>4, <1>5, <1>8, <2>1, <2>2, <2>3, <2>4 DEF FeedInv, FeedTypes, Feed!NoBook
<1>10. CandlesKept'
  <2>1. candleMap = Feed!Trim(seen)
    BY DEF FeedInv, CandlesKept
  <2>2. /\ seen \subseteq Nat /\ IsFiniteSet(seen) /\ m.cs \subseteq Nat /\ IsFiniteSet(m.cs)
        /\ \A x \in seen \cup m.cs : x <= MaxSeq
    BY <1>6, <1>7, SeenFinite
  <2>3. Feed!Trim(candleMap \cup m.cs) = Feed!Trim(seen \cup m.cs)
    BY <1>7, <2>1, <2>2, TrimAbsorbs
  <2>4. Feed!Newest(candleMap \cup m.cs) = Feed!Newest(seen \cup m.cs)
    BY <2>3, NewestOfTrim
  <2>5. candleMap' = Feed!Trim(seen') /\ candles' = Feed!Newest(seen')
    BY <1>5, <2>3, <2>4
  <2>6. QED
    BY <2>5 DEF CandlesKept, Feed!Trim, Feed!Newest
<1>11. QueueWaits'
  BY <1>4 DEF QueueWaits
<1>12. \E h \in [0..MaxSeq -> Books] : BooksFollow(h)'
  <2>1. PICK h \in [0..MaxSeq -> Books] : BooksFollow(h)
    BY DEF FeedInv
  <2>2. Reports(m, h, srvSeq) /\ \A i \in 1..Len(down') : Reports(down'[i], h, srvSeq)
    BY <1>1, <2>1, Delivered
  <2>3. srvSeq \in 0..MaxSeq /\ h[srvSeq] = srvBook
    BY <2>1 DEF FeedInv, FeedTypes, BooksFollow
  <2>4. ASSUME at' >= 0 PROVE at' <= srvSeq /\ book' = truth' /\ truth' = h[at']
    <3>1. CASE m.type # "candles"
      <4>1. at' = m.ts /\ book' = m.book /\ truth' = m.book /\ m.type \in FullTypes
        BY <1>2, <1>5, <3>1
      <4>2. m.ts \in 0..srvSeq /\ m.book = h[m.ts]
        BY <2>2, <4>1 DEF Reports
      <4>3. QED
        BY <2>3, <4>1, <4>2
    <3>2. CASE m.type = "candles"
      <4>1. at = m.seq - 1 /\ at' = m.seq /\ truth' = m.book
        BY <1>5, <2>4, <3>2
      <4>2. /\ m.seq \in 1..srvSeq /\ m.delta \in Levels \X Quantities
            /\ m.book = h[m.seq]
            /\ m.book = [h[m.seq - 1] EXCEPT ![m.delta[1]] = m.delta[2]]
        BY <2>2, <3>2 DEF Reports
      <4>3. at >= 0 /\ at \in 0..MaxSeq /\ at' <= srvSeq
        BY <1>7, <2>3, <4>1, <4>2
      <4>4. book = h[at] /\ book \in Books
        BY <2>1, <4>3 DEF BooksFollow
      <4>5. book # Feed!NoBook
        <5>1. PICK l \in Levels : TRUE
          BY <4>2
        <5>2. book[l] \in Nat /\ Feed!NoBook[l] = -1
          BY <4>4, FeedAssumption DEF Books, Feed!NoBook
        <5>3. QED
          BY <5>2
      <4>6. m.delta # <<>>
        BY <4>2
      <4>7. book' = [book EXCEPT ![m.delta[1]] = m.delta[2]]
        BY <1>5, <3>2, <4>5, <4>6 DEF Feed!ApplyDeltas
      <4>8. QED
        BY <4>1, <4>2, <4>3, <4>4, <4>7
    <3>3. QED
      BY <3>1, <3>2
  <2>5. BooksFollow(h)'
    BY <1>4, <2>1, <2>2, <2>3, <2>4 DEF BooksFollow
  <2>6. QED
    BY <2>5
<1>13. OrdersTold'
  <2>1. ASSUME NEW c \in Cids
        PROVE  IF Speaks(m, c) THEN c \in openOrders' <=> Says(m, c)
               ELSE c \in openOrders' <=> c \in openOrders
    <3>1. m \notin OrderMessages
      BY <1>2, MessageKinds
    <3>2. CASE m.type = "candles"
      BY <1>5, <3>1, <3>2 DEF Speaks, FullTypes
    <3>3. CASE m.type # "candles"
      BY <1>2, <1>5, <3>3 DEF Speaks, Says
    <3>4. QED
      BY <3>2, <3>3
  <2>2. QED
    BY <1>1, <2>1, Delivered
<1>14. QED
  BY <1>9, <1>10, <1>11, <1>12, <1>13 DEF FeedInv

\* Delivery of a fill or a cancellation.
LEMMA FeedOrderMessage == FeedInv /\ Feed!Deliver /\ Head(down) \notin MarketMessages => FeedInv'
<1> SUFFICES ASSUME FeedInv, Feed!Deliver, Head(down) \notin MarketMessages PROVE FeedInv'
  OBVIOUS
<1>1. PICK m : m = Head(down)
  OBVIOUS
<1>2. m \in OrderMessages /\ m.type \notin {"candles"} \cup FullTypes
  BY <1>1, MessageKinds, Delivered
<1>3. Feed!OrderMessage(m)
  BY <1>1, <1>2 DEF Feed!Deliver, FullTypes
<1>4. /\ isUp /\ isUp' = isUp /\ outQueue = <<>> /\ outQueue' = outQueue
      /\ srvSeq' = srvSeq /\ srvBook' = srvBook /\ srvOrder' = srvOrder
      /\ down' \in Seq(Messages)
  BY Delivered
<1>5. UNCHANGED <<up, lastSeq, throttled, candleMap, candles, book, truth, at, seen>>
  BY <1>3 DEF Feed!OrderMessage
<1>6. m.cid \in Cids /\ m.status \in Feed!OrderStates /\ m.type \in {"fill", "fills_batch", "order_cancelled"}
  BY <1>2 DEF OrderMessages
<1>7. fills \in Seq(Cids) /\ Len(fills) <= FillCap /\ promise \in [Cids -> Promises]
      /\ openOrders \in SUBSET Cids /\ FillCap \in Nat
  BY FeedAssumption DEF FeedInv, FeedTypes
<1>8. fills' \in Seq(Cids) /\ Len(fills') <= FillCap /\ promise' \in [Cids -> Promises]
  <2>1. CASE m.type = "order_cancelled"
    BY <1>3, <1>7, <2>1 DEF Feed!OrderMessage
  <2>2. CASE m.type # "order_cancelled"
    <3>1. PICK all : all = <<m.cid>> \o fills
      OBVIOUS
    <3>2. all \in Seq(Cids) /\ Len(all) \in Nat
      BY <1>6, <1>7, <3>1
    <3>3. PICK k : k = IF Len(all) < FillCap THEN Len(all) ELSE FillCap
      OBVIOUS
    <3>4. k \in 0..Len(all) /\ k <= FillCap /\ k \in Nat
      BY <1>7, <3>2, <3>3
    <3>5. fills' = SubSeq(all, 1, k)
      BY <1>3, <2>2, <3>1, <3>3 DEF Feed!OrderMessage
    <3>6. fills' \in Seq(Cids) /\ Len(fills') = k
      BY <3>2, <3>4, <3>5
    <3>7. promise' = [promise EXCEPT ![m.cid] = IF @ \in {"untimed", "timed"} THEN "order" ELSE @]
      BY <1>3, <2>2 DEF Feed!OrderMessage, Feed!ResolveAck
    <3>8. promise' \in [Cids -> Promises]
      BY <1>6, <1>7, <3>7 DEF Promises
    <3>9. QED
      BY <3>4, <3>6, <3>8
  <2>3. QED
    BY <2>1, <2>2
<1>9. openOrders' = IF m.type # "order_cancelled" /\ m.status = "PENDING"
                    THEN openOrders \cup {m.cid} ELSE openOrders \ {m.cid}
  BY <1>3 DEF Feed!OrderMessage, Feed!TrackOrderStatus
<1>10. FeedTypes'
  BY <1>4, <1>5, <1>6, <1>7, <1>8, <1>9 DEF FeedInv, FeedTypes, Feed!NoBook
<1>11. CandlesKept' /\ QueueWaits'
  BY <1>4, <1>5 DEF FeedInv, CandlesKept, QueueWaits, Feed!Trim, Feed!Newest
<1>12. \E h \in [0..MaxSeq -> Books] : BooksFollow(h)'
  <2>1. PICK h \in [0..MaxSeq -> Books] : BooksFollow(h)
    BY DEF FeedInv
  <2>2. \A i \in 1..Len(down') : Reports(down'[i], h, srvSeq)
    BY <2>1, Delivered
  <2>3. BooksFollow(h)'
    BY <1>4, <1>5, <2>1, <2>2 DEF BooksFollow
  <2>4. QED
    BY <2>3
<1>13. OrdersTold'
  <2>1. ASSUME NEW c \in Cids
        PROVE  IF Speaks(m, c) THEN c \in openOrders' <=> Says(m, c)
               ELSE c \in openOrders' <=> c \in openOrders
    BY <1>2, <1>9 DEF Speaks, Says
  <2>2. QED
    BY <1>1, <2>1, Delivered
<1>14. QED
  BY <1>10, <1>11, <1>12, <1>13 DEF FeedInv

-----------------------------------------------------------------------------
\* Steps that leave the server, what travels down and what is shown of it alone.
LEMMA FeedElse ==
  ASSUME FeedInv, FeedTypes', QueueWaits',
         UNCHANGED <<srvSeq, srvBook, srvOrder, down, isUp, book, openOrders, candleMap, candles,
                     truth, at, seen>>
  PROVE  FeedInv'
<1>1. CandlesKept' /\ OrdersTold'
  BY DEF FeedInv, CandlesKept, OrdersTold, Feed!Trim, Feed!Newest
<1>2. \E h \in [0..MaxSeq -> Books] : BooksFollow(h)'
  BY DEF FeedInv, BooksFollow
<1>3. QED
  BY <1>1, <1>2 DEF FeedInv

\* submitOrder, on the wire or queued without a timer.
LEMMA FeedSubmitOrder == \A c \in Cids : FeedInv /\ Feed!SubmitOrder(c) => FeedInv'
<1> SUFFICES ASSUME NEW c \in Cids, FeedInv, Feed!SubmitOrder(c) PROVE FeedInv'
  OBVIOUS
<1>0. UNCHANGED <<srvSeq, srvBook, srvOrder, down, isUp, lastSeq, throttled, book, openOrders,
                  candleMap, candles, fills, truth, at, seen>>
  BY DEF Feed!SubmitOrder, Feed!server, Feed!hist
<1>1. /\ promise[c] = "none"
      /\ promise' = [promise EXCEPT ![c] = IF isUp THEN "timed" ELSE "untimed"]
  BY DEF Feed!SubmitOrder
<1>2. promise \in [Cids -> Promises] /\ up \in Seq(Requests) /\ outQueue \in Seq(OrderRequests)
  BY DEF FeedInv, FeedTypes
<1>3. promise' \in [Cids -> Promises]
  BY <1>1, <1>2 DEF Promises
<1>4. PICK r : r = [type |-> "order", cid |-> c]
  OBVIOUS
<1>5. r \in OrderRequests /\ r \in Requests /\ r.cid = c
  BY <1>4 DEF OrderRequests, Requests
<1>6. IF isUp THEN up' = Append(up, r) /\ outQueue' = outQueue
      ELSE outQueue' = Append(outQueue, r) /\ up' = up
  BY <1>4 DEF Feed!SubmitOrder
<1>7. up' \in Seq(Requests) /\ outQueue' \in Seq(OrderRequests)
  BY <1>2, <1>5, <1>6, AppendFacts
<1>8. FeedTypes'
  BY <1>0, <1>3, <1>7 DEF FeedInv, FeedTypes, Feed!NoBook
<1>9. QueueWaits'
  <2>1. CASE isUp
    <3>1. outQueue = <<>> /\ outQueue' = outQueue
      BY <1>6, <2>1 DEF FeedInv, QueueWaits
    <3>2. QED
      BY <1>0, <2>1, <3>1 DEF QueueWaits
  <2>2. CASE ~isUp
    <3>1. outQueue' = Append(outQueue, r) /\ up' = <<>> /\ down' = <<>>
      BY <1>0, <1>6, <2>2 DEF FeedInv, QueueWaits
    <3>2. /\ Len(outQueue') = Len(outQueue) + 1 /\ outQueue'[Len(outQueue) + 1] = r
          /\ \A i \in 1..Len(outQueue) : outQueue'[i] = outQueue[i] /\ outQueue[i].cid \in Cids
          /\ \A i \in 1..Len(outQueue) + 1 : i = Len(outQueue) + 1 \/ i \in 1..Len(outQueue)
      <4>1. \A i \in 1..Len(outQueue) : outQueue[i] \in OrderRequests
        BY <1>2
      <4>2. QED
        BY <1>2, <1>5, <3>1, <4>1, AppendFacts DEF OrderRequests
    <3>3. promise'[c] = "untimed" /\ \A d \in Cids : promise[d] = "untimed" => promise'[d] = "untimed"
      BY <1>1, <1>2, <2>2
    <3>4. \A i \in 1..Len(outQueue') : promise'[outQueue'[i].cid] = "untimed"
      BY <1>5, <3>2, <3>3 DEF FeedInv, QueueWaits
    <3>5. QED
      BY <1>0, <2>2, <3>1, <3>4 DEF QueueWaits
  <2>3. QED
    BY <2>1, <2>2
<1>10. QED
  BY <1>0, <1>8, <1>9, FeedElse

\* A cancellation is asked for.
LEMMA FeedCancelOrder == \A c \in Cids : FeedInv /\ Feed!CancelOrder(c) => FeedInv'
<1> SUFFICES ASSUME NEW c \in Cids, FeedInv, Feed!CancelOrder(c) PROVE FeedInv'
  OBVIOUS
<1>0. UNCHANGED <<srvSeq, srvBook, srvOrder, down, isUp, outQueue, lastSeq, throttled, book,
                  openOrders, candleMap, candles, fills, promise, truth, at, seen>> /\ isUp
  BY DEF Feed!CancelOrder, Feed!server, Feed!view, Feed!hist
<1>1. PICK r : r = [type |-> "cancel_order", cid |-> c]
  OBVIOUS
<1>2. r \in Requests /\ up \in Seq(Requests) /\ up' = Append(up, r)
  BY <1>1 DEF OrderRequests, Requests, Feed!CancelOrder, FeedInv, FeedTypes
<1>3. up' \in Seq(Requests)
  BY <1>2, AppendFacts
<1>4. FeedTypes'
  BY <1>0, <1>3 DEF FeedInv, FeedTypes, Feed!NoBook
<1>5. QueueWaits'
  BY <1>0 DEF FeedInv, QueueWaits
<1>6. QED
  BY <1>0, <1>4, <1>5, FeedElse

\* Only the timer of an order that was sent fires.
LEMMA FeedAckTimeout == \A c \in Cids : FeedInv /\ Feed!AckTimeout(c) => FeedInv'
<1> SUFFICES ASSUME NEW c \in Cids, FeedInv, Feed!AckTimeout(c) PROVE FeedInv'
  OBVIOUS
<1>0. UNCHANGED <<srvSeq, srvBook, srvOrder, down, up, isUp, outQueue, lastSeq, throttled, book,
                  openOrders, candleMap, candles, fills, truth, at, seen>>
  BY DEF Feed!AckTimeout, Feed!server, Feed!link, Feed!hist
<1>1. promise[c] = "timed" /\ promise' = [promise EXCEPT ![c] = "null"]
  BY DEF Feed!AckTimeout
<1>2. promise \in [Cids -> Promises] /\ outQueue \in Seq(OrderRequests)
  BY DEF FeedInv, FeedTypes
<1>3. promise' \in [Cids -> Promises]
  BY <1>1, <1>2 DEF Promises
<1>4. FeedTypes'
  BY <1>0, <1>3 DEF FeedInv, FeedTypes, Feed!NoBook
<1>5. QueueWaits'
  <2>1. \A d \in Cids : promise[d] = "untimed" => promise'[d] = "untimed"
    BY <1>1, <1>2
  <2>2. \A i \in 1..Len(outQueue) : outQueue[i] \in OrderRequests
    BY <1>2
  <2>3. \A i \in 1..Len(outQueue) : outQueue[i].cid \in Cids
    BY <2>2 DEF OrderRequests
  <2>4. QED
    BY <1>0, <2>1, <2>3 DEF FeedInv, QueueWaits
<1>6. QED
  BY <1>0, <1>4, <1>5, FeedElse

\* The next gap may ask again.
LEMMA FeedThrottleEnds == FeedInv /\ Feed!ThrottleEnds => FeedInv'
<1> SUFFICES ASSUME FeedInv, Feed!ThrottleEnds PROVE FeedInv'
  OBVIOUS
<1>0. UNCHANGED <<srvSeq, srvBook, srvOrder, down, up, isUp, outQueue, lastSeq, book,
                  openOrders, candleMap, candles, fills, promise, truth, at, seen>>
      /\ throttled' = FALSE
  BY DEF Feed!ThrottleEnds, Feed!server, Feed!link, Feed!hist
<1>1. FeedTypes'
  BY <1>0 DEF FeedInv, FeedTypes, Feed!NoBook
<1>2. QueueWaits'
  BY <1>0 DEF FeedInv, QueueWaits
<1>3. QED
  BY <1>0, <1>1, <1>2, FeedElse

\* The connection is lost with all that travels.
LEMMA FeedDrop == FeedInv /\ Feed!Drop => FeedInv'
<1> SUFFICES ASSUME FeedInv, Feed!Drop PROVE FeedInv'
  OBVIOUS
<1>0. UNCHANGED <<srvSeq, srvBook, srvOrder, outQueue, lastSeq, throttled, book,
                  openOrders, candleMap, candles, fills, promise, truth, at, seen>>
      /\ isUp /\ isUp' = FALSE /\ down' = <<>> /\ up' = <<>>
  BY DEF Feed!Drop, Feed!server, Feed!view
<1>1. FeedTypes'
  <2>1. down' \in Seq(Messages) /\ up' \in Seq(Requests) /\ isUp' \in BOOLEAN
    <3>1. <<>> \in Seq(Messages) /\ <<>> \in Seq(Requests)
      OBVIOUS
    <3>2. QED
      BY <1>0, <3>1
  <2>2. UNCHANGED <<srvSeq, srvBook, srvOrder, outQueue, lastSeq, throttled, book, openOrders,
                    fills, promise, at, seen>>
    BY <1>0
  <2>3. QED
    BY <2>1, <2>2 DEF FeedInv, FeedTypes, Feed!NoBook
<1>2. CandlesKept' /\ QueueWaits' /\ OrdersTold'
  BY <1>0 DEF FeedInv, CandlesKept, QueueWaits, OrdersTold, Feed!Trim, Feed!Newest
<1>3. \E h \in [0..MaxSeq -> Books] : BooksFollow(h)'
  <2>1. 1..Len(down') = {}
    BY <1>0
  <2>2. QED
    BY <1>0, <2>1 DEF FeedInv, BooksFollow
<1>4. QED
  BY <1>1, <1>2, <1>3 DEF FeedInv

\* The new connection starts with a snapshot and flushes the queue.
LEMMA FeedReopen == FeedInv /\ Feed!Reopen => FeedInv'
<1> SUFFICES ASSUME FeedInv, Feed!Reopen PROVE FeedInv'
  OBVIOUS
<1>0. UNCHANGED <<srvSeq, srvBook, srvOrder, throttled, book, openOrders, candleMap, candles,
                  fills, truth, at, seen>>
      /\ isUp' = TRUE /\ lastSeq' = 0 /\ outQueue' = <<>>
  BY DEF Feed!Reopen, Feed!server, Feed!hist
<1>1. PICK m : m = Feed!Full("snapshot", {srvSeq} \ {0})
  OBVIOUS
<1>2. down' = <<m>>
  BY <1>1 DEF Feed!Reopen
<1>3. MaxSeq \in Nat /\ srvSeq \in 0..MaxSeq
  BY FeedAssumption DEF FeedInv, FeedTypes
<1>4. {srvSeq} \ {0} \in SUBSET (1..MaxSeq) /\ "snapshot" \in FullTypes
  BY <1>3 DEF FullTypes
<1>5. /\ m \in Messages
      /\ \A h : BooksFollow(h) => Reports(m, h, srvSeq)
      /\ \A c \in Cids : Speaks(m, c) /\ (Says(m, c) <=> srvOrder[c] = "PENDING")
  BY <1>1, <1>4, FullFacts
<1>6. down' \in Seq(Messages) /\ Len(down') = 1 /\ down'[1] = m /\ 1..Len(down') = {1}
  BY <1>2, <1>5
<1>7. up' \in Seq(Requests)
  <2>1. PICK r : r = [type |-> "sync_state", ts |-> IF seen = {} THEN 0 ELSE Feed!Max(seen)]
    OBVIOUS
  <2>2. r \in Requests
    BY <2>1 DEF Requests, SyncRequests, FeedInv, FeedTypes
  <2>3. outQueue \in Seq(Requests)
    <3>1. outQueue \in Seq(OrderRequests) /\ OrderRequests \subseteq Requests
      BY DEF FeedInv, FeedTypes, Requests
    <3>2. QED
      BY <3>1
  <2>4. up' = <<r>> \o outQueue
    BY <2>1 DEF Feed!Reopen
  <2>5. QED
    BY <2>2, <2>3, <2>4
<1>8. promise' \in [Cids -> Promises]
  <2>1. promise' = [c \in Cids |-> IF promise[c] = "untimed" THEN "timed" ELSE promise[c]]
    BY DEF Feed!Reopen
  <2>2. QED
    BY <2>1 DEF FeedInv, FeedTypes, Promises
<1>9. FeedTypes'
  BY <1>0, <1>3, <1>6, <1>7, <1>8 DEF FeedInv, FeedTypes, Feed!NoBook
<1>10. CandlesKept' /\ QueueWaits'
  BY <1>0 DEF FeedInv, CandlesKept, QueueWaits, Feed!Trim, Feed!Newest
<1>11. \E h \in [0..MaxSeq -> Books] : BooksFollow(h)'
  <2>1. PICK h \in [0..MaxSeq -> Books] : BooksFollow(h)
    BY DEF FeedInv
  <2>2. \A i \in 1..Len(down') : Reports(down'[i], h, srvSeq)
    BY <1>5, <1>6, <2>1
  <2>3. BooksFollow(h)'
    BY <1>0, <2>1, <2>2 DEF BooksFollow
  <2>4. QED
    BY <2>3
<1>12. OrdersTold'
  <2>1. ASSUME NEW c \in Cids
        PROVE  Tells(down', c, c \in openOrders, srvOrder[c] = "PENDING")
    BY <1>5, <1>6 DEF Tells
  <2>2. QED
    BY <1>0, <2>1 DEF OrdersTold
<1>13. QED
  BY <1>9, <1>10, <1>11, <1>12 DEF FeedInv

\* Every step of the feed keeps the invariant.
LEMMA FeedStep == FeedInv /\ (Feed!Next \/ UNCHANGED feedVars) => FeedInv'
<1> SUFFICES ASSUME FeedInv, Feed!Next \/ UNCHANGED feedVars PROVE FeedInv'
  OBVIOUS
<1>1. CASE UNCHANGED feedVars
  <2>1. UNCHANGED <<srvSeq, srvBook, srvOrder, down, up, isUp, outQueue, lastSeq, throttled, book,
                    openOrders, candleMap, candles, fills, promise, truth, at, seen>>
    BY <1>1 DEF feedVars
  <2>2. FeedTypes'
    BY <2>1 DEF FeedInv, FeedTypes, Feed!NoBook
  <2>3. QueueWaits'
    BY <2>1 DEF FeedInv, QueueWaits
  <2>4. QED
    BY <2>1, <2>2, <2>3, FeedElse
<1>2. CASE Feed!Next
  BY <1>2, FeedBroadcast, FeedLostBroadcast, FeedServerHandles, FeedMarketMessage,
     FeedOrderMessage, FeedThrottleEnds, FeedDrop, FeedReopen, FeedEngineFill, FeedSubmitOrder,
     FeedCancelOrder, FeedAckTimeout DEF Feed!Next
<1>3. QED
  BY <1>1, <1>2

-----------------------------------------------------------------------------
(***************************************************************************)
(* The panels that ask for a computation.                                  *)
(***************************************************************************)

\* A request that was made and its number.
Made(r) == r = Compute!Request(r.panel, r.id) /\ r.panel \in Panels
           /\ r.id \in Nat /\ 1 <= r.id /\ r.id <= asked[r.panel]

\* An answer that panel p may display.
OwnAnswer(p, r) ==
  r.panel = p /\ r.id \in 1..asked[p] /\ (alone[p] => r.id = asked[p])

ShownAreOwn ==
  \A p \in Panels : shown[p].kind = "answer" => OwnAnswer(p, shown[p].of)

\* To a panel that asked alone, only the answer to its last request comes.
ComingAreOwn ==
  \A p \in Panels : alone[p] =>
    /\ \/ slot[Compute!Traits(p).slot] = Compute!NoAnswer
       \/ slot[Compute!Traits(p).slot].id = asked[p]
    /\ \A r \in inflight : r.panel = p => r.id = asked[p]

\* The handle is the last request's, what is on its way or in a slot was asked by the
\* panel of that slot, and a timer is that of the last request; a panel that clears its
\* timer when it takes an answer has one only while it waits.
ComputeInv ==
  /\ Compute!TypeOK
  /\ handle = asked
  /\ \A r \in inflight : Made(r)
  /\ \A p \in Panels : \/ slot[Compute!Traits(p).slot] = Compute!NoAnswer
                       \/ /\ Made(slot[Compute!Traits(p).slot])
                          /\ slot[Compute!Traits(p).slot].panel = p
  /\ \A r \in timers : /\ Made(r) /\ r.id = asked[r.panel]
                       /\ Compute!Traits(r.panel).atResult => pending[r.panel]
  /\ ShownAreOwn /\ Compute!TimeoutIsOwn /\ ComingAreOwn
  /\ \A p \in Panels : Compute!Traits(p).direct => shown[p].kind # "timeout"

\* The panels of ComputeAssumption have a timer, keep its handle, clear the timer at the
\* next request or at the answer, take answers only while they wait, and have a slot each.
LEMMA TraitsOfPanels ==
  ASSUME NEW p \in Panels
  PROVE  /\ Compute!Traits(p).slot \in Compute!Slots
         /\ Compute!Traits(p).timer /\ Compute!Traits(p).tracked
         /\ Compute!Traits(p).onlyWaiting
         /\ Compute!Traits(p).atRequest \in BOOLEAN /\ Compute!Traits(p).atResult \in BOOLEAN
         /\ Compute!Traits(p).atRequest \/ Compute!Traits(p).atResult
         /\ \A q \in Panels : Compute!Traits(p).slot = Compute!Traits(q).slot => p = q
<1>1. Compute!Traits(p).slot \in Compute!Slots
  BY DEF Compute!Slots
<1> DEFINE Own == {"Hawkes", "Size", "Portfolio", "Stress", "Funding"}
<1>2. p \in Own /\ \A q \in Panels : q \in Own
  BY ComputeAssumption
<1>3. \A q \in Own : Compute!Traits(q).slot =
        CASE q = "Hawkes" -> "hawkes" [] q = "Size" -> "size" [] q = "Portfolio" -> "portfolio"
          [] q = "Stress" -> "stress" [] OTHER -> "funding"
  BY DEF Compute!Traits, Compute!HawkesTraits, Compute!SizeTraits, Compute!PortfolioTraits,
         Compute!StressTraits, Compute!FundingTraits
<1>4. \A q \in Own : /\ Compute!Traits(q).timer /\ Compute!Traits(q).tracked
                     /\ Compute!Traits(q).onlyWaiting
                     /\ Compute!Traits(q).atRequest \in BOOLEAN
                     /\ Compute!Traits(q).atResult \in BOOLEAN
                     /\ Compute!Traits(q).atRequest \/ Compute!Traits(q).atResult
  BY DEF Compute!Traits, Compute!HawkesTraits, Compute!SizeTraits, Compute!PortfolioTraits,
         Compute!StressTraits, Compute!FundingTraits
<1>5. \A q \in Own : Compute!Traits(p).slot = Compute!Traits(q).slot => p = q
  BY <1>2, <1>3
<1>6. QED
  BY <1>1, <1>2, <1>4, <1>5

\* A request that was made is a request, and not the empty slot.
LEMMA MadeIsTyped ==
  ASSUME ComputeInv, NEW r, Made(r)
  PROVE  r \in Compute!Requests /\ r # Compute!NoAnswer
<1>1. asked[r.panel] \in 0..MaxRequests
  BY DEF ComputeInv, Compute!TypeOK, Made
<1>2. r.id \in 1..MaxRequests
  BY <1>1, ComputeAssumption DEF Made
<1>3. r # Compute!NoAnswer
  <2>1. r.id # 0
    BY <1>2
  <2>2. Compute!NoAnswer.id = 0
    BY DEF Compute!NoAnswer
  <2>3. QED
    BY <2>1, <2>2
<1>4. QED
  BY <1>2, <1>3 DEF Made, Compute!Requests

\* The invariant holds at the start.
LEMMA ComputeInitial == Compute!Init => ComputeInv
<1> SUFFICES ASSUME Compute!Init PROVE ComputeInv
  OBVIOUS
<1>1. Compute!NoAnswer \in Compute!Requests
  BY DEF Compute!Requests
<1>2. Compute!TypeOK
  BY <1>1, ComputeAssumption DEF Compute!Init, Compute!TypeOK
<1>3. \A p \in Panels : slot[Compute!Traits(p).slot] = Compute!NoAnswer
  BY TraitsOfPanels DEF Compute!Init
<1>4. \A p \in Panels : shown[p].kind = "nothing"
  BY DEF Compute!Init
<1>5. QED
  BY <1>2, <1>3, <1>4 DEF ComputeInv, Compute!Init, ShownAreOwn, ComingAreOwn, Compute!TimeoutIsOwn

\* A click asks, with a timer of its own.
LEMMA ComputeClick ==
  ASSUME ComputeInv, NEW p \in Panels, Compute!Click(p)
  PROVE  ComputeInv'
<1>0. PICK new : new = Compute!Request(p, asked[p] + 1)
  OBVIOUS
<1>1. /\ asked \in [Panels -> 0..MaxRequests] /\ pending \in [Panels -> BOOLEAN]
      /\ shown \in [Panels -> [kind : {"nothing", "answer", "timeout"}, of : Compute!Requests]]
      /\ timers \subseteq Compute!Requests /\ inflight \subseteq Compute!Requests
      /\ handle = asked /\ Compute!NoAnswer \in Compute!Requests
      /\ asked[p] \in Nat /\ asked[p] < MaxRequests /\ MaxRequests \in Nat
      /\ asked' = [asked EXCEPT ![p] = @ + 1]
      /\ pending' = [pending EXCEPT ![p] = TRUE] /\ pending[p] = FALSE
  BY ComputeAssumption DEF ComputeInv, Compute!TypeOK, Compute!Click, Compute!Requests
<1>2. asked' \in [Panels -> 0..MaxRequests] /\ asked'[p] = asked[p] + 1
      /\ \A q \in Panels : q # p => asked'[q] = asked[q]
  BY <1>1
<1>3. handle' = asked'
  BY <1>1, TraitsOfPanels DEF Compute!Click
<1>4. \A r : Made(r) => Made(r)'
  <2> SUFFICES ASSUME NEW r, Made(r) PROVE Made(r)'
    OBVIOUS
  <2>1. asked[r.panel] \in Nat /\ asked[r.panel] <= asked'[r.panel] /\ asked'[r.panel] \in Nat
    BY <1>1, <1>2 DEF Made
  <2>2. QED
    BY <2>1 DEF Made
<1>5. Made(new)' /\ new.panel = p /\ new.id = asked'[p] /\ new \in Compute!Requests
  <2>1. new = [panel |-> p, id |-> asked[p] + 1] /\ new.panel = p /\ new.id = asked[p] + 1
    BY <1>0 DEF Compute!Request
  <2>2. asked[p] + 1 \in 1..MaxRequests
    BY <1>1
  <2>3. QED
    BY <2>1, <2>2, <1>1, <1>2 DEF Made, Compute!Request, Compute!Requests
<1>6. \A r \in timers' : r = new \/ (r \in timers /\ r.panel # p)
  <2> SUFFICES ASSUME NEW r \in timers', r # new PROVE r \in timers /\ r.panel # p
    OBVIOUS
  <2>1. r \in timers /\ ~(r = Compute!Request(p, handle[p]) /\ Compute!Traits(p).atRequest)
    BY <1>0 DEF Compute!Click
  <2>2. r.panel = p => r = Compute!Request(p, handle[p]) /\ ~Compute!Traits(p).atResult
    BY <2>1, <1>1 DEF ComputeInv, Made
  <2>3. QED
    BY <2>1, <2>2, TraitsOfPanels
<1>7. timers' \subseteq Compute!Requests
  BY <1>5, <1>6, <1>1
<1>8. inflight' = inflight \cup {new} /\ slot' = slot /\ taken' = taken /\ rendered' = FALSE
      /\ shown' = [shown EXCEPT ![p] = [kind |-> "nothing", of |-> Compute!NoAnswer]]
  BY <1>0 DEF Compute!Click
<1>9. Compute!TypeOK'
  <2>1. pending' \in [Panels -> BOOLEAN]
    BY <1>1
  <2>2. shown' \in [Panels -> [kind : {"nothing", "answer", "timeout"}, of : Compute!Requests]]
    BY <1>1, <1>8
  <2>3. alone' \in [Panels -> BOOLEAN]
    BY DEF ComputeInv, Compute!TypeOK, Compute!Click
  <2>4. QED
    BY <2>1, <2>2, <2>3, <1>1, <1>2, <1>3, <1>5, <1>7, <1>8 DEF ComputeInv, Compute!TypeOK
<1>10. \A r \in inflight' : Made(r)'
  BY <1>4, <1>5, <1>8 DEF ComputeInv
<1>11. \A q \in Panels : \/ slot'[Compute!Traits(q).slot] = Compute!NoAnswer
                         \/ /\ Made(slot[Compute!Traits(q).slot])'
                            /\ slot'[Compute!Traits(q).slot].panel = q
  BY <1>4, <1>8 DEF ComputeInv
<1>12. \A r \in timers' : /\ Made(r)' /\ r.id = asked'[r.panel]
                          /\ Compute!Traits(r.panel).atResult => pending'[r.panel]
  <2> SUFFICES ASSUME NEW r \in timers'
               PROVE  /\ Made(r)' /\ r.id = asked'[r.panel]
                      /\ Compute!Traits(r.panel).atResult => pending'[r.panel]
    OBVIOUS
  <2>1. CASE r = new
    BY <2>1, <1>5, <1>1
  <2>2. CASE r \in timers /\ r.panel # p
    BY <2>2, <1>1, <1>2, <1>4 DEF ComputeInv, Made
  <2>3. QED
    BY <2>1, <2>2, <1>6
<1>13. shown'[p].kind = "nothing" /\ \A q \in Panels : q # p => shown'[q] = shown[q]
  BY <1>1, <1>8
<1>14. Compute!TimeoutIsOwn'
  BY <1>13, <1>1, <1>2 DEF ComputeInv, Compute!TimeoutIsOwn
<1>15. alone \in [Panels -> BOOLEAN] /\ alone' \in [Panels -> BOOLEAN]
       /\ (\A q \in Panels : q # p => alone'[q] = alone[q])
       /\ (alone'[p] => /\ slot[Compute!Traits(p).slot] = Compute!NoAnswer
                        /\ \A r \in inflight : r.panel # p)
  BY DEF ComputeInv, Compute!TypeOK, Compute!Click
<1>16. ShownAreOwn'
  <2> SUFFICES ASSUME NEW q \in Panels, shown'[q].kind = "answer"
               PROVE  OwnAnswer(q, shown[q].of)'
    BY DEF ShownAreOwn
  <2>1. q # p /\ shown'[q] = shown[q] /\ asked'[q] = asked[q] /\ alone'[q] = alone[q]
    BY <1>13, <1>2, <1>15
  <2>2. QED
    BY <2>1 DEF ComputeInv, ShownAreOwn, OwnAnswer
<1>17. ComingAreOwn'
  <2> SUFFICES ASSUME NEW q \in Panels, alone'[q]
               PROVE  /\ \/ slot'[Compute!Traits(q).slot] = Compute!NoAnswer
                         \/ slot'[Compute!Traits(q).slot].id = asked'[q]
                      /\ \A r \in inflight' : r.panel = q => r.id = asked'[q]
    BY DEF ComingAreOwn
  <2>1. CASE q = p
    BY <2>1, <1>5, <1>8, <1>15
  <2>2. CASE q # p
    BY <2>2, <1>2, <1>5, <1>8, <1>15 DEF ComputeInv, ComingAreOwn
  <2>3. QED
    BY <2>1, <2>2
<1>18. QED
  BY <1>3, <1>8, <1>9, <1>10, <1>11, <1>12, <1>14, <1>16, <1>17 DEF ComputeInv

\* The bot answers, in any order.
LEMMA ComputeAnswer ==
  ASSUME ComputeInv, Compute!Answer
  PROVE  ComputeInv'
<1>1. PICK r \in inflight : /\ inflight' = inflight \ {r}
                            /\ slot' = [slot EXCEPT ![Compute!Traits(r.panel).slot] = r]
                            /\ rendered' = FALSE
                            /\ UNCHANGED <<asked, pending, shown, timers, handle, taken, alone>>
  BY DEF Compute!Answer
<1>2. Made(r) /\ r \in Compute!Requests /\ r.panel \in Panels
  BY MadeIsTyped DEF ComputeInv, Made
<1>3. \A s : Made(s) => Made(s)'
  BY <1>1 DEF Made
<1>4. slot \in [Compute!Slots -> Compute!Requests]
  BY DEF ComputeInv, Compute!TypeOK
<1>5. \A p \in Panels : slot'[Compute!Traits(p).slot]
                          = IF p = r.panel THEN r ELSE slot[Compute!Traits(p).slot]
  BY <1>1, <1>2, <1>4, TraitsOfPanels
<1>6. \A p \in Panels : \/ slot'[Compute!Traits(p).slot] = Compute!NoAnswer
                        \/ /\ Made(slot[Compute!Traits(p).slot])'
                           /\ slot'[Compute!Traits(p).slot].panel = p
  <2> SUFFICES ASSUME NEW p \in Panels, NEW v, v = slot'[Compute!Traits(p).slot]
               PROVE  v = Compute!NoAnswer \/ (Made(v)' /\ v.panel = p)
    BY DEF Made
  <2>1. CASE p = r.panel
    BY <2>1, <1>2, <1>3, <1>5
  <2>2. CASE p # r.panel
    BY <2>2, <1>3, <1>5 DEF ComputeInv
  <2>3. QED
    BY <2>1, <2>2
<1>7. Compute!TypeOK'
  BY <1>1, <1>2, <1>4 DEF ComputeInv, Compute!TypeOK
<1>8. (\A s \in inflight' : Made(s)') /\ handle' = asked'
  BY <1>1, <1>3 DEF ComputeInv
<1>9. \A s \in timers' : /\ Made(s)' /\ s.id = asked'[s.panel]
                         /\ Compute!Traits(s.panel).atResult => pending'[s.panel]
  BY <1>1, <1>3 DEF ComputeInv
<1>10. ShownAreOwn' /\ Compute!TimeoutIsOwn'
  BY <1>1 DEF ComputeInv, ShownAreOwn, OwnAnswer, Compute!TimeoutIsOwn
<1>11. ComingAreOwn'
  <2> SUFFICES ASSUME NEW p \in Panels, alone[p]
               PROVE  /\ \/ slot'[Compute!Traits(p).slot] = Compute!NoAnswer
                         \/ slot'[Compute!Traits(p).slot].id = asked[p]
                      /\ \A s \in inflight' : s.panel = p => s.id = asked[p]
    BY <1>1 DEF ComingAreOwn
  <2>1. \A s \in inflight : s.panel = p => s.id = asked[p]
    BY DEF ComputeInv, ComingAreOwn
  <2>2. CASE p = r.panel
    BY <2>1, <2>2, <1>1, <1>5
  <2>3. CASE p # r.panel
    BY <2>1, <2>3, <1>1, <1>5 DEF ComputeInv, ComingAreOwn
  <2>4. QED
    BY <2>2, <2>3
<1>12. QED
  BY <1>1, <1>6, <1>7, <1>8, <1>9, <1>10, <1>11 DEF ComputeInv

\* A request or its answer is lost.
LEMMA ComputeLose ==
  ASSUME ComputeInv, Compute!Lose
  PROVE  ComputeInv'
<1>1. inflight' \subseteq inflight
      /\ UNCHANGED <<asked, pending, shown, timers, handle, slot, taken, rendered, alone>>
  BY DEF Compute!Lose
<1>2. \A s : Made(s) <=> Made(s)'
  BY <1>1 DEF Made
<1>3. Compute!TypeOK' /\ ShownAreOwn' /\ ComingAreOwn' /\ Compute!TimeoutIsOwn'
  BY <1>1 DEF ComputeInv, Compute!TypeOK, ShownAreOwn, ComingAreOwn, OwnAnswer, Compute!TimeoutIsOwn
<1>4. \A p \in Panels : \/ slot'[Compute!Traits(p).slot] = Compute!NoAnswer
                        \/ /\ Made(slot[Compute!Traits(p).slot])'
                           /\ slot'[Compute!Traits(p).slot].panel = p
  BY <1>1 DEF ComputeInv, Made
<1>5. QED
  BY <1>1, <1>2, <1>3, <1>4 DEF ComputeInv

\* The effect takes the answer in the slot.
LEMMA ComputeRender ==
  ASSUME ComputeInv, Compute!Render
  PROVE  ComputeInv'
<1>1. /\ rendered' = TRUE /\ UNCHANGED <<asked, handle, inflight, slot, alone>>
      /\ taken' = [p \in Panels |-> slot[Compute!Traits(p).slot]]
      /\ pending' = [p \in Panels |-> pending[p] /\ ~Compute!Takes(p)]
      /\ shown' = [p \in Panels |-> IF Compute!Takes(p) /\ ~Compute!Traits(p).direct
                                    THEN [kind |-> "answer", of |-> slot[Compute!Traits(p).slot]]
                                    ELSE shown[p]]
      /\ timers' = timers \ {Compute!Request(p, handle[p]) :
                               p \in {q \in Panels : Compute!Takes(q) /\ Compute!Traits(q).atResult}}
  BY DEF Compute!Render
<1>2. \A s : Made(s) <=> Made(s)'
  BY <1>1 DEF Made
<1>3. \A p \in Panels : Compute!Takes(p) =>
        /\ pending[p] /\ slot[Compute!Traits(p).slot] \in Compute!Requests
        /\ Made(slot[Compute!Traits(p).slot]) /\ slot[Compute!Traits(p).slot].panel = p
        /\ alone[p] => slot[Compute!Traits(p).slot].id = asked[p]
  BY TraitsOfPanels DEF ComputeInv, ComingAreOwn, Compute!Takes, Compute!TypeOK
<1>4. \A p \in Panels : slot[Compute!Traits(p).slot] \in Compute!Requests
  BY TraitsOfPanels DEF ComputeInv, Compute!TypeOK
<1>5. Compute!TypeOK'
  <2>1. shown' \in [Panels -> [kind : {"nothing", "answer", "timeout"}, of : Compute!Requests]]
    BY <1>1, <1>3 DEF ComputeInv, Compute!TypeOK
  <2>2. pending' \in [Panels -> BOOLEAN] /\ taken' \in [Panels -> Compute!Requests]
    BY <1>1, <1>4
  <2>3. QED
    BY <2>1, <2>2, <1>1 DEF ComputeInv, Compute!TypeOK
<1>6. \A r \in timers' : /\ Made(r)' /\ r.id = asked'[r.panel]
                         /\ Compute!Traits(r.panel).atResult => pending'[r.panel]
  <2> SUFFICES ASSUME NEW r \in timers'
               PROVE  /\ Made(r)' /\ r.id = asked'[r.panel]
                      /\ Compute!Traits(r.panel).atResult => pending'[r.panel]
    OBVIOUS
  <2>1. r \in timers /\ Made(r) /\ r.id = asked[r.panel] /\ r.panel \in Panels
        /\ r = Compute!Request(r.panel, handle[r.panel])
    BY <1>1 DEF ComputeInv, Made
  <2>2. Compute!Traits(r.panel).atResult => ~Compute!Takes(r.panel)
    BY <1>1, <2>1
  <2>3. Compute!Traits(r.panel).atResult => pending[r.panel]
    BY <2>1 DEF ComputeInv
  <2>4. QED
    BY <1>1, <1>2, <2>1, <2>2, <2>3
<1>7. ShownAreOwn'
  <2> SUFFICES ASSUME NEW p \in Panels, shown'[p].kind = "answer"
               PROVE  OwnAnswer(p, shown[p].of)'
    BY DEF ShownAreOwn
  <2>1. asked[p] \in 0..MaxRequests
    BY DEF ComputeInv, Compute!TypeOK
  <2>2. CASE Compute!Takes(p) /\ ~Compute!Traits(p).direct
    <3>1. shown'[p].of = slot[Compute!Traits(p).slot]
      BY <1>1, <2>2
    <3>2. QED
      BY <3>1, <2>1, <2>2, <1>1, <1>3, ComputeAssumption DEF Made, OwnAnswer
  <2>3. CASE ~(Compute!Takes(p) /\ ~Compute!Traits(p).direct)
    <3>1. shown'[p] = shown[p]
      BY <2>3, <1>1
    <3>2. QED
      BY <3>1, <1>1 DEF ComputeInv, ShownAreOwn, OwnAnswer
  <2>4. QED
    BY <2>2, <2>3
<1>8. Compute!TimeoutIsOwn'
  <2> SUFFICES ASSUME NEW p \in Panels, shown'[p].kind = "timeout", ~pending'[p]
               PROVE  shown'[p].of.id = asked'[p]
    BY DEF Compute!TimeoutIsOwn
  <2>1. ~(Compute!Takes(p) /\ ~Compute!Traits(p).direct)
    BY <1>1
  <2>2. shown'[p] = shown[p] /\ (Compute!Takes(p) => Compute!Traits(p).direct)
        /\ (~Compute!Takes(p) => ~pending[p])
    BY <2>1, <1>1
  <2>3. Compute!Traits(p).direct => shown[p].kind # "timeout"
    BY DEF ComputeInv
  <2>4. QED
    BY <2>2, <2>3, <1>1 DEF ComputeInv, Compute!TimeoutIsOwn
<1>9. \A p \in Panels : \/ slot'[Compute!Traits(p).slot] = Compute!NoAnswer
                        \/ /\ Made(slot[Compute!Traits(p).slot])'
                           /\ slot'[Compute!Traits(p).slot].panel = p
  BY <1>1 DEF ComputeInv, Made
<1>10. ComingAreOwn'
  BY <1>1 DEF ComputeInv, ComingAreOwn
<1>11. \A p \in Panels : Compute!Traits(p).direct => shown'[p].kind # "timeout"
  BY <1>1 DEF ComputeInv
<1>12. QED
  BY <1>1, <1>2, <1>5, <1>6, <1>7, <1>8, <1>9, <1>10, <1>11 DEF ComputeInv

\* A timer fires.
LEMMA ComputeTimeout ==
  ASSUME ComputeInv, NEW p \in Panels, Compute!Timeout(p)
  PROVE  ComputeInv'
<1>1. PICK r \in timers :
        /\ r.panel = p /\ timers' = timers \ {r}
        /\ IF pending[p]
           THEN /\ pending' = [pending EXCEPT ![p] = FALSE]
                /\ shown' = [shown EXCEPT ![p] = IF Compute!Traits(p).direct THEN @
                                                 ELSE [kind |-> "timeout", of |-> r]]
                /\ rendered' = FALSE
           ELSE UNCHANGED <<pending, shown, rendered>>
        /\ UNCHANGED <<asked, handle, inflight, slot, taken, alone>>
  BY DEF Compute!Timeout
<1>2. r \in Compute!Requests /\ r.id = asked[p] /\ pending \in [Panels -> BOOLEAN]
      /\ shown \in [Panels -> [kind : {"nothing", "answer", "timeout"}, of : Compute!Requests]]
  BY <1>1 DEF ComputeInv, Compute!TypeOK
<1>3. \A s : Made(s) <=> Made(s)'
  BY <1>1 DEF Made
<1>4. pending' \in [Panels -> BOOLEAN] /\ (\A q \in Panels : q # p => pending'[q] = pending[q])
  BY <1>1, <1>2
<1>5. shown' \in [Panels -> [kind : {"nothing", "answer", "timeout"}, of : Compute!Requests]]
      /\ (\A q \in Panels : q # p => shown'[q] = shown[q])
  BY <1>1, <1>2
<1>6. Compute!TypeOK'
  BY <1>1, <1>4, <1>5 DEF ComputeInv, Compute!TypeOK
<1>7. \A s \in timers' : /\ Made(s)' /\ s.id = asked'[s.panel]
                         /\ Compute!Traits(s.panel).atResult => pending'[s.panel]
  <2> SUFFICES ASSUME NEW s \in timers'
               PROVE  /\ Made(s)' /\ s.id = asked'[s.panel]
                      /\ Compute!Traits(s.panel).atResult => pending'[s.panel]
    OBVIOUS
  <2>1. s \in timers /\ s # r
    BY <1>1
  <2>2. s.panel # p
    BY <2>1, <1>1, <1>2 DEF ComputeInv, Made
  <2>3. s.panel \in Panels
    BY <2>1 DEF ComputeInv, Made
  <2>4. QED
    BY <2>1, <2>2, <2>3, <1>1, <1>3, <1>4 DEF ComputeInv
<1>8. \/ shown' = shown
      \/ Compute!Traits(p).direct /\ shown'[p] = shown[p]
      \/ ~Compute!Traits(p).direct /\ shown'[p] = [kind |-> "timeout", of |-> r]
  BY <1>1, <1>2
<1>9. ShownAreOwn' /\ (\A q \in Panels : Compute!Traits(q).direct => shown'[q].kind # "timeout")
  BY <1>8, <1>1, <1>5 DEF ComputeInv, ShownAreOwn, OwnAnswer
<1>10. Compute!TimeoutIsOwn'
  <2>1. CASE pending[p] /\ ~Compute!Traits(p).direct
    BY <2>1, <1>8, <1>1, <1>2, <1>4, <1>5 DEF ComputeInv, Compute!TimeoutIsOwn
  <2>2. CASE pending[p] /\ Compute!Traits(p).direct
    BY <2>2, <1>9, <1>1, <1>4, <1>5 DEF ComputeInv, Compute!TimeoutIsOwn
  <2>3. CASE ~pending[p]
    BY <1>1, <2>3 DEF ComputeInv, Compute!TimeoutIsOwn
  <2>4. QED
    BY <2>1, <2>2, <2>3
<1>11. ComingAreOwn'
  BY <1>1 DEF ComputeInv, ComingAreOwn
<1>12. \A q \in Panels : \/ slot'[Compute!Traits(q).slot] = Compute!NoAnswer
                        \/ /\ Made(slot[Compute!Traits(q).slot])'
                           /\ slot'[Compute!Traits(q).slot].panel = q
  BY <1>1 DEF ComputeInv, Made
<1>13. QED
  BY <1>1, <1>3, <1>6, <1>7, <1>9, <1>10, <1>11, <1>12 DEF ComputeInv

\* Every step keeps the invariant.
LEMMA ComputeStep == ComputeInv /\ (Compute!Next \/ UNCHANGED computeVars) => ComputeInv'
<1>1. ASSUME ComputeInv, UNCHANGED computeVars PROVE ComputeInv'
  BY <1>1 DEF ComputeInv, computeVars, Made, Compute!TypeOK, ShownAreOwn, OwnAnswer, ComingAreOwn,
              Compute!TimeoutIsOwn
<1>2. QED
  BY <1>1, ComputeClick, ComputeAnswer, ComputeLose, ComputeRender, ComputeTimeout
  DEF Compute!Next

\* What it says about the panels.
LEMMA ComputeSound ==
  ComputeInv => Compute!TypeOK /\ Compute!AnswersAreOwn /\ Compute!TimeoutIsOwn
                /\ Compute!TimersAreCurrent
<1> SUFFICES ASSUME ComputeInv
             PROVE  Compute!TypeOK /\ Compute!AnswersAreOwn /\ Compute!TimeoutIsOwn
                    /\ Compute!TimersAreCurrent
  OBVIOUS
<1>1. Compute!AnswersAreOwn
  <2> SUFFICES ASSUME NEW p \in Panels, Compute!Displayed(p).kind = "answer"
               PROVE  OwnAnswer(p, Compute!Displayed(p).of)
    BY DEF Compute!AnswersAreOwn, OwnAnswer
  <2>1. CASE ~Compute!Traits(p).direct
    BY <2>1 DEF ComputeInv, ShownAreOwn, Compute!Displayed
  <2>2. CASE Compute!Traits(p).direct
    <3>1. Compute!Displayed(p).of = slot[Compute!Traits(p).slot]
          /\ slot[Compute!Traits(p).slot] # Compute!NoAnswer
      BY <2>2 DEF Compute!Displayed
    <3>2. asked[p] \in 0..MaxRequests
      BY DEF ComputeInv, Compute!TypeOK
    <3>3. QED
      BY <3>1, <3>2, ComputeAssumption DEF ComputeInv, ComingAreOwn, OwnAnswer, Made
  <2>3. QED
    BY <2>1, <2>2
<1>2. QED
  BY <1>1 DEF ComputeInv, Compute!TimersAreCurrent

-----------------------------------------------------------------------------
(***************************************************************************)
(* The tournament.                                                         *)
(***************************************************************************)

\* What is on its way and what the slot holds names a strategy and a tournament so far.
CupInv ==
  /\ Cup!TypeOK /\ Cup!RunningAccountsForAll /\ Cup!TimerIsOwn
  /\ cupSlot.round \in 0..MaxRounds
  /\ \A q \in cupInflight : q.strategy \in Strategies /\ q.round \in 0..MaxRounds

\* A timer that waits is not the idle one.
LEMMA WaitingIsNotIdle == \A S : Cup!Waiting(S) # Cup!Idle /\ Cup!Waiting(S).for = S
<1> SUFFICES ASSUME NEW S PROVE Cup!Waiting(S) # Cup!Idle /\ Cup!Waiting(S).for = S
  OBVIOUS
<1>1. DOMAIN Cup!Waiting(S) = {"for"} /\ DOMAIN Cup!Idle = {"idle"}
  BY DEF Cup!Waiting, Cup!Idle
<1>2. "for" # "idle"
  OBVIOUS
<1>3. QED
  BY <1>1, <1>2 DEF Cup!Waiting

\* The tournament counts with the Cardinality of FiniteSets.
LEMMA CupCardinality == \A S : Cup!Cardinality(S) = Cardinality(S)
BY DEF Cup!Cardinality, Cardinality

\* The invariant holds at the start.
LEMMA CupInitial == Cup!Init => CupInv
<1> SUFFICES ASSUME Cup!Init PROVE CupInv
  OBVIOUS
<1>1. ~Cup!Running /\ timer = Cup!Idle
  BY DEF Cup!Init, Cup!Running
<1>2. cupSlot.round = 0 /\ round = 0 /\ cupInflight = {}
  BY DEF Cup!Init, Cup!NoAnswer, Cup!Request
<1>3. Cup!TypeOK
  <2>1. round \in 0..MaxRounds
    BY <1>2, CupAssumption
  <2>2. due \in BOOLEAN /\ selected \subseteq Strategies /\ collected = {} /\ wanted = {}
    BY DEF Cup!Init
  <2>3. QED
    BY <2>1, <2>2, <1>1 DEF Cup!TypeOK
<1>4. cupSlot.round \in 0..MaxRounds
  BY <1>2, CupAssumption
<1>5. Cup!RunningAccountsForAll /\ Cup!TimerIsOwn
  BY <1>1 DEF Cup!RunningAccountsForAll, Cup!TimerIsOwn, Cup!Running
<1>6. QED
  BY <1>2, <1>3, <1>4, <1>5 DEF CupInv

\* A tournament starts: one request per strategy.
LEMMA CupRun ==
  ASSUME CupInv, Cup!RunTournament
  PROVE  CupInv'
<1>1. /\ collected' = {} /\ cupPending' = Cup!Waiting(selected) /\ timer' = Cup!Waiting(selected)
      /\ wanted' = selected
      /\ cupInflight' = cupInflight \cup {Cup!Request(s, round + 1) : s \in selected}
      /\ round' = round + 1 /\ due' = TRUE /\ selected' = selected /\ cupSlot' = cupSlot
      /\ round < MaxRounds /\ Cardinality(selected) >= 2 /\ selected \subseteq Strategies
      /\ round \in 0..MaxRounds
  BY CupCardinality DEF Cup!RunTournament, CupInv, Cup!TypeOK
<1>2. selected # {}
  BY <1>1, FS_EmptySet
<1>3. round' \in 0..MaxRounds
  BY <1>1, CupAssumption
<1>4. Cup!Running' /\ cupPending'.for = selected /\ timer' # Cup!Idle
  BY <1>1, WaitingIsNotIdle DEF Cup!Running
<1>5. Cup!Has' = {}
  BY <1>1 DEF Cup!Has
<1>6. Cup!TypeOK'
  BY <1>1, <1>2, <1>3, <1>4 DEF Cup!TypeOK
<1>7. Cup!RunningAccountsForAll'
  <2>1. selected \cup {} = selected /\ selected \cap {} = {}
    OBVIOUS
  <2>2. QED
    BY <2>1, <1>1, <1>4, <1>5 DEF Cup!RunningAccountsForAll
<1>8. \A q \in cupInflight' : q.strategy \in Strategies /\ q.round \in 0..MaxRounds
  BY <1>1, <1>3 DEF CupInv, Cup!Request
<1>9. QED
  BY <1>1, <1>4, <1>6, <1>7, <1>8 DEF CupInv, Cup!TimerIsOwn

\* An answer is collected, the last one ends the tournament.
LEMMA CupCollect ==
  ASSUME CupInv, Cup!Collect
  PROVE  CupInv'
<1>1. UNCHANGED <<selected, wanted, cupSlot, round, cupInflight>>
  BY DEF Cup!Collect
<1>2. CASE ~Cup!Takes
  BY <1>1, <1>2 DEF CupInv, Cup!Collect, Cup!TypeOK, Cup!RunningAccountsForAll, Cup!TimerIsOwn,
                    Cup!Running, Cup!Has
<1>3. CASE Cup!Takes
  <2>1. PICK s, left, with : /\ s = cupSlot.strategy /\ left = cupPending.for \ {s}
                             /\ with = collected \cup {<<s, cupSlot.round>>}
    OBVIOUS
  <2>2. /\ Cup!Running /\ s \in cupPending.for /\ s \notin Cup!Has
        /\ cupPending.for \subseteq Strategies /\ cupPending.for \cap Cup!Has = {}
        /\ cupPending.for \cup Cup!Has = wanted
    BY <1>3, <2>1 DEF Cup!Takes, CupInv, Cup!TypeOK, Cup!RunningAccountsForAll
  <2>3. /\ due' = TRUE /\ collected' = with
        /\ left = {} => cupPending' = Cup!Idle /\ timer' = Cup!Idle
        /\ left # {} => cupPending' = Cup!Waiting(left) /\ timer' = timer /\ results' = results
    BY <1>3, <2>1 DEF Cup!Collect
  <2>4. Cup!Has' = Cup!Has \cup {s}
    <3>1. <<s, cupSlot.round>>[1] = s /\ collected' = collected \cup {<<s, cupSlot.round>>}
      BY <2>1, <2>3
    <3>2. \A x : x \in Cup!Has' <=> x \in Cup!Has \/ x = s
      BY <3>1 DEF Cup!Has
    <3>3. QED
      BY <3>2
  <2>5. collected' \subseteq Strategies \X (0..MaxRounds)
    BY <2>1, <2>2, <2>3 DEF CupInv, Cup!TypeOK
  <2>6. \A c, d \in collected' : c[1] = d[1] => c = d
    <3>1. \A c \in collected : c[1] # s
      BY <2>2 DEF Cup!Has
    <3>2. \A c \in collected' : c \in collected \/ (c = <<s, cupSlot.round>> /\ c[1] = s)
      BY <2>1, <2>3
    <3>3. \A c, d \in collected : c[1] = d[1] => c = d
      BY DEF CupInv, Cup!TypeOK
    <3>4. QED
      BY <3>1, <3>2, <3>3
  <2>7. CASE left = {}
    <3>1. ~Cup!Running' /\ timer' = Cup!Idle
      BY <2>3, <2>7 DEF Cup!Running
    <3>2. Cup!TypeOK'
      BY <3>1, <1>1, <2>3, <2>5, <2>6 DEF CupInv, Cup!TypeOK
    <3>3. Cup!RunningAccountsForAll' /\ Cup!TimerIsOwn'
      BY <3>1 DEF Cup!RunningAccountsForAll, Cup!TimerIsOwn, Cup!Running
    <3>4. QED
      BY <3>2, <3>3, <1>1 DEF CupInv
  <2>8. CASE left # {}
    <3>1. Cup!Running' /\ cupPending'.for = left /\ timer' = timer /\ results' = results
      BY <2>3, <2>8, WaitingIsNotIdle DEF Cup!Running
    <3>2. left \cup (Cup!Has \cup {s}) = cupPending.for \cup Cup!Has
          /\ left \cap (Cup!Has \cup {s}) = {} /\ left \subseteq Strategies
      BY <2>1, <2>2
    <3>3. Cup!RunningAccountsForAll' /\ Cup!TimerIsOwn'
      BY <3>1, <3>2, <2>2, <2>4, <1>1 DEF CupInv, Cup!RunningAccountsForAll, Cup!TimerIsOwn,
                                          Cup!NoBoard
    <3>4. Cup!TypeOK'
      BY <3>1, <3>2, <1>1, <2>3, <2>5, <2>6, <2>8 DEF CupInv, Cup!TypeOK
    <3>5. QED
      BY <3>3, <3>4, <1>1 DEF CupInv
  <2>9. QED
    BY <2>7, <2>8
<1>4. QED
  BY <1>2, <1>3

\* The timer makes the leaderboard, or the panel is opened again.
LEMMA CupEnds ==
  ASSUME CupInv, Cup!Timeout \/ Cup!Reopen
  PROVE  CupInv'
<1>1. CASE Cup!Timeout
  <2>1. /\ timer # Cup!Idle /\ timer' = Cup!Idle /\ Cup!Running /\ timer = Cup!Waiting(wanted)
        /\ results' = Cup!Leaderboard(timer.for, collected)
        /\ (cupPending' = cupPending /\ due' = due) \/ (cupPending' = Cup!Idle /\ due' = TRUE)
        /\ UNCHANGED <<selected, wanted, collected, cupSlot, round, cupInflight>>
    BY <1>1 DEF CupInv, Cup!TimerIsOwn, Cup!Timeout
  <2>2. results' # Cup!NoBoard
    <3>1. wanted # {} /\ timer.for = wanted
      BY <2>1, WaitingIsNotIdle DEF CupInv, Cup!RunningAccountsForAll, Cup!TypeOK
    <3>2. PICK s : s \in wanted
      BY <3>1
    <3>3. QED
      BY <2>1, <3>1, <3>2 DEF Cup!Leaderboard, Cup!NoBoard
  <2>3. CASE cupPending' = cupPending /\ due' = due
    BY <2>1, <2>2, <2>3 DEF CupInv, Cup!TypeOK, Cup!RunningAccountsForAll, Cup!TimerIsOwn,
                            Cup!Running, Cup!Has
  <2>4. CASE cupPending' = Cup!Idle /\ due' = TRUE
    BY <2>1, <2>4 DEF CupInv, Cup!TypeOK, Cup!RunningAccountsForAll, Cup!TimerIsOwn, Cup!Running
  <2>5. QED
    BY <2>1, <2>3, <2>4
<1>2. CASE Cup!Reopen
  BY <1>2 DEF Cup!Reopen, CupInv, Cup!TypeOK, Cup!RunningAccountsForAll, Cup!TimerIsOwn,
              Cup!Running
<1>3. QED
  BY <1>1, <1>2

\* The selection, answers under way, lost ones and those of others do not disturb it.
LEMMA CupOthers ==
  ASSUME CupInv,
         \/ \E s \in Strategies : Cup!ToggleStrategy(s) \/ Cup!OtherAnswer(s)
         \/ \E q \in cupInflight : Cup!Answer(q) \/ Cup!Lose(q)
  PROVE  CupInv'
<1>1. /\ UNCHANGED <<wanted, cupPending, collected, results, timer, round>>
      /\ selected' \subseteq Strategies /\ due' \in BOOLEAN
      /\ cupInflight' \subseteq cupInflight
  BY DEF CupInv, Cup!TypeOK, Cup!ToggleStrategy, Cup!OtherAnswer, Cup!Answer, Cup!Lose
<1>2. cupSlot'.round \in 0..MaxRounds
  BY CupAssumption DEF CupInv, Cup!ToggleStrategy, Cup!OtherAnswer, Cup!Answer, Cup!Lose, Cup!Request
<1>3. QED
  BY <1>1, <1>2 DEF CupInv, Cup!TypeOK, Cup!RunningAccountsForAll, Cup!TimerIsOwn, Cup!Running,
                    Cup!Has, Cup!NoBoard

\* Every step keeps the invariant.
LEMMA CupStep == CupInv /\ (Cup!Next \/ UNCHANGED cupVars) => CupInv'
<1>1. ASSUME CupInv, UNCHANGED cupVars PROVE CupInv'
  BY <1>1 DEF cupVars, CupInv, Cup!TypeOK, Cup!RunningAccountsForAll, Cup!TimerIsOwn,
              Cup!Running, Cup!Has
<1>2. QED
  BY <1>1, CupRun, CupCollect, CupEnds, CupOthers DEF Cup!Next

-----------------------------------------------------------------------------
(***************************************************************************)
(* The pause and speed controls and the broadcast loop.                    *)
(***************************************************************************)

ClockAnswers == [type : {"replay_state"}, paused : BOOLEAN]
ClockCandles == [type : {"candles"}, cs : SUBSET (1..MaxCandles)]
ClockRequests ==
  [type : {"set_speed"}, speed : Clock!Speeds] \cup [type : {"replay"}, action : {"pause", "resume"}]
    \cup [type : {"replay"}, action : {"scrub"}, offset : 0..MaxCandles - 1]

\* A browser that believes b and has still to receive d will then believe p.
Believes(d, b, p) ==
  /\ (\A i \in 1..Len(d) : d[i].type # "replay_state") => b = p
  /\ \A i \in 1..Len(d) :
       /\ d[i].type = "replay_state"
       /\ \A j \in 1..Len(d) : i < j => d[j].type # "replay_state"
       => d[i].paused = p

\* The candles in d are among the first n.
Ranges(d, n) == \A i \in 1..Len(d) : d[i].type = "candles" => d[i].cs \subseteq 1..n

ClockTypes ==
  /\ Clock!TypeOK
  /\ clockUp \in Seq(ClockRequests) /\ clockDown \in Seq(ClockAnswers \cup ClockCandles)
  /\ Ranges(clockDown, made)
  /\ since \in Nat

\* What the browser will believe is the server's flag, and while the server is paused at
\* most one candle was made since, none before the sleep that had begun is over.
ClockInv ==
  /\ ClockTypes
  /\ Believes(clockDown, replayPaused, paused)
  /\ paused => since <= 1
  /\ paused /\ loop = "sleep" => since = 0

-----------------------------------------------------------------------------
\* The clock counts with the Cardinality of FiniteSets.
LEMMA ClockCardinality == \A S : Clock!Cardinality(S) = Cardinality(S)
BY DEF Clock!Cardinality, Cardinality

\* A replay_state, now last, decides what will be believed.
LEMMA BelievesState ==
  ASSUME NEW M, NEW d \in Seq(M), NEW m \in M, m.type = "replay_state", NEW b
  PROVE  Believes(Append(d, m), b, m.paused)
<1>1. Len(Append(d, m)) = Len(d) + 1 /\ Append(d, m)[Len(d) + 1] = m /\ Len(d) \in Nat
  OBVIOUS
<1>2. \A i \in 1..Len(d) + 1 : i # Len(d) + 1 => i < Len(d) + 1
  BY <1>1
<1>3. Len(d) + 1 \in 1..Len(d) + 1
  BY <1>1
<1>4. QED
  BY <1>1, <1>2, <1>3 DEF Believes

\* A candle decides nothing.
LEMMA BelievesOther ==
  ASSUME NEW M, NEW d \in Seq(M), NEW m \in M, m.type # "replay_state", NEW b, NEW p,
         Believes(d, b, p)
  PROVE  Believes(Append(d, m), b, p)
<1>1. /\ Len(Append(d, m)) = Len(d) + 1 /\ Append(d, m)[Len(d) + 1] = m /\ Len(d) \in Nat
      /\ \A i \in 1..Len(d) : Append(d, m)[i] = d[i]
  OBVIOUS
<1>2. \A i \in 1..Len(d) + 1 : i = Len(d) + 1 \/ i \in 1..Len(d)
  BY <1>1
<1>3. \A i \in 1..Len(d) : i \in 1..Len(d) + 1
  BY <1>1
<1>4. QED
  BY <1>1, <1>2, <1>3 DEF Believes

\* Receiving a message applies it.
LEMMA BelievesTail ==
  ASSUME NEW M, NEW d \in Seq(M), d # <<>>, NEW b, NEW p, Believes(d, b, p)
  PROVE  Believes(Tail(d), IF Head(d).type = "replay_state" THEN Head(d).paused ELSE b, p)
<1>1. /\ Len(d) \in Nat /\ 1 <= Len(d) /\ Len(Tail(d)) = Len(d) - 1 /\ Head(d) = d[1]
      /\ \A i \in 1..Len(d) - 1 : Tail(d)[i] = d[i + 1]
  OBVIOUS
<1>2. ASSUME \A i \in 1..Len(Tail(d)) : Tail(d)[i].type # "replay_state"
      PROVE  (IF Head(d).type = "replay_state" THEN Head(d).paused ELSE b) = p
  <2>1. \A i \in 1..Len(d) : i # 1 => d[i].type # "replay_state"
    <3> SUFFICES ASSUME NEW i \in 1..Len(d), i # 1 PROVE d[i].type # "replay_state"
      OBVIOUS
    <3>1. i - 1 \in 1..Len(d) - 1 /\ (i - 1) + 1 = i
      BY <1>1
    <3>2. QED
      BY <3>1, <1>1, <1>2
  <2>2. 1 \in 1..Len(d) /\ \A j \in 1..Len(d) : 1 < j => j # 1
    BY <1>1
  <2>3. QED
    BY <1>1, <2>1, <2>2 DEF Believes
<1>3. ASSUME NEW i \in 1..Len(Tail(d)), Tail(d)[i].type = "replay_state",
             \A j \in 1..Len(Tail(d)) : i < j => Tail(d)[j].type # "replay_state"
      PROVE  Tail(d)[i].paused = p
  <2>1. i + 1 \in 1..Len(d) /\ Tail(d)[i] = d[i + 1]
    BY <1>1, <1>3
  <2>2. \A j \in 1..Len(d) : i + 1 < j => d[j].type # "replay_state"
    <3> SUFFICES ASSUME NEW j \in 1..Len(d), i + 1 < j PROVE d[j].type # "replay_state"
      OBVIOUS
    <3>1. j - 1 \in 1..Len(d) - 1 /\ (j - 1) + 1 = j /\ i < j - 1
      BY <1>1, <1>3
    <3>2. QED
      BY <3>1, <1>1, <1>3
  <2>3. QED
    BY <2>1, <2>2, <1>3 DEF Believes
<1>4. QED
  BY <1>2, <1>3 DEF Believes

\* Candles that exist are sent.
LEMMA RangesAppend ==
  ASSUME NEW M, NEW d \in Seq(M), NEW m \in M, NEW n \in Nat, NEW k \in Nat, n <= k,
         Ranges(d, n), m.type = "candles" => m.cs \subseteq 1..k
  PROVE  Ranges(Append(d, m), k)
<1>1. 1..n \subseteq 1..k
  OBVIOUS
<1>2. SUFFICES ASSUME NEW i \in 1..Len(Append(d, m)), Append(d, m)[i].type = "candles"
               PROVE  Append(d, m)[i].cs \subseteq 1..k
  BY DEF Ranges
<1>3. CASE i = Len(d) + 1
  BY <1>3, <1>2, AppendFacts
<1>4. CASE i # Len(d) + 1
  <2>1. i \in 1..Len(d) /\ Append(d, m)[i] = d[i]
    BY <1>4, AppendFacts
  <2>2. QED
    BY <2>1, <1>1, <1>2 DEF Ranges
<1>5. QED
  BY <1>3, <1>4

-----------------------------------------------------------------------------
\* The invariant holds at the start.
LEMMA ClockInitial == Clock!Init => ClockInv
<1> SUFFICES ASSUME Clock!Init PROVE ClockInv
  OBVIOUS
<1>1. made = 1 /\ have = {1} /\ since = 0 /\ clicks = 0 /\ offset = 0 /\ scrubOffset = 0 /\ debounce = -1
  BY DEF Clock!Init, Clock!NoTimer
<1>2. made \in 1..MaxCandles /\ have \subseteq 1..made /\ clicks \in 0..MaxClicks
      /\ offset \in 0..MaxCandles - 1 /\ scrubOffset \in 0..MaxCandles - 1
      /\ debounce \in -1..MaxCandles - 1
  BY <1>1, ClockAssumption
<1>3. Clock!TypeOK
  <2>1. /\ paused \in BOOLEAN /\ speedEvent \in BOOLEAN /\ replayPaused \in BOOLEAN
        /\ loop \in {"check", "wait", "woken", "sleep"} /\ clockAsked \in {"nothing", "pause", "resume"}
    BY DEF Clock!Init
  <2>2. tickSpeed \in Clock!Speeds \ {0} /\ simSpeed \in Clock!Speeds
    BY DEF Clock!Init, Clock!Speeds
  <2>3. QED
    BY <2>1, <2>2, <1>2 DEF Clock!TypeOK
<1>4. clockUp = <<>> /\ clockDown = <<>> /\ replayPaused = FALSE /\ paused = FALSE
  BY DEF Clock!Init
<1>5. Believes(clockDown, replayPaused, paused)
  <2>1. Len(clockDown) = 0 /\ ~ \E i \in 1..0 : TRUE
    BY <1>4
  <2>2. QED
    BY <2>1, <1>4 DEF Believes
<1>6. Ranges(clockDown, made)
  <2>1. Len(clockDown) = 0 /\ ~ \E i \in 1..0 : TRUE
    BY <1>4
  <2>2. QED
    BY <2>1 DEF Ranges
<1>7. QED
  BY <1>1, <1>3, <1>4, <1>5, <1>6 DEF ClockInv, ClockTypes

\* The handlers of the server: what each does to the flag and to the messages.
LEMMA ClockPause ==
  ASSUME ClockInv, Clock!Pause,
         UNCHANGED <<made, replayPaused, have, loop>>, clockUp' \in Seq(ClockRequests),
         UNCHANGED <<simSpeed, scrubOffset, debounce, clockAsked, clicks>>
  PROVE  ClockInv'
<1>1. paused' = TRUE /\ speedEvent' = FALSE /\ clockDown' = Append(clockDown, Clock!State(TRUE))
      /\ since' = (IF paused THEN since ELSE 0) /\ UNCHANGED <<tickSpeed, offset, loop>>
  BY DEF Clock!Pause
<1>2. PICK m \in ClockAnswers : m = Clock!State(TRUE)
  BY DEF Clock!State, ClockAnswers
<1>3. m.type = "replay_state" /\ m.paused = TRUE
  BY <1>2 DEF Clock!State
<1>4. clockDown \in Seq(ClockAnswers \cup ClockCandles) /\ m \in ClockAnswers \cup ClockCandles
  BY DEF ClockInv, ClockTypes
<1>5. Believes(clockDown', replayPaused', paused')
  BY <1>1, <1>2, <1>3, <1>4, BelievesState
<1>6. ClockTypes'
  <2>1. Clock!TypeOK'
    BY <1>1 DEF ClockInv, ClockTypes, Clock!TypeOK
  <2>2. since' \in Nat
    BY <1>1 DEF ClockInv, ClockTypes
  <2>3. clockDown' \in Seq(ClockAnswers \cup ClockCandles)
    BY <1>1, <1>2, <1>4, AppendFacts
  <2>4. Ranges(clockDown', made')
    <3>1. made \in Nat /\ made <= made /\ made' = made /\ Ranges(clockDown, made)
      BY DEF ClockInv, ClockTypes, Clock!TypeOK
    <3>2. QED
      BY <3>1, <1>1, <1>2, <1>3, <1>4, RangesAppend
  <2>5. QED
    BY <2>1, <2>2, <2>3, <2>4 DEF ClockTypes
<1>7. since' <= 1 /\ (loop' = "sleep" => since' = 0)
  BY <1>1 DEF ClockInv, ClockTypes
<1>8. QED
  BY <1>5, <1>6, <1>7 DEF ClockInv

\* resume: the flag is cleared and reported.
LEMMA ClockResume ==
  ASSUME ClockInv, Clock!Resume(<<Clock!State(FALSE)>>), since' = since,
         tickSpeed' \in Clock!Speeds \ {0}, offset' \in 0..MaxCandles - 1,
         UNCHANGED <<made, replayPaused, have>>, clockUp' \in Seq(ClockRequests),
         UNCHANGED <<simSpeed, scrubOffset, debounce, clockAsked, clicks>>
  PROVE  ClockInv'
<1>1. PICK m \in ClockAnswers : m = Clock!State(FALSE)
  BY DEF Clock!State, ClockAnswers
<1>2. m.type = "replay_state" /\ m.paused = FALSE
  BY <1>1 DEF Clock!State
<1>3. clockDown \in Seq(ClockAnswers \cup ClockCandles) /\ m \in ClockAnswers \cup ClockCandles
  BY DEF ClockInv, ClockTypes
<1>4. paused' = FALSE /\ speedEvent' = TRUE /\ loop' = Clock!Wake(loop)
      /\ clockDown' = Append(clockDown, m)
  <2>1. clockDown' = clockDown \o <<m>>
    BY <1>1 DEF Clock!Resume
  <2>2. clockDown \o <<m>> = Append(clockDown, m)
    BY <1>3
  <2>3. QED
    BY <2>1, <2>2 DEF Clock!Resume
<1>5. Believes(clockDown', replayPaused', paused')
  BY <1>2, <1>3, <1>4, BelievesState
<1>6. ClockTypes'
  <2>1. Clock!TypeOK'
    BY <1>4 DEF ClockInv, ClockTypes, Clock!TypeOK, Clock!Wake
  <2>2. since' \in Nat
    BY DEF ClockInv, ClockTypes
  <2>3. clockDown' \in Seq(ClockAnswers \cup ClockCandles)
    BY <1>3, <1>4
  <2>4. Ranges(clockDown', made')
    <3>1. made \in Nat /\ made <= made /\ made' = made /\ Ranges(clockDown, made)
      BY DEF ClockInv, ClockTypes, Clock!TypeOK
    <3>2. QED
      BY <3>1, <1>2, <1>3, <1>4, RangesAppend
  <2>5. QED
    BY <2>1, <2>2, <2>3, <2>4 DEF ClockTypes
<1>7. QED
  BY <1>4, <1>5, <1>6 DEF ClockInv

\* A message of candles the server has made goes to the browser.
LEMMA ClockSends ==
  ASSUME ClockInv, NEW S \in SUBSET (1..made'), made' \in 1..MaxCandles, made <= made',
         clockDown' = Append(clockDown, [type |-> "candles", cs |-> S])
  PROVE  /\ clockDown' \in Seq(ClockAnswers \cup ClockCandles)
         /\ Ranges(clockDown', made')
         /\ Believes(clockDown', replayPaused, paused)
<1>1. PICK m : m = [type |-> "candles", cs |-> S]
  OBVIOUS
<1>2. S \subseteq 1..MaxCandles /\ made \in 1..MaxCandles
  <2>1. made \in 1..MaxCandles
    BY DEF ClockInv, ClockTypes, Clock!TypeOK
  <2>2. \A i \in 1..made' : i \in 1..MaxCandles
    BY ClockAssumption
  <2>3. QED
    BY <2>1, <2>2
<1>3. m \in ClockCandles /\ m.type # "replay_state" /\ m.cs = S
  BY <1>1, <1>2 DEF ClockCandles
<1>4. clockDown \in Seq(ClockAnswers \cup ClockCandles) /\ m \in ClockAnswers \cup ClockCandles
  BY <1>3 DEF ClockInv, ClockTypes
<1>5. Believes(clockDown', replayPaused, paused)
  BY <1>1, <1>3, <1>4, BelievesOther DEF ClockInv
<1>6. Ranges(clockDown', made')
  <2>1. made \in Nat /\ made' \in Nat /\ Ranges(clockDown, made)
    BY <1>2 DEF ClockInv, ClockTypes
  <2>2. QED
    BY <2>1, <1>1, <1>3, <1>4, RangesAppend
<1>7. QED
  BY <1>1, <1>4, <1>5, <1>6, AppendFacts

\* The server handles a request.
LEMMA ClockHandle ==
  ASSUME ClockInv, Clock!Handle
  PROVE  ClockInv'
<1>1. PICK msg : msg = Head(clockUp)
  OBVIOUS
<1>2. /\ clockUp' = Tail(clockUp) /\ clockUp # <<>>
      /\ UNCHANGED <<made, replayPaused, simSpeed, have, scrubOffset, debounce, clockAsked, clicks>>
      /\ IF msg.type = "set_speed" THEN Clock!SetSpeed(msg.speed) ELSE Clock!Replay(msg)
  BY <1>1 DEF Clock!Handle, Clock!view, Clock!panel
<1>3. msg \in ClockRequests /\ clockUp' \in Seq(ClockRequests)
  BY <1>1, <1>2 DEF ClockInv, ClockTypes
<1>4. ASSUME Clock!Pause PROVE ClockInv'
  BY <1>2, <1>3, <1>4, ClockPause DEF Clock!Pause
<1>5. CASE msg.type = "set_speed"
  <2>1. msg.speed \in Clock!Speeds /\ Clock!SetSpeed(msg.speed)
    BY <1>2, <1>3, <1>5 DEF ClockRequests
  <2>2. CASE msg.speed = 0
    BY <2>1, <2>2, <1>4 DEF Clock!SetSpeed
  <2>3. CASE msg.speed # 0 /\ paused
    <3>1. Clock!Resume(<<Clock!State(FALSE)>>) /\ tickSpeed' = msg.speed /\ UNCHANGED <<offset, since>>
      BY <2>1, <2>3 DEF Clock!SetSpeed
    <3>2. offset' \in 0..MaxCandles - 1
      BY <3>1 DEF ClockInv, ClockTypes, Clock!TypeOK
    <3>3. tickSpeed' \in Clock!Speeds \ {0}
      BY <3>1, <2>1, <2>3
    <3>4. QED
      BY <3>1, <3>2, <3>3, <1>2, <1>3, ClockResume
  <2>4. CASE msg.speed # 0 /\ ~paused
    <3>1. tickSpeed' = msg.speed /\ UNCHANGED <<offset, since, paused, speedEvent, loop, clockDown>>
      BY <2>1, <2>4 DEF Clock!SetSpeed
    <3>2. Clock!TypeOK'
      BY <3>1, <2>1, <2>4, <1>2 DEF ClockInv, ClockTypes, Clock!TypeOK
    <3>3. ClockTypes'
      BY <3>1, <3>2, <1>2, <1>3 DEF ClockInv, ClockTypes
    <3>4. QED
      BY <3>1, <3>3, <1>2 DEF ClockInv
  <2>5. QED
    BY <2>2, <2>3, <2>4
<1>6. CASE msg.type # "set_speed"
  <2>1. Clock!Replay(msg)
    BY <1>2, <1>6
  <2>2. msg.action \in {"pause", "resume", "scrub"}
        /\ (msg.action = "scrub" => msg.offset \in 0..MaxCandles - 1)
    BY <1>3, <1>6 DEF ClockRequests
  <2>3. CASE msg.action = "pause"
    BY <2>1, <2>3, <1>4 DEF Clock!Replay
  <2>4. CASE msg.action = "resume"
    <3>1. Clock!Resume(<<Clock!State(FALSE)>>) /\ offset' = 0 /\ UNCHANGED <<tickSpeed, since>>
      BY <2>1, <2>4 DEF Clock!Replay
    <3>2. tickSpeed' \in Clock!Speeds \ {0}
      BY <3>1 DEF ClockInv, ClockTypes, Clock!TypeOK
    <3>3. offset' \in 0..MaxCandles - 1
      BY <3>1, ClockAssumption
    <3>4. QED
      BY <3>1, <3>2, <3>3, <1>2, <1>3, ClockResume
  <2>5. CASE msg.action = "scrub"
    <3>1. Clock!Scrub(msg.offset)
      BY <2>1, <2>5 DEF Clock!Replay
    <3>2. PICK S : S = {made - msg.offset} \cap 1..made
      OBVIOUS
    <3>3. /\ offset' = msg.offset /\ clockDown' = Append(clockDown, [type |-> "candles", cs |-> S])
          /\ UNCHANGED <<paused, speedEvent, tickSpeed, loop, since>>
      BY <3>1, <3>2 DEF Clock!Scrub
    <3>4. S \in SUBSET (1..made') /\ made' \in 1..MaxCandles /\ made <= made'
      BY <3>2, <1>2 DEF ClockInv, ClockTypes, Clock!TypeOK
    <3>5. /\ clockDown' \in Seq(ClockAnswers \cup ClockCandles)
          /\ Ranges(clockDown', made')
          /\ Believes(clockDown', replayPaused, paused)
      BY <3>3, <3>4, ClockSends
    <3>6. Clock!TypeOK'
      BY <3>3, <2>2, <2>5, <1>2 DEF ClockInv, ClockTypes, Clock!TypeOK
    <3>7. ClockTypes'
      BY <3>3, <3>5, <3>6, <1>2, <1>3 DEF ClockInv, ClockTypes
    <3>8. QED
      BY <3>3, <3>5, <3>7, <1>2 DEF ClockInv
  <2>6. QED
    BY <2>2, <2>3, <2>4, <2>5
<1>7. QED
  BY <1>5, <1>6

\* The loop checks, sleeps and makes a candle.
LEMMA ClockLoop ==
  ASSUME ClockInv, Clock!LoopChecks \/ Clock!LoopWoken \/ Clock!LoopMakes
  PROVE  ClockInv'
<1>1. CASE Clock!LoopChecks \/ Clock!LoopWoken
  <2>1. /\ loop' \in {"check", "wait", "sleep"} /\ (paused => loop' # "sleep")
        /\ UNCHANGED <<paused, speedEvent, tickSpeed, offset, made, clockUp, clockDown,
                       replayPaused, simSpeed, have, scrubOffset, debounce, clockAsked, since, clicks>>
    BY <1>1 DEF Clock!LoopChecks, Clock!LoopWoken, Clock!Check, Clock!view, Clock!panel
  <2>2. ClockTypes'
    BY <2>1 DEF ClockInv, ClockTypes, Clock!TypeOK
  <2>3. QED
    BY <2>1, <2>2 DEF ClockInv
<1>2. CASE Clock!LoopMakes
  <2>1. /\ loop = "sleep" /\ made < MaxCandles /\ loop' = "check" /\ made' = made + 1
        /\ clockDown' = Append(clockDown, [type |-> "candles", cs |-> {made + 1}])
        /\ since' = since + 1
        /\ UNCHANGED <<paused, speedEvent, tickSpeed, offset, clockUp, replayPaused, simSpeed, have,
                       scrubOffset, debounce, clockAsked, clicks>>
    BY <1>2 DEF Clock!LoopMakes, Clock!view, Clock!panel
  <2>2. {made + 1} \in SUBSET (1..made') /\ made' \in 1..MaxCandles /\ made <= made'
        /\ 1..made \subseteq 1..made'
    BY <2>1, ClockAssumption DEF ClockInv, ClockTypes, Clock!TypeOK
  <2>3. /\ clockDown' \in Seq(ClockAnswers \cup ClockCandles)
        /\ Ranges(clockDown', made')
        /\ Believes(clockDown', replayPaused, paused)
    BY <2>1, <2>2, ClockSends
  <2>4. have' \subseteq 1..made'
    BY <2>1, <2>2 DEF ClockInv, ClockTypes, Clock!TypeOK
  <2>5. Clock!TypeOK'
    BY <2>1, <2>2, <2>4 DEF ClockInv, ClockTypes, Clock!TypeOK
  <2>6. since' \in Nat /\ (paused => since' <= 1)
    BY <2>1 DEF ClockInv, ClockTypes
  <2>7. ClockTypes'
    BY <2>1, <2>3, <2>5, <2>6 DEF ClockInv, ClockTypes
  <2>8. QED
    BY <2>1, <2>3, <2>6, <2>7 DEF ClockInv
<1>3. QED
  BY <1>1, <1>2

\* The page receives a message.
LEMMA ClockReceive ==
  ASSUME ClockInv, Clock!Receive
  PROVE  ClockInv'
<1>1. PICK msg : msg = Head(clockDown)
  OBVIOUS
<1>2. /\ clockDown # <<>> /\ clockDown' = Tail(clockDown)
      /\ replayPaused' = (IF msg.type = "replay_state" THEN msg.paused ELSE replayPaused)
      /\ have' = (IF msg.type = "replay_state" THEN have ELSE have \cup msg.cs)
      /\ UNCHANGED <<paused, speedEvent, tickSpeed, offset, loop, made, clockUp, simSpeed,
                     scrubOffset, debounce, clockAsked, since, clicks>>
  BY <1>1 DEF Clock!Receive, Clock!server, Clock!panel
<1>3. /\ clockDown \in Seq(ClockAnswers \cup ClockCandles)
      /\ \A i \in 1..Len(clockDown) : clockDown[i].type = "candles" => clockDown[i].cs \subseteq 1..made
  BY DEF ClockInv, ClockTypes, Ranges
<1>4. /\ clockDown' \in Seq(ClockAnswers \cup ClockCandles) /\ msg \in ClockAnswers \cup ClockCandles
      /\ msg = clockDown[1] /\ Len(clockDown) \in Nat /\ 1 <= Len(clockDown)
      /\ Len(clockDown') = Len(clockDown) - 1
      /\ \A i \in 1..Len(clockDown) - 1 : clockDown'[i] = clockDown[i + 1]
  BY <1>1, <1>2, <1>3
<1>5. Ranges(clockDown', made')
  <2> SUFFICES ASSUME NEW i \in 1..Len(clockDown'), clockDown'[i].type = "candles"
               PROVE  clockDown'[i].cs \subseteq 1..made
    BY <1>2 DEF Ranges
  <2>1. i + 1 \in 1..Len(clockDown) /\ clockDown'[i] = clockDown[i + 1]
    BY <1>4
  <2>2. QED
    BY <2>1, <1>3
<1>6. replayPaused' \in BOOLEAN
  BY <1>2, <1>4 DEF ClockAnswers, ClockCandles, ClockInv, ClockTypes, Clock!TypeOK
<1>7. have' \subseteq 1..made
  <2>1. msg.type # "replay_state" => msg.cs \subseteq 1..made
    BY <1>3, <1>4 DEF ClockAnswers, ClockCandles
  <2>2. QED
    BY <2>1, <1>2 DEF ClockInv, ClockTypes, Clock!TypeOK
<1>8. ClockTypes'
  <2>1. Clock!TypeOK'
    BY <1>2, <1>6, <1>7 DEF ClockInv, ClockTypes, Clock!TypeOK
  <2>2. QED
    BY <2>1, <1>2, <1>4, <1>5 DEF ClockInv, ClockTypes
<1>9. Believes(clockDown', replayPaused', paused')
  BY <1>1, <1>2, <1>3, BelievesTail DEF ClockInv
<1>10. QED
  BY <1>2, <1>8, <1>9 DEF ClockInv

\* What the user does and the effects of the page change neither the server nor what is on
\* its way to the browser.
LEMMA ClockUser ==
  ASSUME ClockInv,
         \/ Clock!SyncEffect \/ Clock!SpaceBar \/ Clock!toggleReplay \/ Clock!ScrubTimer \/ Clock!Stop
         \/ \E s \in Clock!Speeds : Clock!handleSpeedChange(s)
         \/ \E val \in 0..Clock!MaxOffset : Clock!handleScrub(val)
  PROVE  ClockInv'
<1>1. UNCHANGED <<paused, speedEvent, tickSpeed, offset, loop, made, clockDown, replayPaused, have, since>>
  BY DEF Clock!SyncEffect, Clock!SpaceBar, Clock!toggleReplay, Clock!ScrubTimer, Clock!Stop,
         Clock!handleSpeedChange, Clock!handleScrub, Clock!server, Clock!view, Clock!vars
<1>2. clicks' \in 0..MaxClicks
  <2>1. clicks \in 0..MaxClicks
    BY DEF ClockInv, ClockTypes, Clock!TypeOK
  <2>2. clicks' = clicks \/ (clicks < MaxClicks /\ clicks' = clicks + 1)
    BY DEF Clock!SyncEffect, Clock!SpaceBar, Clock!toggleReplay, Clock!ScrubTimer, Clock!Stop,
      Clock!handleSpeedChange, Clock!handleScrub, Clock!vars, Clock!Click
  <2>3. QED
    BY <2>1, <2>2, ClockAssumption
<1>3. simSpeed' \in Clock!Speeds
  BY DEF Clock!SyncEffect, Clock!SpaceBar, Clock!toggleReplay, Clock!ScrubTimer, Clock!Stop,
      Clock!handleSpeedChange, Clock!handleScrub, Clock!vars, Clock!view, Clock!Followed, ClockInv,
      ClockTypes, Clock!TypeOK, Clock!Speeds
<1>4. clockAsked' \in {"nothing", "pause", "resume"}
  BY DEF Clock!SyncEffect, Clock!SpaceBar, Clock!toggleReplay, Clock!ScrubTimer, Clock!Stop,
      Clock!handleSpeedChange, Clock!handleScrub, Clock!vars, ClockInv, ClockTypes, Clock!TypeOK
<1>5. Clock!MaxOffset \in -1..MaxCandles - 1
  <2>1. have \subseteq 1..made /\ made \in Nat /\ made <= MaxCandles
    BY DEF ClockInv, ClockTypes, Clock!TypeOK
  <2>2. IsFiniteSet(1..made) /\ Cardinality(1..made) = made
    BY <2>1, FS_Interval
  <2>3. Cardinality(have) \in Nat /\ Cardinality(have) <= made
    BY <2>1, <2>2, FS_Subset, FS_CardinalityType
  <2>4. QED
    BY <2>1, <2>3, ClockCardinality, ClockAssumption DEF Clock!MaxOffset
<1>6. scrubOffset' \in 0..MaxCandles - 1 /\ debounce' \in -1..MaxCandles - 1
  <2>1. scrubOffset \in 0..MaxCandles - 1 /\ debounce \in -1..MaxCandles - 1
    BY DEF ClockInv, ClockTypes, Clock!TypeOK
  <2>2. \A val \in 0..Clock!MaxOffset : val \in 0..MaxCandles - 1 /\ val \in -1..MaxCandles - 1
    BY <1>5, ClockAssumption
  <2>3. \/ UNCHANGED <<scrubOffset, debounce>>
        \/ \E val \in 0..Clock!MaxOffset : scrubOffset' = val /\ debounce' = val
        \/ scrubOffset' = scrubOffset /\ debounce' = -1
    BY DEF Clock!SyncEffect, Clock!SpaceBar, Clock!toggleReplay, Clock!ScrubTimer, Clock!Stop,
           Clock!handleSpeedChange, Clock!handleScrub, Clock!vars, Clock!panel, Clock!NoTimer
  <2>4. -1 \in -1..MaxCandles - 1
    BY ClockAssumption
  <2>5. QED
    BY <2>1, <2>2, <2>3, <2>4
<1>7. clockUp' \in Seq(ClockRequests)
  <2>1. clockUp \in Seq(ClockRequests)
    BY DEF ClockInv, ClockTypes
  <2>2. CASE clockUp' = clockUp
    BY <2>1, <2>2
  <2>3. CASE \E s \in Clock!Speeds : Clock!handleSpeedChange(s)
    BY <2>1, <2>3 DEF Clock!handleSpeedChange, ClockRequests
  <2>4. CASE Clock!toggleReplay
    <3>1. PICK m : m = [type |-> "replay", action |-> IF replayPaused THEN "resume" ELSE "pause"]
      OBVIOUS
    <3>2. m \in ClockRequests /\ clockUp' = Append(clockUp, m)
      BY <3>1, <2>4 DEF Clock!toggleReplay, ClockRequests
    <3>3. QED
      BY <3>2, <2>1
  <2>5. CASE Clock!ScrubTimer
    <3>1. debounce \in 0..MaxCandles - 1
      BY <2>5, ClockAssumption DEF Clock!ScrubTimer, Clock!NoTimer, ClockInv, ClockTypes, Clock!TypeOK
    <3>2. QED
      BY <3>1, <2>1, <2>5 DEF Clock!ScrubTimer, ClockRequests
  <2>6. QED
    BY <2>2, <2>3, <2>4, <2>5 DEF Clock!SyncEffect, Clock!SpaceBar, Clock!Stop, Clock!handleScrub,
                                  Clock!vars
<1>8. Clock!TypeOK'
  BY <1>1, <1>2, <1>3, <1>4, <1>6 DEF ClockInv, ClockTypes, Clock!TypeOK
<1>9. ClockTypes'
  BY <1>1, <1>7, <1>8 DEF ClockInv, ClockTypes
<1>10. QED
  BY <1>1, <1>9 DEF ClockInv

\* Every step keeps the invariant.
LEMMA ClockStep == ClockInv /\ (Clock!Next \/ UNCHANGED clockVars) => ClockInv'
<1>1. ASSUME ClockInv, UNCHANGED clockVars PROVE ClockInv'
  BY <1>1 DEF clockVars, ClockInv, ClockTypes, Clock!TypeOK
<1>2. QED
  BY <1>1, ClockHandle, ClockLoop, ClockReceive, ClockUser DEF Clock!Next

\* What it says about the page.
LEMMA ClockSound ==
  ClockInv => Clock!TypeOK /\ Clock!PauseShown /\ Clock!AtMostOneAfterPause
<1> SUFFICES ASSUME ClockInv PROVE Clock!TypeOK /\ Clock!PauseShown /\ Clock!AtMostOneAfterPause
  OBVIOUS
<1>1. Clock!TypeOK /\ Clock!AtMostOneAfterPause
  BY DEF ClockInv, ClockTypes, Clock!AtMostOneAfterPause
<1>2. ASSUME Clock!Quiet PROVE (simSpeed = 0) = paused
  <2>1. clockDown = <<>> /\ replayPaused = (simSpeed = 0)
    BY <1>2 DEF Clock!Quiet, Clock!OutOfStep
  <2>2. replayPaused = paused
    BY <2>1 DEF ClockInv, Believes
  <2>3. QED
    BY <2>1, <2>2
<1>3. QED
  BY <1>1, <1>2 DEF Clock!PauseShown

-----------------------------------------------------------------------------
(***************************************************************************)
(* All parts.                                                              *)
(***************************************************************************)

\* The part that is followed keeps its invariant; the feed, the computations, the
\* tournament and the clock also keep theirs while they stand still.
PartInv ==
  /\ part = "events" => SocketInv("events")
  /\ part = "socket" => SocketInv("socket") /\ TimersInv
  /\ FeedInv /\ ComputeInv /\ CupInv /\ ClockInv

\* All invariants hold at the start.
LEMMA PartInitial == Init => PartInv
BY SocketInitial, TimersInitial, FeedInitial, ComputeInitial, CupInitial, ClockInitial
   DEF Init, PartInv

\* Which part moves, and how.
LEMMA PartMoves ==
  ASSUME [Next]_vars
  PROVE  /\ part' = part
         /\ part = "events" => Socket("events")!Next \/ UNCHANGED socketVars
         /\ part = "socket" => Socket("socket")!Next \/ UNCHANGED socketVars
         /\ Feed!Next \/ UNCHANGED feedVars
         /\ Compute!Next \/ UNCHANGED computeVars
         /\ Cup!Next \/ UNCHANGED cupVars
         /\ Clock!Next \/ UNCHANGED clockVars
<1>1. CASE UNCHANGED vars
  BY <1>1 DEF vars
<1>2. CASE Next
  BY <1>2 DEF Next
<1>3. QED
  BY <1>1, <1>2

\* Every step of the page keeps them.
LEMMA PartStep == PartInv /\ [Next]_vars => PartInv'
<1> SUFFICES ASSUME PartInv, [Next]_vars PROVE PartInv'
  OBVIOUS
<1>1. part' = part
  BY PartMoves
<1>2. FeedInv' /\ ComputeInv' /\ CupInv' /\ ClockInv'
  BY PartMoves, FeedStep, ComputeStep, CupStep, ClockStep DEF PartInv
<1>3. part = "events" => SocketInv("events")'
  BY PartMoves, SocketStep DEF PartInv
<1>4. part = "socket" => SocketInv("socket")' /\ TimersInv'
  BY PartMoves, SocketStep, TimersStep DEF PartInv
<1>5. QED
  BY <1>1, <1>2, <1>3, <1>4 DEF PartInv

\* They hold always.
LEMMA PartInvariant == Spec => []PartInv
<1>1. PartInv /\ UNCHANGED vars => PartInv'
  BY PartStep
<1>2. QED
  BY PartInitial, PartStep, <1>1, PTL DEF Spec

(***************************************************************************)
(* The socket of useWebSocket, for every budget, queue and number of       *)
(* connections: what send() accepts goes out at most once and in order and *)
(* nothing stays in the queue of an open socket; while only timers         *)
(* reconnect there is one live socket, the flag shown is its state, and    *)
(* scheduleRetry keeps its budget.                                         *)
(***************************************************************************)
THEOREM SocketIsSound == Spec => []SocketSound
<1>1. PartInv => SocketSound
  BY SocketTyped, TimersSound DEF PartInv, SocketSound
<1>2. QED
  BY <1>1, PartInvariant, PTL

(***************************************************************************)
(* The feed of useExchangeData, for every book, set of orders and number   *)
(* of broadcasts, losses and reconnections: without a missed broadcast the *)
(* book is the server's, with nothing in flight the open orders are the    *)
(* server's, the candles are the newest ever received, and no order that   *)
(* still waits in the queue is answered with "no response".                *)
(***************************************************************************)
THEOREM FeedFollowsServer == Spec => []FeedAgrees
<1>1. PartInv => FeedAgrees
  BY FeedSound DEF PartInv, FeedAgrees
<1>2. QED
  BY <1>1, PartInvariant, PTL

(***************************************************************************)
(* A panel that asked for a computation never takes the answer to another  *)
(* panel or the timer of another request for its own, and the answer to an *)
(* earlier request of its own only if its slot held one or that request    *)
(* was on its way when it asked; a running tournament counts exactly the   *)
(* answers that are missing, whatever is lost or late.                     *)
(***************************************************************************)
THEOREM AnswersOfThePanel == Spec => []AnswersAreOwn
<1>1. ComputeInv => Compute!TypeOK /\ Compute!AnswersAreOwn /\ Compute!TimeoutIsOwn /\ Compute!TimersAreCurrent
  BY ComputeSound
<1>2. CupInv => Cup!TypeOK /\ Cup!RunningAccountsForAll /\ Cup!TimerIsOwn
  BY DEF CupInv
<1>3. PartInv => AnswersAreOwn
  BY <1>1, <1>2 DEF PartInv, AnswersAreOwn
<1>4. QED
  BY <1>3, PartInvariant, PTL

(***************************************************************************)
(* The pause button and _broadcast_loop agree when nothing is under way,   *)
(* and after a pause at most the candle whose sleep had begun still comes, *)
(* for every number of candles and of uses of the controls.                *)
(***************************************************************************)
THEOREM PauseHolds == Spec => []PauseIsTrue
<1>1. PartInv => PauseIsTrue
  BY ClockSound DEF PartInv, PauseIsTrue
<1>2. QED
  BY <1>1, PartInvariant, PTL
=============================================================================
