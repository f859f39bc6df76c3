---------------------------- MODULE ExchangeFeed ----------------------------
(***************************************************************************)
(* The hook web-ui/src/hooks/useExchangeData.js: the browser's copy of the *)
(* exchange (order book, resting orders, candles, fills) kept up to date   *)
(* by broadcasts that may be lost and by snapshots, and the promises of    *)
(* submitOrder.  The exchange server is modelled by what it sends, the     *)
(* connection by what WebSocketClient promises: messages in order while    *)
(* it is up, everything in flight lost when it drops, a queue while down.  *)
(***************************************************************************)
EXTENDS Integers, Sequences, FiniteSets, FiniteSetsExt

CONSTANTS Levels,     \* price levels of the one order book
          Quantities, \* quantities a level may show; 0 is an absent level
          Cids,       \* client order ids
          CandleCap,  \* candles kept (500)
          FillCap,    \* fills kept (50)
          MaxSeq,     \* bound: broadcasts of the server
          MaxDrops    \* bound: connection losses and lost broadcasts

VARIABLES
  srvSeq, srvBook, srvOrder,  \* the server: sequence number, book, order states
  down,      \* messages on their way to the browser
  up,        \* messages on their way to the server
  isUp,      \* the socket is open
  outQueue,  \* useWebSocket's queue of unsent messages
  lastSeq,   \* lastSeqRef.current
  throttled, \* less than 5 s since lastResyncReqRef.current
  book,      \* orderbooks, NoBook before the first snapshot
  openOrders,
  candleMap, candles,
  fills,
  promise,   \* submitOrder's promise: none, untimed, timed, order, null
  truth,     \* history: the server's book when the last message was sent
  at,        \* history: the broadcast up to which no book change was missed, -1 if one was
  seen,      \* history: every candle received
  drops

server == <<srvSeq, srvBook, srvOrder>>
link   == <<down, up, isUp, outQueue>>
view   == <<lastSeq, throttled, book, openOrders, candleMap, candles, fills, promise>>
hist   == <<truth, at, seen, drops>>
vars   == <<server, link, view, hist>>

NoBook == [l \in Levels |-> -1]
OrderStates == {"none", "PENDING", "FILLED", "CANCELLED"}
Pending == {c \in Cids : srvOrder[c] = "PENDING"}

TypeOK ==
  /\ srvSeq \in 0..MaxSeq
  /\ srvBook \in [Levels -> Quantities]
  /\ srvOrder \in [Cids -> OrderStates]
  /\ isUp \in BOOLEAN /\ throttled \in BOOLEAN
  /\ lastSeq \in 0..MaxSeq /\ at \in -1..MaxSeq
  /\ book \in [Levels -> Quantities] \cup {NoBook}
  /\ openOrders \subseteq Cids
  /\ candleMap \subseteq 0..MaxSeq /\ Len(candles) <= CandleCap
  /\ Len(fills) <= FillCap
  /\ promise \in [Cids -> {"none", "untimed", "timed", "order", "null"}]

-----------------------------------------------------------------------------
(* The server, as the browser sees it. *)

\* One broadcast: a level of the book changes and one candle closes.
Candles(delta) == [type |-> "candles", seq |-> srvSeq + 1, ts |-> srvSeq + 1,
                   cs |-> {srvSeq + 1}, delta |-> delta, book |-> srvBook', open |-> {}]

\* A full state: the answer to sync_state, and the snapshot of a new connection.
Full(type, cs) == [type |-> type, seq |-> 0, ts |-> srvSeq, cs |-> cs, delta |-> <<>>,
                   book |-> srvBook, open |-> Pending]

Order(type, c, st) == [type |-> type, cid |-> c, status |-> st]

Broadcast ==
  /\ srvSeq < MaxSeq
  /\ \E l \in Levels, q \in Quantities :
       /\ srvBook' = [srvBook EXCEPT ![l] = q]
       /\ down' = IF isUp THEN Append(down, Candles(<<l, q>>)) ELSE down
  /\ srvSeq' = srvSeq + 1
  /\ UNCHANGED <<srvOrder, up, isUp, outQueue, view, hist>>

\* The broadcast does not reach this client.
LostBroadcast ==
  /\ srvSeq < MaxSeq /\ drops < MaxDrops
  /\ \E l \in Levels, q \in Quantities : srvBook' = [srvBook EXCEPT ![l] = q]
  /\ srvSeq' = srvSeq + 1
  /\ drops' = drops + 1
  /\ UNCHANGED <<srvOrder, link, view, truth, at, seen>>

\* The server handles the next message of this client; a repeated cid is answered
\* with the order it already has.
ServerHandles ==
  /\ up # <<>>
  /\ up' = Tail(up)
  /\ LET msg == Head(up) IN
     CASE msg.type = "sync_state" ->
            /\ down' = Append(down, Full("sync_state", {t \in 1..srvSeq : t > msg.ts}))
            /\ UNCHANGED srvOrder
       [] msg.type = "order" ->
            \E st \in {"PENDING", "FILLED"} :
              LET now == IF srvOrder[msg.cid] = "none" THEN st ELSE srvOrder[msg.cid]
              IN /\ srvOrder' = [srvOrder EXCEPT ![msg.cid] = now]
                 /\ down' = Append(down, Order("fill", msg.cid, now))
       [] OTHER ->
            IF srvOrder[msg.cid] = "PENDING"
            THEN /\ srvOrder' = [srvOrder EXCEPT ![msg.cid] = "CANCELLED"]
                 /\ down' = Append(down, Order("order_cancelled", msg.cid, "CANCELLED"))
            ELSE UNCHANGED <<srvOrder, down>>
  /\ UNCHANGED <<srvSeq, srvBook, isUp, outQueue, view, hist>>

\* The engine fills a resting order by itself and broadcasts a fills_batch.
EngineFill(c) ==
  /\ srvOrder[c] = "PENDING"
  /\ srvOrder' = [srvOrder EXCEPT ![c] = "FILLED"]
  /\ down' = IF isUp THEN Append(down, Order("fills_batch", c, "FILLED")) ELSE down
  /\ UNCHANGED <<srvSeq, srvBook, up, isUp, outQueue, view, hist>>

-----------------------------------------------------------------------------
(* handleExchangeMessage *)

\* orderbook_deltas: set, insert or remove one level; nothing without a book.
ApplyDeltas(b, delta) ==
  IF b = NoBook \/ delta = <<>> THEN b ELSE [b EXCEPT ![delta[1]] = delta[2]]

\* The map is cut to the newest CandleCap entries once it has grown past them.
Trim(s) == IF Cardinality(s) > CandleCap
           THEN {t \in s : Cardinality({u \in s : u > t}) < CandleCap} ELSE s

\* The newest CandleCap candles in time order.
Newest(s) == CHOOSE list \in [1..Cardinality(Trim(s)) -> Trim(s)] :
               \A i, j \in DOMAIN list : i < j => list[i] < list[j]

\* Mutant: open_orders of a snapshot is merged into what is shown.
SnapshotOrdersMerged(msg) == openOrders \cup msg.open

\* open_orders of a snapshot replaces what is shown.
SnapshotOrders(msg) == msg.open

\* A broadcast whose number leaves a gap asks for a sync, at most every 5 s.
GapIn(msg) == msg.type = "candles" /\ lastSeq # 0 /\ msg.seq > lastSeq + 1

MarketMessage(msg) ==
  /\ IF GapIn(msg) /\ ~throttled
     THEN /\ throttled' = TRUE
          /\ up' = Append(up, [type |-> "sync_state",
                               ts |-> IF seen = {} THEN 0 ELSE Max(seen)])
     ELSE UNCHANGED <<throttled, up>>
  /\ lastSeq' = IF msg.type = "candles" THEN msg.seq ELSE lastSeq
  /\ candleMap' = Trim(candleMap \cup msg.cs)
  /\ candles' = Newest(candleMap \cup msg.cs)
  /\ book' = IF msg.type = "candles" THEN ApplyDeltas(book, msg.delta) ELSE msg.book
  /\ openOrders' = IF msg.type = "candles" THEN openOrders ELSE SnapshotOrders(msg)
  /\ truth' = msg.book
  /\ at' = IF msg.type # "candles" THEN msg.ts
           ELSE IF at = msg.seq - 1 THEN msg.seq ELSE -1
  /\ seen' = seen \cup msg.cs
  /\ UNCHANGED <<fills, promise>>

\* trackOrderStatus: a resting order is shown, any other status removes it.
TrackOrderStatus(c, st) ==
  openOrders' = IF st = "PENDING" THEN openOrders \cup {c} ELSE openOrders \ {c}

\* resolveAck: only a promise that is still in pendingAcks.
ResolveAck(c) ==
  promise' = [promise EXCEPT ![c] = IF @ \in {"untimed", "timed"} THEN "order" ELSE @]

\* fill, fills_batch and order_cancelled.
OrderMessage(msg) ==
  /\ IF msg.type = "order_cancelled"
     THEN openOrders' = openOrders \ {msg.cid} /\ UNCHANGED <<fills, promise>>
     ELSE /\ fills' = LET all == <<msg.cid>> \o fills
                     IN SubSeq(all, 1, IF Len(all) < FillCap THEN Len(all) ELSE FillCap)
          /\ TrackOrderStatus(msg.cid, msg.status)
          /\ ResolveAck(msg.cid)
  /\ UNCHANGED <<up, lastSeq, throttled, candleMap, candles, book, truth, at, seen>>

Deliver ==
  /\ down # <<>>
  /\ down' = Tail(down)
  /\ IF Head(down).type \in {"candles", "snapshot", "sync_state"}
     THEN MarketMessage(Head(down)) ELSE OrderMessage(Head(down))
  /\ UNCHANGED <<server, isUp, outQueue, drops>>

-----------------------------------------------------------------------------
(* Calls of the panels, timers and the connection. *)

\* submitOrder: the timer starts only if the message went on the wire.
SubmitOrder(c) ==
  /\ promise[c] = "none"
  /\ promise' = [promise EXCEPT ![c] = IF isUp THEN "timed" ELSE "untimed"]
  /\ IF isUp THEN up' = Append(up, [type |-> "order", cid |-> c]) /\ UNCHANGED outQueue
     ELSE outQueue' = Append(outQueue, [type |-> "order", cid |-> c]) /\ UNCHANGED up
  /\ UNCHANGED <<server, down, isUp, lastSeq, throttled, book, openOrders, candleMap, candles,
                 fills, hist>>

CancelOrder(c) ==
  /\ c \in openOrders /\ isUp
  /\ ~ \E i \in 1..Len(up) : up[i].type = "cancel_order"
  /\ up' = Append(up, [type |-> "cancel_order", cid |-> c])
  /\ UNCHANGED <<server, down, isUp, outQueue, view, hist>>

AckTimeout(c) ==
  /\ promise[c] = "timed"
  /\ promise' = [promise EXCEPT ![c] = "null"]
  /\ UNCHANGED <<server, link, lastSeq, throttled, book, openOrders, candleMap, candles, fills, hist>>

\* Five seconds pass since the last resync request.
ThrottleEnds ==
  /\ throttled /\ throttled' = FALSE
  /\ UNCHANGED <<server, link, lastSeq, book, openOrders, candleMap, candles, fills, promise, hist>>

Drop ==
  /\ isUp /\ drops < MaxDrops
  /\ isUp' = FALSE /\ down' = <<>> /\ up' = <<>>
  /\ drops' = drops + 1
  /\ UNCHANGED <<server, outQueue, view, truth, at, seen>>

\* The socket opens again: the server sends a snapshot, onOpen resets lastSeq, the
\* hook asks for the candles since its last timestamp, the queue is flushed, and the
\* effect on the connected flag starts the timers of the orders just flushed.
Reopen ==
  /\ ~isUp
  /\ isUp' = TRUE
  /\ lastSeq' = 0
  /\ down' = <<Full("snapshot", {srvSeq} \ {0})>>
  /\ up' = <<[type |-> "sync_state", ts |-> IF seen = {} THEN 0 ELSE Max(seen)]>> \o outQueue
  /\ outQueue' = <<>>
  /\ promise' = [c \in Cids |-> IF promise[c] = "untimed" THEN "timed" ELSE promise[c]]
  /\ UNCHANGED <<server, throttled, book, openOrders, candleMap, candles, fills, hist>>

Init ==
  /\ srvSeq = 0 /\ srvBook = [l \in Levels |-> 0] /\ srvOrder = [c \in Cids |-> "none"]
  /\ down = <<>> /\ up = <<>> /\ isUp = FALSE /\ outQueue = <<>>
  /\ lastSeq = 0 /\ throttled = FALSE /\ book = NoBook
  /\ openOrders = {} /\ candleMap = {} /\ candles = <<>> /\ fills = <<>>
  /\ promise = [c \in Cids |-> "none"]
  /\ truth = NoBook /\ at = -1 /\ seen = {} /\ drops = 0

Next ==
  \/ Broadcast \/ LostBroadcast \/ ServerHandles \/ Deliver \/ ThrottleEnds \/ Drop \/ Reopen
  \/ \E c \in Cids : EngineFill(c) \/ SubmitOrder(c) \/ CancelOrder(c) \/ AckTimeout(c)

Spec == Init /\ [][Next]_vars

\* Messages are delivered and handled, timers run, a lost connection comes back.
LiveSpec == Spec /\ WF_vars(ServerHandles) /\ WF_vars(Deliver) /\ WF_vars(Reopen)
                 /\ WF_vars(ThrottleEnds) /\ \A c \in Cids : WF_vars(AckTimeout(c))
-----------------------------------------------------------------------------
(***************************************************************************)
(* As long as no broadcast was missed since the last full book, the book   *)
(* on the screen is the server's book of the last market message, levels   *)
(* that were removed included (applyDeltas).                               *)
(***************************************************************************)
BookFollows == at >= 0 => book = truth

(***************************************************************************)
(* When nothing is in flight and the connection is up, the open orders on  *)
(* the screen are exactly the server's resting orders, whatever was lost   *)
(* in earlier disconnections and whichever promises had timed out          *)
(* (trackOrderStatus, the cancel messages and open_orders of a snapshot).  *)
(***************************************************************************)
OpenOrdersAgree == isUp /\ down = <<>> /\ up = <<>> => openOrders = Pending

(***************************************************************************)
(* The candle list is the newest CandleCap candles ever received, in time  *)
(* order, although the map is trimmed and syncs deliver old candles again. *)
(***************************************************************************)
CandlesAreNewest == candles = Newest(seen)

(***************************************************************************)
(* submitOrder never answers "no response" for an order that is still in   *)
(* the outgoing queue and will be sent later: the user would repeat it     *)
(* under a new id (the comment above the promise in submitOrder).          *)
(***************************************************************************)
NoNullWhileQueued ==
  \A i \in 1..Len(outQueue) : promise[outQueue[i].cid] # "null"

(***************************************************************************)
(* A promise resolves once: neither a late acknowledgement nor a late      *)
(* timer changes what the panel was told (resolveAck and the ack timer).   *)
(***************************************************************************)
ResolvedOnce ==
  [][\A c \in Cids : promise[c] \in {"order", "null"} => promise'[c] = promise[c]]_vars

(***************************************************************************)
(* Every submitted order is answered, by its acknowledgement or by null.   *)
(***************************************************************************)
Unanswered(c) == promise[c] \in {"untimed", "timed"}
EveryOrderAnswered == \A c \in Cids : Unanswered(c) ~> ~Unanswered(c)

(***************************************************************************)
(* A book that has missed a broadcast is replaced by a full one (the       *)
(* comment on seq gap detection: "on gap we request sync_state").          *)
(***************************************************************************)
StaleBookHeals == book # NoBook /\ at = -1 ~> at # -1
=============================================================================
