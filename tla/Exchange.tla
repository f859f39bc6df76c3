------------------------------ MODULE Exchange ------------------------------
(***************************************************************************)
(* One SimulatedExchange: its orders, the four books of resting orders, the *)
(* OCO groups, the order-history counters and the account, as clients and   *)
(* the per-tick sweep change them.                                          *)
(*                                                                          *)
(* Handlers run to completion on one asyncio thread, so a client request is *)
(* one step.  A tick moves the market and then goes through the exchanges,  *)
(* with an await between two of them, so requests come between the move and *)
(* this exchange's turn.  The turn is check_stop_loss_take_profit,          *)
(* check_advanced_orders and charge_funding with no await between them; it  *)
(* is cut into one step per resting order examined, and no client step is   *)
(* enabled inside it.                                                       *)
(***************************************************************************)
EXTENDS Account, Sequences, FiniteSetsExt

CONSTANTS
    Requests,      \* the order requests clients may send
    Groups,        \* OCO group ids
    NoGroup,       \* no oco_group_id
    Prices,        \* the prices the market may show
    FundingRates,  \* the funding rates that may be charged, in thousandths
    Terms,         \* the leverage, fee and slippage update_config may set
    MaxOrders,     \* bound: no client order once there are this many orders
    MaxTicks       \* bound: market ticks

VARIABLES
    acct,      \* account and insurance_fund
    orders,    \* every order ever created; an order's id is its index
    resting,   \* ids in the _pending_* dicts (an order's type names its dict)
    winner,    \* OCOGroup.filled_order_id, 0 for None
    counters,  \* _order_history.counters
    price,     \* get_price of the symbol
    now,       \* time.time(), in ticks
    due,       \* the market has moved and this exchange has not had its turn
    todo,      \* resting orders the running sweep has still to examine
    sweeping   \* TRUE inside a tick

vars == <<acct, orders, resting, winner, counters, price, now, due, todo, sweeping>>

Types == {"MARKET", "LIMIT", "STOP_LIMIT", "TRAILING_STOP", "ICEBERG"}
Statuses == {"PENDING", "FILLED", "REJECTED", "CANCELLED"}

\* An order request.  px is price, or limit_price of a stop-limit; listed is
\* whether the market has a price for the request's symbol.
RequestType ==
    [type: Types, side: Sides, qty: Int, px: Nat \cup {None},
     stop: Nat \cup {None}, trail: Int, percent: BOOLEAN, visible: Int,
     tif: {"GTC", "IOC", "FOK", "GTD"}, postOnly: BOOLEAN,
     expire: Nat \cup {None}, oco: Groups \cup {NoGroup},
     sl: Nat \cup {None}, tp: Nat \cup {None}, listed: BOOLEAN]

ASSUME ExchangeAssumption ==
    /\ Requests \subseteq RequestType
    /\ NoGroup \notin Groups
    /\ Prices \subseteq Nat \ {0}
    /\ FundingRates \subseteq Int
    /\ Terms \subseteq TermsType
    /\ MaxOrders \in Nat
    /\ MaxTicks \in Nat

Ids == DOMAIN orders

\* The order a request creates.  `heard` is whether the history listens to its
\* status; `done` is the quantity its executions have moved; `refused` counts
\* the iceberg slices that the margin check turned down.
NewOrder(r) ==
    [req |-> r, status |-> "PENDING", heard |-> FALSE, filled |-> 0, done |-> 0,
     hidden |-> IF r.type = "ICEBERG" THEN r.qty - r.visible ELSE 0,
     triggered |-> FALSE, active |-> FALSE, best |-> 0, stopPx |-> 0,
     refused |-> 0]

Init ==
    /\ acct = NewAccount
    /\ orders = << >>
    /\ resting = {}
    /\ winner = [g \in Groups |-> 0]
    /\ counters = [submitted |-> 0, filled |-> 0, rejected |-> 0, cancelled |-> 0]
    /\ price \in Prices
    /\ now = 0
    /\ due = FALSE
    /\ todo = {}
    /\ sweeping = FALSE

-----------------------------------------------------------------------------
(* _CountingOrderHistory: append counts a submission and the order's status; *)
(* from then on the status listener counts every change.                     *)

Count(c, status, n) ==
    CASE status = "FILLED"    -> [c EXCEPT !.filled = @ + n]
      [] status = "REJECTED"  -> [c EXCEPT !.rejected = @ + n]
      [] status = "CANCELLED" -> [c EXCEPT !.cancelled = @ + n]
      [] status = "PENDING"   -> c

AppendCount(c, status) == Count([c EXCEPT !.submitted = @ + 1], status, 1)

\* The members of a group that a fill of order id cancels.
Siblings(os, id) ==
    LET g == os[id].req.oco
    IN  IF g = NoGroup \/ winner[g] # 0
        THEN {}
        ELSE {i \in DOMAIN os : /\ i # id
                                /\ os[i].req.oco = g
                                /\ os[i].status = "PENDING"}

CancelIn(os, ids) ==
    [i \in DOMAIN os |-> IF i \in ids THEN [os[i] EXCEPT !.status = "CANCELLED"]
                                      ELSE os[i]]

\* Mutant: the cancelled siblings stay in their books.
ResolveOcoKeepsBooks(os, c, id) ==
    LET sib == Siblings(os, id)
        g   == os[id].req.oco
    IN  /\ orders' = CancelIn(os, sib)
        /\ counters' = Count(c, "CANCELLED",
                             Cardinality({i \in sib : os[i].heard}))
        /\ resting' = resting \ {id}
        /\ winner' = IF g # NoGroup /\ winner[g] = 0
                     THEN [winner EXCEPT ![g] = id]
                     ELSE winner

\* _resolve_oco of the filled order id.
ResolveOco(os, c, id) ==
    LET sib == Siblings(os, id)
        g   == os[id].req.oco
    IN  /\ orders' = CancelIn(os, sib)
        /\ counters' = Count(c, "CANCELLED",
                             Cardinality({i \in sib : os[i].heard}))
        /\ resting' = resting \ (sib \cup {id})
        /\ winner' = IF g # NoGroup /\ winner[g] = 0
                     THEN [winner EXCEPT ![g] = id]
                     ELSE winner

-----------------------------------------------------------------------------
(* submit_order                                                             *)

Malformed(r) ==
    \/ r.qty <= 0
    \/ r.type = "STOP_LIMIT" /\ (r.stop = None \/ r.px = None)
    \/ r.type = "TRAILING_STOP" /\ r.trail <= 0
    \/ r.type = "ICEBERG" /\ (r.visible <= 0 \/ r.visible >= r.qty)
    \/ r.type # "LIMIT" /\ (r.tif # "GTC" \/ r.postOnly \/ r.expire # None)
    \/ r.expire # None /\ r.tif # "GTD"
    \/ r.tif = "GTD" /\ r.expire = None

\* Mutant: an order may join a group that has its fill.
GroupNeverResolved(r) == FALSE

GroupResolved(r) == r.oco # NoGroup /\ winner[r.oco] # 0

PricedLimit(r) == r.type = "LIMIT" /\ r.px # None
Advanced(r) == r.type \in {"STOP_LIMIT", "TRAILING_STOP", "ICEBERG"}

\* Marketable when submitted, against the price with slippage.
Crosses(r) ==
    IF r.side = "BUY" THEN r.px >= FillPrice(acct, price, r.side)
                      ELSE r.px <= FillPrice(acct, price, r.side)

SubmitPrice(r) == IF PricedLimit(r) THEN r.px ELSE FillPrice(acct, price, r.side)

\* What submit_order makes of the request.  A marketable FOK order reaches
\* _depth_covers, which unpacks the OrderBookLevel objects of the book as
\* pairs: a TypeError leaves the order outside every book and the history.
Fate(r) ==
    IF Malformed(r) THEN "REJECTED"
    ELSE IF GroupResolved(r) THEN "CANCELLED"
    ELSE IF ~r.listed THEN "REJECTED"
    ELSE IF Advanced(r) THEN "PENDING"
    ELSE IF PricedLimit(r) /\ Crosses(r) /\ r.postOnly THEN "REJECTED"
    ELSE IF PricedLimit(r) /\ Crosses(r) /\ r.tif = "FOK" THEN "RAISED"
    ELSE IF PricedLimit(r) /\ ~Crosses(r) /\ r.tif \in {"IOC", "FOK"}
         THEN "CANCELLED"
    ELSE IF PricedLimit(r) /\ ~Crosses(r) THEN "PENDING"
    ELSE IF ~MarginOk(acct, SubmitPrice(r), price, r.qty) THEN "REJECTED"
    ELSE "FILLED"

Idle == ~sweeping

CanSubmit == Idle /\ Len(orders) < MaxOrders

SubmitDecided(r, status) ==
    /\ CanSubmit
    /\ Fate(r) = status
    /\ orders' = Append(orders, [NewOrder(r) EXCEPT !.status = status, !.heard = TRUE])
    /\ counters' = AppendCount(counters, status)
    /\ resting' = IF status = "PENDING" THEN resting \cup {Len(orders) + 1} ELSE resting
    /\ UNCHANGED <<acct, winner, price, now, due, todo, sweeping>>

SubmitRejected(r) == SubmitDecided(r, "REJECTED")
SubmitCancelled(r) == SubmitDecided(r, "CANCELLED")
SubmitRests(r) == SubmitDecided(r, "PENDING")

SubmitRaises(r) ==
    /\ CanSubmit
    /\ Fate(r) = "RAISED"
    /\ orders' = Append(orders, NewOrder(r))
    /\ UNCHANGED <<acct, resting, winner, counters, price, now, due, todo, sweeping>>

SubmitFills(r) ==
    LET o == [NewOrder(r) EXCEPT !.status = "FILLED", !.heard = TRUE,
                                 !.filled = r.qty, !.done = r.qty]
    IN  /\ CanSubmit
        /\ Fate(r) = "FILLED"
        /\ acct' = Filled(acct, r.side, r.qty, SubmitPrice(r), r.sl, r.tp)
        /\ ResolveOco(Append(orders, o), AppendCount(counters, "FILLED"),
                      Len(orders) + 1)
        /\ UNCHANGED <<price, now, due, todo, sweeping>>

-----------------------------------------------------------------------------
(* cancel_order, cancel_all_orders, close_position                          *)

Cancelled(ids) ==
    /\ orders' = CancelIn(orders, ids)
    /\ counters' = Count(counters, "CANCELLED",
                         Cardinality({i \in ids : /\ orders[i].heard
                                                  /\ orders[i].status # "CANCELLED"}))
    /\ resting' = resting \ ids
    /\ UNCHANGED <<acct, winner, price, now, due, todo, sweeping>>

CancelOrder(id) == Idle /\ id \in resting /\ Cancelled({id})
CancelAllOrders == Idle /\ resting # {} /\ Cancelled(resting)

\* The MARKET order that a forced close of the position submits and fills.
CloseOrder(side, qty) ==
    LET r == [type |-> "MARKET", side |-> side, qty |-> qty, px |-> None,
              stop |-> None, trail |-> None, percent |-> TRUE, visible |-> None, tif |-> "GTC",
              postOnly |-> FALSE, expire |-> None, oco |-> NoGroup,
              sl |-> None, tp |-> None, listed |-> TRUE]
    IN  [NewOrder(r) EXCEPT !.status = "FILLED", !.heard = TRUE,
                            !.filled = qty, !.done = qty]

ForceClose(qty) ==
    /\ orders' = Append(orders, CloseOrder(Opposite(acct.pos.side), qty))
    /\ counters' = AppendCount(counters, "FILLED")

HandleClosePosition ==
    /\ Idle
    /\ acct.pos.qty > 0
    /\ ForceClose(acct.pos.qty)
    /\ acct' = ForceClosed(acct, price, acct.pos.qty)
    /\ UNCHANGED <<resting, winner, price, now, due, todo, sweeping>>

\* _handle_update_config of this exchange: an open position keeps its margin.
UpdateConfig(terms) ==
    /\ Idle
    /\ acct' = [acct EXCEPT !.terms = terms]
    /\ UNCHANGED <<orders, resting, winner, counters, price, now, due, todo, sweeping>>

-----------------------------------------------------------------------------
(* A tick: the market moves; in the turn of this exchange triggered          *)
(* positions close, then the books are swept in the order limits,            *)
(* stop-limits, trailing stops, icebergs, each in the order of submission,   *)
(* then funding may be charged.                                              *)

\* Another move may come first: the tick of an exchange before this one raised.
MarketMoves(p) ==
    /\ Idle
    /\ now < MaxTicks
    /\ now' = now + 1
    /\ price' = p
    /\ due' = TRUE
    /\ UNCHANGED <<acct, orders, resting, winner, counters, todo, sweeping>>

StartSweep ==
    /\ Idle
    /\ due
    /\ due' = FALSE
    /\ sweeping' = TRUE
    /\ todo' = resting
    /\ UNCHANGED <<resting, winner, price, now>>
    /\ IF Trigger(acct, price) = "NONE"
       THEN UNCHANGED <<acct, orders, counters>>
       ELSE /\ ForceClose(TriggeredQty(acct, price))
            /\ acct' = Swept(acct, price)

BookRank(type) ==
    CASE type = "LIMIT" -> 1 [] type = "STOP_LIMIT" -> 2
      [] type = "TRAILING_STOP" -> 3 [] type = "ICEBERG" -> 4

\* Order id is the next one the sweep examines.
Turn(id) ==
    /\ sweeping
    /\ id \in todo
    /\ \A other \in todo \ {id} :
          \/ BookRank(orders[id].req.type) < BookRank(orders[other].req.type)
          \/ /\ orders[id].req.type = orders[other].req.type
             /\ id < other

\* The sweep leaves order id, as o, where it was.
Pass(id, o) ==
    /\ todo' = todo \ {id}
    /\ orders' = [orders EXCEPT ![id] = o]
    /\ UNCHANGED <<acct, resting, winner, counters, price, now, due, sweeping>>

\* An OCO sibling filled earlier in the same sweep cancelled this order.
SkipDecided(id) ==
    /\ Turn(id)
    /\ orders[id].status # "PENDING"
    /\ Pass(id, orders[id])

\* Mutant: the loop trusts its snapshot of the book.
DueInSnapshot(id, type) ==
    /\ Turn(id)
    /\ orders[id].req.type = type

Due(id, type) ==
    /\ Turn(id)
    /\ orders[id].status = "PENDING"
    /\ orders[id].req.type = type

\* _check_margin refused order o.  The status listener counts the rejection,
\* and appending the order to the history again counts it a second time.
Refuse(id, o) ==
    /\ todo' = todo \ {id}
    /\ orders' = [orders EXCEPT ![id] = [o EXCEPT !.status = "REJECTED"]]
    /\ counters' = AppendCount(Count(counters, "REJECTED", 1), "REJECTED")
    /\ resting' = resting \ {id}
    /\ UNCHANGED <<acct, winner, price, now, due, sweeping>>

\* _execute_limit_order and _execute_market_order of order id, as o.
Execute(id, o, at) ==
    IF MarginOk(acct, at, at, o.req.qty)
    THEN LET done == [o EXCEPT !.status = "FILLED", !.filled = o.req.qty,
                               !.done = o.req.qty]
         IN  /\ acct' = Filled(acct, o.req.side, o.req.qty, at, None, None)
             /\ ResolveOco([orders EXCEPT ![id] = done],
                           Count(counters, "FILLED", 1), id)
             /\ todo' = todo \ {id}
             /\ UNCHANGED <<price, now, due, sweeping>>
    ELSE Refuse(id, o)

\* The market trades at or through the limit of a resting order.
Reached(r) == IF r.side = "BUY" THEN price <= r.px ELSE price >= r.px

\* Mutant: the order expires one tick late.
ExpiredLate(r) == r.expire # None /\ now > r.expire

Expired(r) == r.expire # None /\ now >= r.expire

ExpireLimit(id) ==
    /\ Due(id, "LIMIT")
    /\ Expired(orders[id].req)
    /\ orders' = [orders EXCEPT ![id].status = "CANCELLED"]
    /\ counters' = Count(counters, "CANCELLED", 1)
    /\ resting' = resting \ {id}
    /\ todo' = todo \ {id}
    /\ UNCHANGED <<acct, winner, price, now, due, sweeping>>

CheckLimit(id) ==
    /\ Due(id, "LIMIT")
    /\ ~Expired(orders[id].req)
    /\ IF Reached(orders[id].req)
       THEN Execute(id, orders[id], orders[id].req.px)
       ELSE Pass(id, orders[id])

\* The stop stays triggered once the price has reached it.
CheckTrigger(o) ==
    o.triggered \/ IF o.req.side = "BUY" THEN price >= o.req.stop
                                         ELSE price <= o.req.stop

CheckStopLimit(id) ==
    LET o == [orders[id] EXCEPT !.triggered = CheckTrigger(orders[id])]
    IN  /\ Due(id, "STOP_LIMIT")
        /\ IF o.triggered /\ Reached(o.req)
           THEN Execute(id, o, o.req.px)
           ELSE Pass(id, o)

\* Mutant: the comparison of the two sides is swapped.
ImprovesSwapped(o) ==
    IF o.req.side = "BUY" THEN price > o.best ELSE price < o.best

\* A price better for the holder than the best one seen: lower for a BUY.
Improves(o) == IF o.req.side = "BUY" THEN price < o.best ELSE price > o.best

Trail(r) == IF r.percent THEN (price * r.trail) \div 100 ELSE r.trail
TrailFrom(o) == IF o.req.side = "BUY" THEN price + Trail(o.req)
                                      ELSE price - Trail(o.req)

UpdateStopPrice(o) ==
    IF ~o.active \/ Improves(o)
    THEN [o EXCEPT !.active = TRUE, !.best = price, !.stopPx = TrailFrom(o)]
    ELSE o

CheckTrailingStop(id) ==
    LET o == UpdateStopPrice(orders[id])
    IN  /\ Due(id, "TRAILING_STOP")
        /\ IF IF o.req.side = "BUY" THEN price >= o.stopPx ELSE price <= o.stopPx
           THEN Execute(id, o, FillPrice(acct, price, o.req.side))
           ELSE Pass(id, o)

SliceQty(o) == Least(o.req.visible, o.hidden)
SlicePrice(o) == IF o.req.px = None THEN price ELSE o.req.px

\* A slice the margin check refuses is an order of its own in the history;
\* the iceberg keeps resting.
RefuseSlice(id) ==
    /\ todo' = todo \ {id}
    /\ orders' = [orders EXCEPT ![id].refused = @ + 1]
    /\ counters' = AppendCount(counters, "REJECTED")
    /\ UNCHANGED <<acct, resting, winner, price, now, due, sweeping>>

\* The iceberg after a slice.  With nothing hidden left it is FILLED and
\* reports its whole quantity, the visible part that never traded included.
AfterSlice(o) ==
    LET q == SliceQty(o)
    IN  IF o.hidden = q
        THEN [o EXCEPT !.hidden = 0, !.done = @ + q, !.status = "FILLED",
                       !.filled = o.req.qty]
        ELSE [o EXCEPT !.hidden = @ - q, !.done = @ + q]

ExecuteSlice(id) ==
    LET o == orders[id]
        s == AfterSlice(o)
    IN  /\ acct' = Filled(acct, o.req.side, SliceQty(o), SlicePrice(o), None, None)
        /\ todo' = todo \ {id}
        /\ UNCHANGED <<price, now, due, sweeping>>
        /\ IF s.status = "FILLED"
           THEN ResolveOco([orders EXCEPT ![id] = s], Count(counters, "FILLED", 1), id)
           ELSE /\ orders' = [orders EXCEPT ![id] = s]
                /\ UNCHANGED <<resting, winner, counters>>

CheckIceberg(id) ==
    LET o == orders[id]
    IN  /\ Due(id, "ICEBERG")
        /\ IF o.req.px # None /\ ~Reached(o.req)
           THEN Pass(id, o)
           ELSE IF MarginOk(acct, SlicePrice(o), SlicePrice(o), SliceQty(o))
           THEN ExecuteSlice(id)
           ELSE RefuseSlice(id)

EndTick(rate) ==
    /\ sweeping
    /\ todo = {}
    /\ sweeping' = FALSE
    /\ acct' = Funded(acct, price, rate)
    /\ UNCHANGED <<orders, resting, winner, counters, price, now, due, todo>>

-----------------------------------------------------------------------------
Submit ==
    \E r \in Requests :
        \/ SubmitRejected(r)
        \/ SubmitCancelled(r)
        \/ SubmitRests(r)
        \/ SubmitRaises(r)
        \/ SubmitFills(r)

Examine ==
    \E id \in todo :
        \/ SkipDecided(id)
        \/ ExpireLimit(id)
        \/ CheckLimit(id)
        \/ CheckStopLimit(id)
        \/ CheckTrailingStop(id)
        \/ CheckIceberg(id)

Next ==
    \/ Submit
    \/ \E id \in resting : CancelOrder(id)
    \/ CancelAllOrders
    \/ HandleClosePosition
    \/ \E terms \in Terms : UpdateConfig(terms)
    \/ \E p \in Prices : MarketMoves(p)
    \/ StartSweep
    \/ Examine
    \/ \E rate \in FundingRates : EndTick(rate)

Spec == Init /\ [][Next]_vars

-----------------------------------------------------------------------------
(* Properties                                                               *)

PositionType ==
    [side: Sides \cup {"NONE"}, qty: Nat, cost: Int, margin: Int, sl: Int, tp: Int,
     fills: Nat, lo: Nat, hi: Nat]

AccountType ==
    [balance: Int, pnl: Int, fees: Int, insurance: Int, funding: Int,
     pos: PositionType, terms: TermsType]

OrderType ==
    [req: RequestType, status: Statuses, heard: BOOLEAN, filled: Int, done: Int,
     hidden: Int, triggered: BOOLEAN, active: BOOLEAN, best: Nat, stopPx: Int,
     refused: Nat]

\* The type invariant: the shape of the account, of the orders and of the
\* sweep, and that the sweep only runs over orders that exist.
TypeOK ==
    /\ acct \in AccountType
    /\ orders \in Seq(OrderType)
    /\ resting \subseteq Ids
    /\ winner \in [Groups -> Nat]
    /\ counters \in [submitted: Nat, filled: Nat, rejected: Nat, cancelled: Nat]
    /\ price \in Prices
    /\ now \in Nat
    /\ due \in BOOLEAN
    /\ todo \subseteq Ids
    /\ sweeping \in BOOLEAN

\* What the account started with, told from what it holds now.
Worth(a) == a.balance + a.pos.margin + a.fees - a.pnl - a.funding + a.insurance

\* Money is conserved: what the account started with is in the balance, in the
\* margin of the position, was paid as a fee or as funding, was lost or won by
\* closed trades, or came from the insurance fund.  Checks that no path through
\* _fill_market_order, _finalize_order_execution, _finalize_iceberg_execution,
\* _close_position and the liquidations locks margin it does not give back, or
\* gives back margin twice.
MoneyConserved == Worth(acct) = InitialBalance

\* The margin held for the position is what its executions locked: between its
\* cost at the highest and at the lowest leverage they locked margin at, to one
\* tick of margin each.  Partial closes release margin in proportion, a residual
\* position gets its share of the order's margin and no more, and no margin stays
\* behind a closed position.  update_config changes the leverage of a position
\* that is open and leaves its margin as it was: only the fills after it lock
\* margin at the new one.
MarginBacksPosition ==
    LET p == acct.pos
    IN  /\ p.cost <= (p.margin + p.fills) * p.hi
        /\ (p.margin - p.fills) * p.lo <= p.cost

Signed(side, qty) == IF side = "SELL" THEN -qty ELSE qty

\* The sum of the first n values of f.
SumUpTo(f, n) ==
    LET sum[k \in 0..n] == IF k = 0 THEN 0 ELSE sum[k - 1] + f[k]
    IN  sum[n]

\* What the executions of the orders os bought, less what they sold.
NetDone(os) ==
    SumUpTo([id \in DOMAIN os |-> Signed(os[id].req.side, os[id].done)], Len(os))

\* The open position is what the executions add up to: buys minus sells, over
\* direct fills, swept fills, iceberg slices and forced closes.
PositionIsSumOfFills == Signed(acct.pos.side, acct.pos.qty) = NetDone(orders)

\* An order is in a _pending_* book exactly while it is PENDING: cancelling,
\* expiring, filling, a refused margin check and the OCO cancellation all take
\* it out, so cancel_order can never overwrite a decided status and no pending
\* order is out of reach of the sweep and of cancel_all_orders.  A FOK order
\* whose submission raised is in neither (see FokIsDecided).
RestingIsPending ==
    \A id \in Ids :
        (id \in resting) <=> (orders[id].status = "PENDING" /\ orders[id].heard)

\* _resolve_oco: once an order of an OCO group is filled, every other one is
\* decided and not filled, and the group names the filled one.
OcoOneFilled ==
    \A id \in Ids :
        LET g == orders[id].req.oco
        IN  g # NoGroup /\ orders[id].status = "FILLED" =>
              /\ winner[g] = id
              /\ \A other \in Ids \ {id} :
                    orders[other].req.oco = g =>
                        orders[other].status \in {"CANCELLED", "REJECTED"}

WithStatus(status) == {id \in Ids : orders[id].status = status}

\* The counters for fills and cancellations agree with the orders: each
\* transition of an order in the history is counted once, whether the order
\* was appended before it (listener) or after it (append).
TransitionsCounted ==
    /\ counters.filled = Cardinality(WithStatus("FILLED"))
    /\ counters.cancelled =
         Cardinality({id \in WithStatus("CANCELLED") : orders[id].heard})

\* A FILLED, REJECTED or CANCELLED order never changes again: no later cancel,
\* OCO resolution, expiry or sweep touches its status or its executions.
DecidedIsFinal ==
    [][\A id \in Ids : orders[id].status # "PENDING" => orders'[id] = orders[id]]_vars

\* A resting GTD order at or past its expiry is never filled by a sweep, not
\* even when the same tick brings the market to its limit.
NoFillPastExpiry ==
    [][\A id \in resting :
         orders[id].req.expire \in 0..now => orders'[id].status # "FILLED"]_vars

\* TrailingStopOrder.update_stop_price: once active, the stop follows the market
\* in the holder's favour and never gives way, over any path of prices.  (With
\* a percentage over 100, which _create_order accepts, the stop of a SELL
\* is below zero, where no price reaches it, and moves down.)
TrailingRatchets ==
    [][\A id \in Ids :
         /\ orders[id].active
         /\ orders[id].req.percent => orders[id].req.trail <= 100
         => IF orders[id].req.side = "BUY"
            THEN orders'[id].stopPx <= orders[id].stopPx
            ELSE orders'[id].stopPx >= orders[id].stopPx]_vars

\* The time-in-force rule of submit_order for fill-or-kill orders: FOK never
\* rests, so it is filled, cancelled or rejected.
FokIsDecided ==
    \A id \in Ids : orders[id].req.tif = "FOK" => orders[id].status # "PENDING"

\* The promise of OCO groups: only one order of a group executes.
OcoOneExecutes ==
    \A i, j \in Ids :
        /\ i # j
        /\ orders[i].req.oco = orders[j].req.oco
        /\ orders[i].req.oco # NoGroup
        => orders[i].done = 0 \/ orders[j].done = 0

\* A FILLED order has traded the quantity it reports as filled.
FilledIsTraded ==
    \A id \in WithStatus("FILLED") : orders[id].filled = orders[id].done

\* The counter for rejections agrees with the orders and iceberg slices that
\* were rejected.
RejectionsCounted ==
    counters.rejected = Cardinality(WithStatus("REJECTED"))
                          + MapThenSumSet(LAMBDA id : orders[id].refused, Ids)
=============================================================================
