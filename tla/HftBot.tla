------------------------------- MODULE HftBot -------------------------------
(***************************************************************************)
(* The C++ bot: its trading loop (core/main.cpp, core/bot_loop.cpp), the   *)
(* receiver thread's callbacks (core/bot_setup.cpp), the position book     *)
(* they share (position/position_manager.h) and the kill switch            *)
(* (risk/kill_switch.h), against an exchange that fills, rests, rejects,   *)
(* expires or cancels orders, answers them with errors, closes positions   *)
(* by itself and serves other clients of the account.  A quantity bought   *)
(* is positive, one sold negative.  Every call on the book is one step, as *)
(* its mutex makes it.                                                     *)
(***************************************************************************)
EXTENDS Integers, Sequences, FiniteSets

CONSTANTS Symbols,
          Units,      \* signed quantities of the bot's orders: 1 (LONG), -1 (SHORT)
          MissLimit,  \* SYNC_MISS_LIMIT (3)
          FastFills,  \* may an answer overtake add_pending_order?
          Kills,      \* may the kill switch be activated?
          MaxOrders, MaxDrops, \* bounds: orders of the bot, losses of the receiver's messages
          MaxOthers   \* bound: messages about orders of other clients

VARIABLES
  xpos, resting,                       \* the exchange: position of a symbol, resting orders of the bot
  up, down,                            \* messages to the exchange, and to the receiver
  pos, pending, active, misses, closing, \* the book
  pc, canTrade, sym,                   \* the loop: step, can_trade, symbol of the order just sent
  killed, killPc, killer,              \* active_, the step of activate(), the thread in it (or none)
  overtaken,                           \* history: symbols that had a position when add_pending_order came
  orders, drops, others

exchange == <<xpos, resting>>
book == <<pos, pending, active, misses, closing>>
loop == <<pc, canTrade, sym>>
kill == <<killed, killPc, killer>>
counts == <<orders, drops, others>>
vars == <<exchange, up, down, book, loop, kill, overtaken, counts>>

Abs(n) == IF n < 0 THEN -n ELSE n
Sign(n) == IF n < 0 THEN -1 ELSE 1

Msg(k, s, q) == [kind |-> k, sym |-> s, qty |-> q]
\* An order of the bot; late: it was sent after the kill switch had been activated.
Order(s, q) == [kind |-> "order", sym |-> s, qty |-> q, late |-> killed]
NoSym == CHOOSE s \in Symbols : TRUE
Account == [kind |-> "account", held |-> xpos]

Init ==
  /\ xpos = [s \in Symbols |-> 0] /\ resting = {} /\ up = <<>> /\ down = <<>>
  /\ pos = [s \in Symbols |-> 0] /\ pending = {} /\ active = {}
  /\ misses = [s \in Symbols |-> 0] /\ closing = {}
  /\ pc = "top" /\ canTrade = FALSE /\ sym = NoSym
  /\ killed = FALSE /\ killPc = "armed" /\ killer = "none" /\ overtaken = {}
  /\ orders = 0 /\ drops = 0 /\ others = 0

-----------------------------------------------------------------------------
(* The loop, one tick: can_trade is read first, risk and closes come next. *)

CanTrade == ~killed

Top ==
  /\ pc = "top" /\ pc' = "risk" /\ canTrade' = CanTrade
  /\ UNCHANGED <<exchange, up, down, book, sym, kill, overtaken, counts>>

\* update_risk_state when no limit is broken, or when the switch is active already.
Risk ==
  /\ pc = "risk" /\ killer # "loop"
  /\ pc' = "sltp"
  /\ UNCHANGED <<exchange, up, down, book, canTrade, sym, kill, overtaken, counts>>

\* process_sl_tp: a position that reached a limit is closed, unless a close is under way.
SlTp ==
  /\ pc = "sltp" /\ pc' = "trade"
  /\ \/ UNCHANGED <<up, closing>>
     \/ \E s \in Symbols \ closing :
          /\ pos[s] # 0
          /\ up' = Append(up, Msg("close", s, 0)) /\ closing' = closing \cup {s}
  /\ UNCHANGED <<exchange, down, pos, pending, active, misses, canTrade, sym, kill, overtaken, counts>>

\* A mark of a close that was never filled expires.
CloseExpires(s) ==
  /\ s \in closing /\ up = <<>> /\ down = <<>> /\ closing' = closing \ {s}
  /\ UNCHANGED <<exchange, up, down, pos, pending, active, misses, loop, kill, overtaken, counts>>

\* A signal passes the risk checks, the symbol is not engaged, and the order is sent.
Submit(s) ==
  /\ pc = "trade" /\ canTrade /\ s \notin active /\ orders < MaxOrders
  /\ \E q \in Units : up' = Append(up, Order(s, q))
  /\ orders' = orders + 1 /\ pc' = "sent" /\ sym' = s
  /\ UNCHANGED <<exchange, down, book, canTrade, kill, overtaken, drops, others>>

\* add_pending_order, after submit_order has returned.
AddPending ==
  /\ pc = "sent" /\ pc' = "trade"
  /\ pending' = pending \cup {sym} /\ active' = active \cup {sym}
  /\ overtaken' = IF pos[sym] # 0 THEN overtaken \cup {sym} ELSE overtaken
  /\ UNCHANGED <<exchange, up, down, pos, misses, closing, canTrade, sym, kill, counts>>

TickEnds ==
  /\ pc = "trade" /\ pc' = "top"
  /\ UNCHANGED <<exchange, up, down, book, canTrade, sym, kill, overtaken, counts>>

-----------------------------------------------------------------------------
(* activate(), by the loop (a broken limit) or by the monitor thread: the  *)
(* flag, cancel_all_orders, a close for each position.  A request that     *)
(* cannot be sent is only logged.                                          *)

\* Mutant: active_ is set when the callbacks have run.
FlaggedAfterwards(step) == step = "closed"
\* active_ in the steps of activate().
Flagged(step) == TRUE

Activate(who) ==
  /\ Kills /\ killPc = "armed" /\ killPc' = "flagged" /\ killer' = who
  /\ killed' = Flagged("flagged")
  /\ who = "loop" => pc = "risk"
  /\ UNCHANGED <<exchange, up, down, book, loop, overtaken, counts>>

CancelAll ==
  /\ killPc = "flagged" /\ killed' = Flagged("cancelled")
  /\ \/ killPc' = "cancelled" /\ up' = Append(up, Msg("cancel_all", NoSym, 0))
     \/ killPc' = "uncancelled" /\ UNCHANGED up
  /\ UNCHANGED <<exchange, down, book, loop, killer, overtaken, counts>>

\* One close for each symbol of S, in whatever order the map has.
Closes(S) ==
  {c \in [1..Cardinality(S) -> {Msg("close", s, 0) : s \in S}] :
     \A s \in S : \E i \in DOMAIN c : c[i].sym = s}

CloseAll ==
  /\ killPc \in {"cancelled", "uncancelled"}
  /\ killPc' = IF killPc = "cancelled" THEN "done" ELSE "undone"
  /\ \E S \in SUBSET {s \in Symbols : pos[s] # 0} :
       /\ \E c \in Closes(S) : up' = up \o c
       /\ closing' = closing \cup S
  /\ killed' = Flagged("closed") /\ killer' = "none"
  /\ UNCHANGED <<exchange, down, pos, pending, active, misses, loop, overtaken, counts>>

-----------------------------------------------------------------------------
(* The exchange.  An error goes to the connection of the executor, which   *)
(* reads nothing: the receiver does not hear of it.                        *)

HandleOrder(m) ==
  \/ /\ xpos' = [xpos EXCEPT ![m.sym] = @ + m.qty]
     /\ down' = Append(down, Msg("FILLED", m.sym, m.qty)) /\ UNCHANGED resting
  \/ /\ resting' = resting \cup {m}
     /\ down' = Append(down, Msg("PENDING", m.sym, m.qty)) /\ UNCHANGED xpos
  \/ down' = Append(down, Msg("REJECTED", m.sym, m.qty)) /\ UNCHANGED exchange
  \/ UNCHANGED <<exchange, down>>

HandleClose(s) ==
  \/ /\ xpos[s] # 0 /\ xpos' = [xpos EXCEPT ![s] = 0]
     /\ down' = Append(down, Msg("FILLED", s, -xpos[s])) /\ UNCHANGED resting
  \/ UNCHANGED <<exchange, down>>

HandleCancelAll ==
  /\ resting' = {} /\ UNCHANGED xpos
  /\ down' = Append(down, Msg("CANCELLED_ALL", NoSym, 0))

ExchangeHandles ==
  /\ up # <<>> /\ up' = Tail(up)
  /\ FastFills \/ pc # "sent"
  /\ LET m == Head(up) IN
     CASE m.kind = "order" -> HandleOrder(m)
       [] m.kind = "close" -> HandleClose(m.sym)
       [] m.kind = "cancel_all" -> HandleCancelAll
  /\ UNCHANGED <<book, loop, kill, overtaken, counts>>

\* A tick fills or expires a resting order.
RestingEnds(o) ==
  /\ resting' = resting \ {o}
  /\ \/ /\ xpos' = [xpos EXCEPT ![o.sym] = @ + o.qty]
        /\ down' = Append(down, Msg("FILLED", o.sym, o.qty))
     \/ down' = Append(down, Msg("CANCELLED", o.sym, 0)) /\ UNCHANGED xpos
  /\ UNCHANGED <<up, book, loop, kill, overtaken, counts>>

\* A tick closes a position that reached its stop, its target or its liquidation price;
\* a partial liquidation closes half of it.
StopsOut(s) ==
  /\ xpos[s] # 0
  /\ \E n \in {Abs(xpos[s]), (Abs(xpos[s]) + 1) \div 2} :
       /\ xpos' = [xpos EXCEPT ![s] = @ - Sign(@) * n]
       /\ down' = Append(down, Msg("FILLED", s, -(Sign(xpos[s]) * n)))
  /\ UNCHANGED <<resting, up, book, loop, kill, overtaken, counts>>

\* What the receiver hears of orders of other clients, of arbitrage and of the other
\* exchanges, which the callback does not tell from the bot's own: fills, orders that
\* ended without one, and cancels of all orders.
OtherClients ==
  /\ others < MaxOthers /\ others' = others + 1
  /\ \/ \E s \in Symbols, q \in {-1, 1} :
          /\ xpos' = [xpos EXCEPT ![s] = @ + q] \/ UNCHANGED xpos
          /\ down' = Append(down, Msg("FILLED", s, q)) /\ UNCHANGED resting
     \/ \E s \in Symbols : down' = Append(down, Msg("CANCELLED", s, 0)) /\ UNCHANGED exchange
     \/ HandleCancelAll
     \/ down' = Append(down, Msg("CANCELLED_ALL", NoSym, 0)) /\ UNCHANGED exchange
  /\ UNCHANGED <<up, book, loop, kill, overtaken, orders, drops>>

Broadcast ==
  /\ \A i \in DOMAIN down : down[i].kind # "account"
  /\ down' = Append(down, Account)
  /\ UNCHANGED <<exchange, up, book, loop, kill, overtaken, counts>>

\* The receiver's connection drops; what was under way to it is lost.
Drop ==
  /\ drops < MaxDrops /\ drops' = drops + 1 /\ down' = <<>>
  /\ UNCHANGED <<exchange, up, book, loop, kill, overtaken, orders, others>>

-----------------------------------------------------------------------------
(* The receiver thread: apply_fill, cancels and the account broadcast. *)

\* REJECTED or CANCELLED: the symbol is released unless it has a position.
CancelPending(s) ==
  /\ pending' = pending \ {s}
  /\ active' = IF pos[s] # 0 THEN active ELSE active \ {s}

\* Mutant: only a fill for a position on the book counts.
OpensHeld(s) == FALSE
\* A fill without a position opens one if an order is pending; else it is a stray.
Opens(s) == s \in pending

\* Mutant: a close keeps the symbol engaged.
ReleasedByCloseNot(s) == active
\* active_symbols_ after a close: the symbol stays in it while an order is pending.
ReleasedByClose(s) == IF s \in pending THEN active ELSE active \ {s}

\* apply_fill of a fill: a position grows, shrinks or goes (what the fill has in excess is
\* not booked); without one it opens, short if the fill is a sell.
ApplyFill(s, q) ==
  \/ /\ pos[s] # 0 /\ Sign(q) = Sign(pos[s])
     /\ pos' = [pos EXCEPT ![s] = @ + q] /\ pending' = pending \ {s}
     /\ UNCHANGED <<active, misses, closing>>
  \/ /\ pos[s] # 0 /\ Sign(q) # Sign(pos[s])
     /\ pending' = pending \ {s} /\ closing' = closing \ {s} /\ UNCHANGED misses
     /\ IF Abs(q) < Abs(pos[s])
        THEN pos' = [pos EXCEPT ![s] = @ + q] /\ UNCHANGED active
        ELSE pos' = [pos EXCEPT ![s] = 0] /\ active' = ReleasedByClose(s)
  \/ /\ pos[s] = 0 /\ Opens(s)
     /\ pos' = [pos EXCEPT ![s] = q] /\ pending' = pending \ {s}
     /\ UNCHANGED <<active, misses, closing>>
  \/ pos[s] = 0 /\ ~Opens(s) /\ UNCHANGED book

\* sync_position: a known position takes the exchange's size, but keeps its side; an
\* unknown one is adopted unless an order of ours is pending.
Synced(held) ==
  [s \in Symbols |-> IF held[s] = 0 \/ (pos[s] = 0 /\ s \in pending) THEN pos[s]
                     ELSE IF pos[s] = 0 THEN held[s] ELSE Sign(pos[s]) * Abs(held[s])]

\* reconcile_positions counts the broadcasts in a row that miss a position.
Misses(held) ==
  [s \in Symbols |-> IF held[s] # 0 THEN 0 ELSE IF pos[s] = 0 THEN misses[s] ELSE misses[s] + 1]

\* Positions missing from MissLimit broadcasts in a row.
Ghosts(held) == {s \in Symbols : Misses(held)[s] >= MissLimit}

OnAccount(held) ==
  LET gone == Ghosts(held)
      now == [s \in Symbols |-> IF s \in gone THEN 0 ELSE Synced(held)[s]] IN
  /\ pos' = now
  /\ misses' = [s \in Symbols |-> IF s \in gone THEN 0 ELSE Misses(held)[s]]
  /\ active' = (active \cup {s \in Symbols : now[s] # 0 /\ pos[s] = 0}) \ gone
  /\ closing' = closing \ gone
  /\ UNCHANGED pending

Receive ==
  /\ down # <<>> /\ down' = Tail(down)
  /\ LET m == Head(down) IN
     CASE m.kind = "FILLED" -> ApplyFill(m.sym, m.qty)
       [] m.kind = "PENDING" -> UNCHANGED book
       [] m.kind \in {"REJECTED", "CANCELLED"} ->
            CancelPending(m.sym) /\ closing' = closing \ {m.sym} /\ UNCHANGED <<pos, misses>>
       [] m.kind = "CANCELLED_ALL" -> /\ pending' = {} /\ active' = active \ {s \in pending : pos[s] = 0}
                                      /\ UNCHANGED <<pos, misses, closing>>
       [] m.kind = "account" -> OnAccount(m.held)
  /\ UNCHANGED <<exchange, up, loop, kill, overtaken, counts>>

-----------------------------------------------------------------------------
Next ==
  \/ Top \/ Risk \/ SlTp \/ AddPending \/ TickEnds
  \/ \E s \in Symbols : Submit(s) \/ CloseExpires(s) \/ StopsOut(s)
  \/ \E o \in resting : RestingEnds(o)
  \/ \E who \in {"loop", "monitor"} : Activate(who)
  \/ CancelAll \/ CloseAll
  \/ ExchangeHandles \/ OtherClients \/ Broadcast \/ Drop \/ Receive

Spec == Init /\ [][Next]_vars

\* The threads run, the exchange answers and broadcasts its accounts.
LiveSpec == Spec /\ WF_vars(AddPending) /\ WF_vars(ExchangeHandles) /\ WF_vars(Receive) /\ WF_vars(Broadcast)

-----------------------------------------------------------------------------
(* Every field of PositionManager, of the orders in flight and of the      *)
(* callback stays in its range, through lost, late and foreign fills.      *)
TypeOK ==
  /\ pos \in [Symbols -> Int] /\ xpos \in [Symbols -> Int] /\ misses \in [Symbols -> 0..(MissLimit - 1)]
  /\ pending \subseteq Symbols /\ active \subseteq Symbols /\ closing \subseteq Symbols
  /\ \A o \in resting : o.sym \in Symbols /\ o.qty \in Units
  /\ pc \in {"top", "risk", "sltp", "trade", "sent"}
  /\ killPc \in {"armed", "flagged", "cancelled", "uncancelled", "done", "undone"}

Engaged(s) == pos[s] # 0 \/ s \in pending

\* A symbol is in active_symbols_ exactly while it has a position or an order on its way,
\* unless a position came on the book between the submission of an order and
\* add_pending_order.
EngagedIffActive == \A s \in Symbols \ overtaken : Engaged(s) <=> s \in active

\* Without the exception it is not true.
AlwaysEngagedIffActive == \A s \in Symbols : Engaged(s) <=> s \in active

\* A position the exchange has closed without the bot hearing of it leaves the book.
Ghost(s) == pos[s] # 0 /\ xpos[s] = 0
GhostsLeave == \A s \in Symbols : Ghost(s) ~> ~Ghost(s)

\* A position of the exchange comes to be on the book, as long as it lasts.
Unbooked(s) == xpos[s] # 0 /\ pos[s] # xpos[s]
PositionsBooked == \A s \in Symbols : Unbooked(s) ~> ~Unbooked(s)

\* Once the cancel of all orders that the kill switch sent has reached the exchange, no
\* order rests there that was sent before the switch was activated.
CancelArrived == killPc \in {"cancelled", "done"} /\ \A i \in DOMAIN up : up[i].kind # "cancel_all"
KillCancelsEarlier == CancelArrived => \A o \in resting : o.late

\* After activation no new order is sent at all.
KilledSendsNothing == [][orders' > orders => ~killed]_vars
=============================================================================
