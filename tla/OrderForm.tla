----------------------------- MODULE OrderForm -----------------------------
(***************************************************************************)
(* The panel components/OrderForm.jsx with what an order goes through:     *)
(* submitOrder and its answer in hooks/useExchangeData.js, the socket, and *)
(* the exchange's handler of orders.  Quantities are counted in lots, as   *)
(* toFixed(4) leaves them; of the text fields only "filled in or empty" is *)
(* kept.  An account's balance never is in the form's hands: fills of      *)
(* others may move it at any time.                                         *)
(***************************************************************************)
EXTENDS Integers, Sequences

CONSTANTS Lots,            \* lots per unit (10000)
          Prices, Balances, Leverages, Percents,
          Typed,           \* quantities the user types, in lots
          DefaultBalance,  \* stands in for a balance that is missing
          ServerLeverage,  \* the leverage of the account
          Visible,         \* the one value typed as visible quantity, in lots
          Fields,          \* text fields the user may fill in
          MaxSubmits, MaxActs \* bounds: submissions; everything else the user and others do

VARIABLES
  orderType, filled, quantity, leverage, \* the form
  trailing,                              \* the flag trailing-stop
  price, balance,                        \* props: current price, the account's balance
  isOpen, connected,                     \* the socket, and what the page knows of it
  trading, tradingActive,                \* the same for the exchange's trading switch
  submitting, lastMsg, clears,           \* message shown, number of 4 s timers that will clear it
  orders,                                \* every order submitted, by number
  promise,                               \* of each order: "none", "queued", "timed" or "done"
  up, down,                              \* numbers on the wire to the exchange, answers on the way back
  result,                                \* of each order, at the exchange
  acts

form == <<orderType, filled, quantity, leverage, trailing>>
props == <<price, balance, isOpen, connected, trading, tradingActive>>
flight == <<orders, promise, up, down, result>>
vars == <<form, props, submitting, lastMsg, clears, flight, acts>>

Ids == 1..MaxSubmits
Types == {"MARKET", "LIMIT", "STOP_LIMIT", "TRAILING_STOP", "ICEBERG"}
NoMsg == [text |-> "none", id |-> 0]

Init ==
  /\ orderType = "MARKET" /\ filled = {} /\ quantity \in Typed /\ leverage \in Leverages
  /\ trailing = TRUE
  /\ price \in Prices /\ balance \in Balances
  /\ isOpen = TRUE /\ connected = TRUE /\ trading = TRUE /\ tradingActive = TRUE
  /\ submitting = FALSE /\ lastMsg = NoMsg /\ clears = 0
  /\ orders = <<>> /\ promise = [i \in Ids |-> "none"] /\ up = {} /\ down = {}
  /\ result = [i \in Ids |-> "none"] /\ acts = 0

-----------------------------------------------------------------------------
(* What is computed in every render. *)

availBalance == IF balance = 0 THEN DefaultBalance ELSE balance

\* Margin in lots times price: marginNeeded is this over leverage and lots.
marginExceeds == quantity * price > availBalance * leverage * Lots

\* Mutant: another click while an order is under way.
canSubmitTwice == connected /\ tradingActive /\ quantity > 0 /\ ~marginExceeds
canSubmit == connected /\ tradingActive /\ ~submitting /\ quantity > 0 /\ ~marginExceeds

-----------------------------------------------------------------------------
(* The user fills in the form. *)

Act == acts < MaxActs /\ acts' = acts + 1

SetType(t) ==
  /\ Act /\ (t = "TRAILING_STOP" => trailing)
  /\ orderType' = t
  /\ UNCHANGED <<filled, quantity, leverage, trailing, props, submitting, lastMsg, clears, flight>>

Edit(f) ==
  /\ Act /\ filled' = IF f \in filled THEN filled \ {f} ELSE filled \cup {f}
  /\ UNCHANGED <<orderType, quantity, leverage, trailing, props, submitting, lastMsg, clears, flight>>

SetQuantity(q) ==
  /\ Act /\ quantity' = q
  /\ UNCHANGED <<orderType, filled, leverage, trailing, props, submitting, lastMsg, clears, flight>>

\* toFixed rounds to the nearest lot.
Rounded(a, b) == (2 * a + b) \div (2 * b)

setQtyFromBalance(pct) ==
  /\ Act
  /\ quantity' = Rounded(availBalance * pct * Lots, 100 * price)
  /\ UNCHANGED <<orderType, filled, leverage, trailing, props, submitting, lastMsg, clears, flight>>

SetLeverage(l) ==
  /\ Act /\ leverage' = l
  /\ UNCHANGED <<orderType, filled, quantity, trailing, props, submitting, lastMsg, clears, flight>>

TypeWithoutFlag == IF orderType = "TRAILING_STOP" THEN "MARKET" ELSE orderType

\* The flag is switched, and the effect that follows.
FlagChanges ==
  /\ Act /\ trailing' = ~trailing
  /\ orderType' = IF trailing THEN TypeWithoutFlag ELSE orderType
  /\ UNCHANGED <<filled, quantity, leverage, props, submitting, lastMsg, clears, flight>>

-----------------------------------------------------------------------------
(* handleSubmit up to its await, with submitOrder. *)

SentFields(t) ==
  CASE t = "LIMIT" -> {"limit", "sl", "tp"}
    [] t = "STOP_LIMIT" -> {"stop", "limit", "sl", "tp"}
    [] t = "TRAILING_STOP" -> {"trail", "sl", "tp"}
    [] t = "ICEBERG" -> {"visible", "sl", "tp"}
    [] OTHER -> {"sl", "tp"}

\* parseFloat('') is NaN, which JSON sends as null: as good as absent.
Order == [type |-> orderType, qty |-> quantity, has |-> filled \cap SentFields(orderType),
          shown |-> leverage, wanted |-> trailing]

handleSubmit ==
  /\ canSubmit /\ Len(orders) < MaxSubmits
  /\ LET id == Len(orders) + 1 IN
     /\ orders' = Append(orders, Order)
     /\ promise' = [promise EXCEPT ![id] = IF isOpen THEN "timed" ELSE "queued"]
     /\ up' = IF isOpen THEN up \cup {id} ELSE up
  /\ submitting' = TRUE
  /\ UNCHANGED <<form, props, lastMsg, clears, down, result, acts>>

Texts == [FILLED |-> "filled", PENDING |-> "resting", REJECTED |-> "rejected", none |-> "awaiting"]

\* handleSubmit after its await; a timer is started and none is stopped.
Answered(id, status) ==
  /\ promise' = [promise EXCEPT ![id] = "done"]
  /\ lastMsg' = [text |-> Texts[status], id |-> id]
  /\ submitting' = FALSE
  /\ clears' = clears + 1

ClearMsg ==
  /\ clears > 0 /\ clears' = clears - 1 /\ lastMsg' = NoMsg
  /\ UNCHANGED <<form, props, submitting, flight, acts>>

-----------------------------------------------------------------------------
(* The exchange. *)

\* _create_order refuses an order that lacks what its type needs.
Complete(o) ==
  CASE o.type = "STOP_LIMIT" -> {"stop", "limit"} \subseteq o.has
    [] o.type = "TRAILING_STOP" -> "trail" \in o.has
    [] o.type = "ICEBERG" -> "visible" \in o.has /\ 0 < Visible /\ Visible < o.qty
    [] OTHER -> TRUE

Covered(o) == o.qty * price <= balance * ServerLeverage * Lots

\* What may become of an order: a limit order with a price rests or is marketable.
Outcomes(o) ==
  IF ~trading THEN {"error"}
  ELSE IF ~Complete(o) THEN {"REJECTED"}
  ELSE IF o.type \in {"STOP_LIMIT", "TRAILING_STOP", "ICEBERG"} THEN {"PENDING"}
  ELSE (IF Covered(o) THEN {"FILLED"} ELSE {"REJECTED"})
       \cup (IF o.type = "LIMIT" /\ "limit" \in o.has THEN {"PENDING"} ELSE {})

\* An error names no order; everything else comes back with its client_order_id.
ServerHandles(id) ==
  /\ id \in up /\ up' = up \ {id}
  /\ \E r \in Outcomes(orders[id]) :
       /\ result' = [result EXCEPT ![id] = r]
       /\ down' = IF r = "error" \/ ~isOpen THEN down ELSE down \cup {id}
  /\ UNCHANGED <<form, props, submitting, lastMsg, clears, orders, promise, acts>>

\* The order whose promise an answer resolves: its own, if that is still open.
Resolved(id) == IF promise[id] \in {"queued", "timed"} THEN id ELSE 0

AckArrives(id) ==
  /\ id \in down /\ down' = down \ {id}
  /\ IF Resolved(id) # 0 THEN Answered(Resolved(id), result[id])
     ELSE UNCHANGED <<promise, lastMsg, submitting, clears>>
  /\ UNCHANGED <<form, props, orders, up, result, acts>>

AckTimeout(id) ==
  /\ promise[id] = "timed"
  /\ Answered(id, "none")
  /\ UNCHANGED <<form, props, orders, up, down, result, acts>>

-----------------------------------------------------------------------------
(* Everything else. *)

PriceMoves(p) == Act /\ price' = p
  /\ UNCHANGED <<form, balance, isOpen, connected, trading, tradingActive, submitting, lastMsg, clears, flight>>

BalanceMoves(b) == Act /\ balance' = b
  /\ UNCHANGED <<form, price, isOpen, connected, trading, tradingActive, submitting, lastMsg, clears, flight>>

TradingSwitched == Act /\ trading' = ~trading
  /\ UNCHANGED <<form, price, balance, isOpen, connected, tradingActive, submitting, lastMsg, clears, flight>>

TradingSeen ==
  /\ isOpen /\ tradingActive # trading /\ tradingActive' = trading
  /\ UNCHANGED <<form, price, balance, isOpen, connected, trading, submitting, lastMsg, clears, flight, acts>>

\* The socket dies with what it carried: what was sent may or may not have arrived.
Drop ==
  /\ Act /\ isOpen /\ isOpen' = FALSE /\ down' = {}
  /\ \E kept \in SUBSET up : up' = kept
  /\ UNCHANGED <<form, price, balance, connected, trading, tradingActive, submitting, lastMsg, clears, orders, promise, result>>

CloseSeen ==
  /\ ~isOpen /\ connected /\ connected' = FALSE
  /\ UNCHANGED <<form, price, balance, isOpen, trading, tradingActive, submitting, lastMsg, clears, flight, acts>>

TimedOnOpen == [i \in Ids |-> IF promise[i] = "queued" THEN "timed" ELSE promise[i]]

\* The socket is back: the queue goes out, then the timers of what was in it start.
Reopen ==
  /\ ~connected /\ isOpen' = TRUE /\ connected' = TRUE
  /\ up' = up \cup {i \in Ids : promise[i] = "queued"}
  /\ promise' = TimedOnOpen
  /\ UNCHANGED <<form, price, balance, trading, tradingActive, submitting, lastMsg, clears, orders, down, result, acts>>

Next ==
  \/ \E t \in Types : SetType(t)
  \/ \E f \in Fields : Edit(f)
  \/ \E q \in Typed : SetQuantity(q)
  \/ \E pct \in Percents : setQtyFromBalance(pct)
  \/ \E l \in Leverages : SetLeverage(l)
  \/ FlagChanges
  \/ handleSubmit \/ ClearMsg
  \/ \E id \in Ids : ServerHandles(id) \/ AckArrives(id) \/ AckTimeout(id)
  \/ \E p \in Prices : PriceMoves(p)
  \/ \E b \in Balances : BalanceMoves(b)
  \/ TradingSwitched \/ TradingSeen
  \/ Drop \/ CloseSeen \/ Reopen

Spec == Init /\ [][Next]_vars

\* Timers fire, and useWebSocket notices a dead socket and reconnects.
LiveSpec == Spec /\ WF_vars(CloseSeen) /\ WF_vars(Reopen)
                 /\ \A id \in Ids : WF_vars(AckTimeout(id))

-----------------------------------------------------------------------------
Open == {i \in Ids : promise[i] \in {"queued", "timed"}}

TypeOK ==
  /\ orderType \in Types /\ filled \subseteq Fields /\ quantity \in Nat /\ leverage \in Leverages
  /\ price \in Prices /\ balance \in Balances /\ clears \in 0..MaxSubmits
  /\ Len(orders) <= MaxSubmits /\ up \subseteq 1..Len(orders) /\ down \subseteq 1..Len(orders)
  /\ (submitting <=> Open # {})

\* The form has one order under way at a time: a click during the wait for an answer,
\* or while the order sits in the queue of a lost connection, sends no second one.
OneOrderUnderWay == \A i, j \in Open : i = j

\* What the form says of an order is what the exchange did with that order, also when
\* the answer to an earlier one that timed out comes in during the wait.
AnswerIsItsOwn ==
  lastMsg.text \in {"filled", "resting", "rejected"} =>
    result[lastMsg.id] \in {r \in {"FILLED", "PENDING", "REJECTED"} : Texts[r] = lastMsg.text}

\* With the flag off the form sends no trailing stop.
TrailingOnlyWithFlag == \A i \in DOMAIN orders : orders[i].type = "TRAILING_STOP" => orders[i].wanted

\* The form comes back from "submitting", whatever happens to order and connection.
FormComesBack == submitting ~> ~submitting

\* "Margin exceeds available balance" is shown whenever the margin does.
WarnedAboutMargin == quantity * price > balance * leverage * Lots => marginExceeds

\* A size set by a percentage of the balance is one the balance covers.
QuickSizeFits == [][\A pct \in Percents : setQtyFromBalance(pct) => ~marginExceeds']_vars

\* The leverage the form shows, and computes the margin with, is the order's.
LeverageIsTheOrders == \A i \in DOMAIN orders : orders[i].shown = ServerLeverage

\* A limit order is filled at its price or better, so it has one.
LimitHasPrice ==
  \A i \in DOMAIN orders : orders[i].type = "LIMIT" /\ result[i] = "FILLED" => "limit" \in orders[i].has

\* "Sent - awaiting ack" is not said of an order the exchange has refused.
AwaitingMayCome == [][lastMsg'.text = "awaiting" /\ lastMsg' # lastMsg => result[lastMsg'.id] # "error"]_vars
=============================================================================
