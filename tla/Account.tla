------------------------------ MODULE Account ------------------------------
(***************************************************************************)
(* The trading account of one SimulatedExchange: what a fill, a forced      *)
(* close, a funding charge and a liquidation do to the balance and to the   *)
(* position (exchange_position_lifecycle.py, exchange_liquidation.py and    *)
(* the money half of exchange_order_submission.py).  Only operators: the    *)
(* state that holds an account is in Exchange.                              *)
(*                                                                          *)
(* Money is an integer number of ticks, so a quotient of the code's floats  *)
(* is rounded down to a tick.  A position keeps its cost, entry_price *     *)
(* quantity, in place of the average entry price, and an account without a  *)
(* position keeps one of quantity 0.  Its fills count the executions it is   *)
(* made of, each of which rounds; lo and hi are the lowest and the highest   *)
(* leverage they locked margin at.  Leverages are whole numbers.  One symbol *)
(* is traded.                                                                *)
(***************************************************************************)
EXTENDS Integers

CONSTANTS
    InitialBalance,   \* initial_balance of the constructor
    InitialTerms,     \* the leverage, fee and slippage of the constructor
    Maintenance       \* maintenance_margin_rate, in thousandths

\* What update_config can change at any time: account.leverage, and fee_pct and
\* slippage_bps in thousandths of the price.  Any number is accepted; past a
\* slippage of the whole price a SELL would fill below zero.
TermsType == [leverage: Int, fee: Int, slip: -1000..1000]

ASSUME AccountAssumption ==
    /\ InitialBalance \in Nat
    /\ InitialTerms \in TermsType
    /\ Maintenance \in Nat

None == -1
Sides == {"BUY", "SELL"}
Opposite(side) == IF side = "BUY" THEN "SELL" ELSE "BUY"
Least(x, y) == IF x <= y THEN x ELSE y
Greatest(x, y) == IF x <= y THEN y ELSE x

NoPosition == [side |-> "NONE", qty |-> 0, cost |-> 0, margin |-> 0,
               sl |-> 0, tp |-> 0, fills |-> 0, lo |-> 0, hi |-> 0]

\* funding is the sum of the funding payments, which the code adds to the
\* balance without keeping their sum.
NewAccount == [balance |-> InitialBalance, pnl |-> 0, fees |-> 0,
               insurance |-> 0, funding |-> 0, pos |-> NoPosition,
               terms |-> InitialTerms]

-----------------------------------------------------------------------------
Notional(price, qty) == price * qty

\* The leverage of margins and liquidation prices: 1 in place of one that is
\* not positive.
Lev(a) == IF a.terms.leverage > 0 THEN a.terms.leverage ELSE 1

Fee(a, price, qty) == (Notional(price, qty) * a.terms.fee) \div 1000
Margin(a, price, qty) == Notional(price, qty) \div Lev(a)

\* The price of a market fill: slippage against the taker.
Slippage(a, price) == (price * a.terms.slip) \div 1000
FillPrice(a, price, side) ==
    IF side = "BUY" THEN price + Slippage(a, price)
                    ELSE price - Slippage(a, price)

\* The margin and fee fit in the balance, and the notional at sizePrice is at
\* most half of what the balance can be levered to.
MarginOk(a, price, sizePrice, qty) ==
    /\ Margin(a, price, qty) + Fee(a, price, qty) <= a.balance
    /\ 2 * Notional(sizePrice, qty) <= a.balance * a.terms.leverage

ChargeFee(a, fee) == [a EXCEPT !.balance = @ - fee, !.fees = @ + fee]
LockMargin(a, margin) == [a EXCEPT !.balance = @ - margin]

-----------------------------------------------------------------------------
StopLevel(side, price, sl) ==
    IF sl # None THEN sl
    ELSE IF side = "BUY" THEN (price * 98) \div 100 ELSE (price * 102) \div 100
TakeLevel(side, price, tp) ==
    IF tp # None THEN tp
    ELSE IF side = "BUY" THEN (price * 104) \div 100 ELSE (price * 96) \div 100

Opened(lev, side, qty, price, margin, sl, tp) ==
    [side |-> side, qty |-> qty, cost |-> price * qty, margin |-> margin,
     sl |-> StopLevel(side, price, sl), tp |-> TakeLevel(side, price, tp),
     fills |-> 1, lo |-> lev, hi |-> lev]

Extended(p, lev, qty, price, margin) ==
    [p EXCEPT !.qty = @ + qty, !.cost = @ + price * qty, !.margin = @ + margin,
              !.fills = @ + 1, !.lo = Least(@, lev), !.hi = Greatest(@, lev)]

\* What an opposite fill of qty gives back of the margin of p and of its own.
CloseQty(p, qty) == Least(qty, p.qty)
\* Mutant: a partial close gives back the whole margin of the position.
ReleasedWholeMargin(p, qty) == p.margin
ReleasedMargin(p, qty) == (p.margin * CloseQty(p, qty)) \div p.qty
CloseMarginShare(p, qty, margin) == (margin * CloseQty(p, qty)) \div qty

\* Mutant: the residual is given the whole margin of the order.
ResidualWholeMargin(p, qty, margin) == margin

\* The residual keeps what is left of the order's margin.
ResidualMargin(p, qty, margin) == margin - CloseMarginShare(p, qty, margin)

ClosedCost(p, qty) == (p.cost * CloseQty(p, qty)) \div p.qty
ClosePnl(p, qty, price) ==
    IF p.side = "BUY" THEN price * CloseQty(p, qty) - ClosedCost(p, qty)
                      ELSE ClosedCost(p, qty) - price * CloseQty(p, qty)

\* Mutant: an opposite fill larger than the position only closes it.
AfterCloseNoResidual(p, lev, side, qty, price, margin) ==
    IF qty < p.qty
    THEN [p EXCEPT !.qty = @ - qty, !.cost = @ - ClosedCost(p, qty),
                   !.margin = @ - ReleasedMargin(p, qty), !.fills = @ + 1]
    ELSE NoPosition

\* Mutant: the filled quantity is subtracted without the minimum.
AfterCloseUnclipped(p, lev, side, qty, price, margin) ==
    [p EXCEPT !.qty = @ - qty, !.cost = @ - ClosedCost(p, qty),
              !.margin = @ - ReleasedMargin(p, qty), !.fills = @ + 1]

\* The position an opposite fill leaves: a part of the old one, nothing, or a
\* new one on the other side with what the old one could not absorb.
AfterClose(p, lev, side, qty, price, margin) ==
    IF qty < p.qty
    THEN [p EXCEPT !.qty = @ - qty, !.cost = @ - ClosedCost(p, qty),
                   !.margin = @ - ReleasedMargin(p, qty), !.fills = @ + 1]
    ELSE IF qty = p.qty
    THEN NoPosition
    ELSE Opened(lev, side, qty - p.qty, price, ResidualMargin(p, qty, margin),
                None, None)

ClosePosition(a, side, qty, price, margin) ==
    LET pnl == ClosePnl(a.pos, qty, price)
    IN  [a EXCEPT !.balance = @ + ReleasedMargin(a.pos, qty)
                                + CloseMarginShare(a.pos, qty, margin) + pnl,
                  !.pnl = @ + pnl,
                  !.pos = AfterClose(a.pos, Lev(a), side, qty, price, margin)]

UpdatePosition(a, side, qty, price, margin, sl, tp) ==
    IF a.pos.qty = 0
    THEN [a EXCEPT !.pos = Opened(Lev(a), side, qty, price, margin, sl, tp)]
    ELSE IF a.pos.side = side
    THEN [a EXCEPT !.pos = Extended(@, Lev(a), qty, price, margin)]
    ELSE ClosePosition(a, side, qty, price, margin)

-----------------------------------------------------------------------------
\* A fill that passed the margin check: fee, margin, position, in this order.
Filled(a, side, qty, price, sl, tp) ==
    UpdatePosition(LockMargin(ChargeFee(a, Fee(a, price, qty)), Margin(a, price, qty)),
                   side, qty, price, Margin(a, price, qty), sl, tp)

\* A force_close fill of qty of the open position: no check and no margin.
ForceClosed(a, price, qty) ==
    LET side == Opposite(a.pos.side)
        at   == FillPrice(a, price, side)
    IN  UpdatePosition(ChargeFee(a, Fee(a, at, qty)), side, qty, at, 0, None, None)

\* A positive rate, in thousandths: longs pay shorts.
FundingPayment(a, price, rate) ==
    LET amount == (Notional(price, a.pos.qty) * rate) \div 1000
    IN  IF a.pos.side = "BUY" THEN -amount ELSE amount

Funded(a, price, rate) ==
    [a EXCEPT !.balance = @ + FundingPayment(a, price, rate),
              !.funding = @ + FundingPayment(a, price, rate)]

\* The price is at or past the entry price moved against the position by
\* `thousandths` of it.
MovedAgainst(p, price, thousandths) ==
    IF p.side = "BUY"
    THEN Notional(price, p.qty) * 1000 <= p.cost * (1000 - thousandths)
    ELSE Notional(price, p.qty) * 1000 >= p.cost * (1000 + thousandths)

FullMove(a) == 1000 \div Lev(a) - Maintenance
PartialMove(a) == 500 \div Lev(a) - Maintenance   \* partial_liquidation_ratio 0.5

StopHit(p, price) ==
    p.sl > 0 /\ IF p.side = "BUY" THEN price <= p.sl ELSE price >= p.sl
TakeHit(p, price) ==
    p.tp > 0 /\ IF p.side = "BUY" THEN price >= p.tp ELSE price <= p.tp

Trigger(a, price) ==
    IF a.pos.qty = 0 THEN "NONE"
    ELSE IF MovedAgainst(a.pos, price, FullMove(a)) THEN "LIQUIDATION"
    ELSE IF MovedAgainst(a.pos, price, PartialMove(a)) THEN "PARTIAL_LIQUIDATION"
    ELSE IF StopHit(a.pos, price) THEN "STOP_LOSS"
    ELSE IF TakeHit(a.pos, price) THEN "TAKE_PROFIT"
    ELSE "NONE"

\* A partial liquidation closes half, rounded up to one unit of quantity.
TriggeredQty(a, price) ==
    IF Trigger(a, price) = "PARTIAL_LIQUIDATION" THEN (a.pos.qty + 1) \div 2
                                                 ELSE a.pos.qty

\* The insurance fund pays what a liquidation left below zero.
CoverDeficit(a) ==
    IF a.balance < 0
    THEN [a EXCEPT !.insurance = @ + a.balance, !.balance = 0]
    ELSE a

\* The account after check_stop_loss_take_profit closed what price triggers.
Swept(a, price) ==
    LET closed == ForceClosed(a, price, TriggeredQty(a, price))
    IN  IF Trigger(a, price) = "LIQUIDATION" THEN CoverDeficit(closed)
                                             ELSE closed
=============================================================================
