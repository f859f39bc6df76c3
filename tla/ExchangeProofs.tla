--------------------------- MODULE ExchangeProofs ---------------------------
(***************************************************************************)
(* Proofs about Exchange.                                                   *)
(***************************************************************************)
EXTENDS Exchange, FiniteSetTheorems, NaturalsInduction, WellFoundedInduction, TLAPS

\* An account that holds margin only for an open position.
Sound(a) == a \in AccountType /\ (a.pos.qty = 0 => a.pos.margin = 0)

-----------------------------------------------------------------------------
(* Arithmetic                                                               *)

\* A quotient by a positive divisor is an integer.
LEMMA QuotientInt ==
    ASSUME NEW x \in Int, NEW d \in Nat \ {0}
    PROVE  x \div d \in Int
BY Z3

\* Dividing undoes multiplying.
LEMMA QuotientExact ==
    ASSUME NEW x \in Int, NEW d \in Nat \ {0}
    PROVE  (x * d) \div d = x
BY Z3

-----------------------------------------------------------------------------
(* Records                                                                  *)

\* The fields of an account.
LEMMA AccountFields ==
    ASSUME NEW a \in AccountType
    PROVE  /\ a.balance \in Int /\ a.pnl \in Int /\ a.fees \in Int
           /\ a.insurance \in Int /\ a.funding \in Int
           /\ a.pos \in PositionType
           /\ a.pos.qty \in Nat /\ a.pos.cost \in Int /\ a.pos.margin \in Int
           /\ a.pos.side \in Sides \cup {"NONE"}
           /\ a.terms \in TermsType
BY DEF AccountType, PositionType

\* Changing fields of an account within their types leaves an account.
LEMMA AccountExcept ==
    ASSUME NEW a \in AccountType, NEW x \in Int, NEW y \in Int,
           NEW p \in PositionType
    PROVE  /\ [a EXCEPT !.balance = x] \in AccountType
           /\ [a EXCEPT !.balance = x, !.fees = y] \in AccountType
           /\ [a EXCEPT !.balance = x, !.funding = y] \in AccountType
           /\ [a EXCEPT !.insurance = y, !.balance = x] \in AccountType
           /\ [a EXCEPT !.balance = x, !.pnl = y, !.pos = p] \in AccountType
           /\ [a EXCEPT !.pos = p] \in AccountType
BY DEF AccountType

\* The leverage that counts is a positive number.
LEMMA LevPositive ==
    ASSUME NEW a \in AccountType
    PROVE  Lev(a) \in Nat \ {0} /\ a.terms.fee \in Int /\ a.terms.slip \in -1000..1000
BY DEF Lev, AccountType, TermsType

\* Slippage is at most the price, either way.
LEMMA SlipBounds ==
    ASSUME NEW s \in -1000..1000
    PROVE  s \in Int /\ s <= 1000 /\ -s <= 1000
OBVIOUS

-----------------------------------------------------------------------------
(* The account operators                                                    *)

\* A position opened with margin m holds m, is of the position type, and has
\* the quantity it was opened with.
LEMMA OpenedType ==
    ASSUME NEW lev \in Nat, NEW side \in Sides, NEW qty \in Nat \ {0}, NEW at \in Int,
           NEW m \in Int, NEW sl \in Int, NEW tp \in Int
    PROVE  /\ Opened(lev, side, qty, at, m, sl, tp) \in PositionType
           /\ Opened(lev, side, qty, at, m, sl, tp).margin = m
           /\ Opened(lev, side, qty, at, m, sl, tp).qty = qty
<1>1. /\ (at * 98) \div 100 \in Int
      /\ (at * 102) \div 100 \in Int
      /\ (at * 104) \div 100 \in Int
      /\ (at * 96) \div 100 \in Int
  BY Z3
<1>2. StopLevel(side, at, sl) \in Int /\ TakeLevel(side, at, tp) \in Int
  BY <1>1 DEF StopLevel, TakeLevel
<1>3. at * qty \in Int
  BY Z3
<1> QED
  BY <1>2, <1>3 DEF Opened, PositionType

\* Charging a fee moves money from the balance to the fees.
LEMMA ChargeFeeSound ==
    ASSUME NEW a, Sound(a), NEW fee \in Int
    PROVE  /\ Sound(ChargeFee(a, fee))
           /\ Worth(ChargeFee(a, fee)) = Worth(a)
           /\ ChargeFee(a, fee).pos = a.pos
           /\ ChargeFee(a, fee).terms = a.terms
<1> DEFINE b == ChargeFee(a, fee)
<1>1. a.balance - fee \in Int /\ a.fees + fee \in Int
  BY AccountFields DEF Sound
<1>2. b = [a EXCEPT !.balance = a.balance - fee, !.fees = a.fees + fee]
  BY DEF ChargeFee
<1>3. b \in AccountType
  <2>1. \A x, y \in Int : [a EXCEPT !.balance = x, !.fees = y] \in AccountType
    BY AccountExcept, AccountFields DEF Sound
  <2> QED
    BY <1>1, <1>2, <2>1, Zenon
<1> QED
  BY <1>2, <1>3, AccountFields DEF Sound, AccountType, Worth

\* Locking a margin takes it out of the balance, for the position to hold.
LEMMA LockMarginSound ==
    ASSUME NEW a, Sound(a), NEW m \in Int
    PROVE  /\ Sound(LockMargin(a, m))
           /\ Worth(LockMargin(a, m)) = Worth(a) - m
           /\ LockMargin(a, m).pos = a.pos
           /\ LockMargin(a, m).terms = a.terms
BY DEF Sound, AccountType, PositionType, LockMargin, Worth

\* A fill against the position gives the order's margin m back to the balance
\* or to the residual position, whichever part of the position it closes.
LEMMA CloseSound ==
    ASSUME NEW a, Sound(a), a.pos.qty # 0, NEW side \in Sides,
           NEW qty \in Nat \ {0}, NEW at \in Int, NEW m \in Int
    PROVE  /\ Sound(ClosePosition(a, side, qty, at, m))
           /\ Worth(ClosePosition(a, side, qty, at, m)) = Worth(a) + m
<1> DEFINE p == a.pos
           c == CloseQty(p, qty)
           rel == ReleasedMargin(p, qty)
           share == CloseMarginShare(p, qty, m)
           cost == ClosedCost(p, qty)
           pnl == ClosePnl(p, qty, at)
           lev == Lev(a)
           q == AfterClose(p, lev, side, qty, at, m)
           b == ClosePosition(a, side, qty, at, m)
<1>0. lev \in Nat
  BY LevPositive DEF Sound
<1> HIDE DEF lev
<1>1. /\ p \in PositionType /\ p.qty \in Nat \ {0}
      /\ p.margin \in Int /\ p.cost \in Int
  BY DEF Sound, AccountType, PositionType
<1>2. c \in Nat
  BY <1>1 DEF CloseQty, Least
<1>3. p.margin * c \in Int /\ m * c \in Int /\ p.cost * c \in Int /\ at * c \in Int
  BY <1>1, <1>2, Z3
<1>4. rel \in Int /\ share \in Int /\ cost \in Int
  BY <1>1, <1>3, QuotientInt DEF ReleasedMargin, CloseMarginShare, ClosedCost
<1>5. pnl \in Int
  BY <1>3, <1>4 DEF ClosePnl
<1>6. /\ q \in PositionType
      /\ q.margin = (p.margin - rel) + (m - share)
      /\ q.qty = 0 => q.margin = 0
  <2>1. CASE qty < p.qty
    <3>1. c = qty
      BY <2>1, <1>1 DEF CloseQty, Least
    <3>2. share = m
      BY <3>1, QuotientExact DEF CloseMarginShare
    <3>3. q = [p EXCEPT !.qty = @ - qty, !.cost = @ - cost, !.margin = @ - rel,
                        !.fills = @ + 1]
      BY <2>1 DEF AfterClose
    <3>4. p.qty - qty \in Nat \ {0}
      BY <1>1, <2>1
    <3> HIDE DEF c, rel, share, cost, q
    <3>5. q \in PositionType /\ q.qty = p.qty - qty /\ q.margin = p.margin - rel
      <4>1. /\ p.qty - qty \in Nat /\ p.cost - cost \in Int /\ p.margin - rel \in Int
            /\ p.fills + 1 \in Nat
        BY <3>4, <1>1, <1>4 DEF PositionType
      <4>2. q = [p EXCEPT !.qty = p.qty - qty, !.cost = p.cost - cost,
                          !.margin = p.margin - rel, !.fills = p.fills + 1]
        BY <3>3
      <4>3. PICK x \in Nat, y \in Int, z \in Int, n \in Nat :
              /\ x = p.qty - qty /\ y = p.cost - cost /\ z = p.margin - rel
              /\ n = p.fills + 1
        BY <4>1, Zenon
      <4>4. q = [p EXCEPT !.qty = x, !.cost = y, !.margin = z, !.fills = n]
        BY <4>2, <4>3
      <4>5. q \in PositionType /\ q.qty = x /\ q.margin = z
        BY <4>4, <1>1 DEF PositionType
      <4> QED
        BY <4>3, <4>5
    <3> QED
      BY <3>2, <3>4, <3>5, <1>1, <1>4
  <2>2. CASE qty = p.qty
    <3>1. c = qty /\ c = p.qty
      BY <2>2, <1>1 DEF CloseQty, Least
    <3>2. share = m /\ rel = p.margin
      BY <3>1, <1>1, QuotientExact DEF CloseMarginShare, ReleasedMargin
    <3>3. q = NoPosition
      BY <2>2, <1>1 DEF AfterClose
    <3> HIDE DEF c, rel, share, cost, q
    <3> QED
      BY <3>2, <3>3, <1>1 DEF NoPosition, PositionType, Sides
  <2>3. CASE qty > p.qty
    <3>1. c = p.qty
      BY <2>3, <1>1 DEF CloseQty, Least
    <3>2. rel = p.margin
      BY <3>1, <1>1, QuotientExact DEF ReleasedMargin
    <3>3. q = Opened(lev, side, qty - p.qty, at, m - share, None, None)
      BY <2>3, <1>1 DEF AfterClose, ResidualMargin
    <3>4. qty - p.qty \in Nat \ {0} /\ m - share \in Int /\ None \in Int
      BY <2>3, <1>1, <1>4 DEF None
    <3> HIDE DEF c, rel, share, cost, q
    <3>5. q \in PositionType /\ q.margin = m - share /\ q.qty = qty - p.qty
      BY <1>0, <3>3, <3>4, OpenedType
    <3> QED
      BY <3>2, <3>4, <3>5, <1>1
  <2> QED
    BY <2>1, <2>2, <2>3, <1>1
<1>7. b = [a EXCEPT !.balance = @ + rel + share + pnl, !.pnl = @ + pnl, !.pos = q]
  BY DEF ClosePosition, lev
<1> HIDE DEF c, rel, share, cost, pnl, q, b
<1>8. b \in AccountType /\ b.pos = q
  <2>1. a.balance + rel + share + pnl \in Int /\ a.pnl + pnl \in Int
    BY <1>4, <1>5, AccountFields DEF Sound
  <2>2. b \in AccountType
    BY <2>1, <1>6, <1>7, AccountExcept DEF Sound
  <2> QED
    BY <2>2, <1>7 DEF Sound, AccountType
<1>9. Worth(b) = Worth(a) + m
  BY <1>1, <1>4, <1>5, <1>6, <1>7 DEF Sound, AccountType, Worth
<1> QED
  BY <1>6, <1>8, <1>9 DEF Sound, b

\* Whatever an update does to the position, the order's margin m goes back
\* into the account.
LEMMA UpdateSound ==
    ASSUME NEW a, Sound(a), NEW side \in Sides, NEW qty \in Nat \ {0},
           NEW at \in Int, NEW m \in Int, NEW sl \in Int, NEW tp \in Int
    PROVE  /\ Sound(UpdatePosition(a, side, qty, at, m, sl, tp))
           /\ Worth(UpdatePosition(a, side, qty, at, m, sl, tp)) = Worth(a) + m
<1> DEFINE b == UpdatePosition(a, side, qty, at, m, sl, tp)
<1>0. Lev(a) \in Nat
  BY LevPositive DEF Sound
<1>1. CASE a.pos.qty = 0
  <2> DEFINE q == Opened(Lev(a), side, qty, at, m, sl, tp)
  <2>1. q \in PositionType /\ q.margin = m /\ q.qty = qty
    BY <1>0, OpenedType
  <2>2. b = [a EXCEPT !.pos = q]
    BY <1>1 DEF UpdatePosition
  <2> HIDE DEF q, b
  <2>3. Sound(b) /\ Worth(b) = Worth(a) + m
    BY <1>1, <2>1, <2>2 DEF Sound, AccountType, Worth
  <2> QED
    BY <2>3 DEF b
<1>2. CASE a.pos.qty # 0 /\ a.pos.side = side
  <2> DEFINE q == Extended(a.pos, Lev(a), qty, at, m)
  <2>1. a.pos \in PositionType /\ at * qty \in Int
    BY Z3 DEF Sound, AccountType
  <2>2. q \in PositionType /\ q.margin = a.pos.margin + m /\ q.qty = a.pos.qty + qty
    <3>1. /\ a.pos.qty + qty \in Nat /\ a.pos.cost + at * qty \in Int
          /\ a.pos.margin + m \in Int /\ a.pos.fills + 1 \in Nat
          /\ Least(a.pos.lo, Lev(a)) \in Nat /\ Greatest(a.pos.hi, Lev(a)) \in Nat
      BY <1>0, <2>1, AccountFields DEF Sound, PositionType, Least, Greatest
    <3>2. PICK x \in Nat, y \in Int, z \in Int, n \in Nat, low \in Nat, high \in Nat :
            /\ x = a.pos.qty + qty
            /\ y = a.pos.cost + at * qty
            /\ z = a.pos.margin + m
            /\ n = a.pos.fills + 1
            /\ low = Least(a.pos.lo, Lev(a))
            /\ high = Greatest(a.pos.hi, Lev(a))
      BY <3>1, Zenon
    <3>3. q = [a.pos EXCEPT !.qty = x, !.cost = y, !.margin = z, !.fills = n,
                            !.lo = low, !.hi = high]
      BY <3>2 DEF Extended
    <3> HIDE DEF q
    <3>4. q \in PositionType /\ q.qty = x /\ q.margin = z
      BY <3>3, <2>1 DEF PositionType
    <3> QED
      BY <3>2, <3>4
  <2>3. b = [a EXCEPT !.pos = q]
    BY <1>2 DEF UpdatePosition
  <2> HIDE DEF q, b
  <2>4. a.pos.qty \in Nat /\ a.pos.margin \in Int
    BY <2>1 DEF PositionType
  <2>5. Sound(b) /\ Worth(b) = Worth(a) + m
    BY <2>2, <2>3, <2>4 DEF Sound, AccountType, Worth
  <2> QED
    BY <2>5 DEF b
<1>3. CASE a.pos.qty # 0 /\ a.pos.side # side
  <2>1. b = ClosePosition(a, side, qty, at, m)
    BY <1>3 DEF UpdatePosition
  <2> QED
    BY <1>3, <2>1, CloseSound
<1> QED
  BY <1>1, <1>2, <1>3

\* Fees, margins and prices with slippage are integers; slippage of at most the
\* price leaves no price below zero.
LEMMA AmountsInt ==
    ASSUME NEW a \in AccountType, NEW at \in Int, NEW qty \in Int, NEW side
    PROVE  /\ Fee(a, at, qty) \in Int /\ Margin(a, at, qty) \in Int
           /\ FillPrice(a, at, side) \in Int
           /\ at >= 0 => FillPrice(a, at, side) >= 0
<1>0. Lev(a) \in Nat \ {0} /\ a.terms.fee \in Int /\ a.terms.slip \in -1000..1000
  BY LevPositive
<1>1. PICK l \in Nat \ {0}, f \in Int : l = Lev(a) /\ f = a.terms.fee
  BY <1>0, Zenon
<1>6. PICK s \in Int : s = a.terms.slip /\ s <= 1000 /\ -s <= 1000
  <2> DEFINE v == a.terms.slip
  <2>1. v \in -1000..1000
    BY <1>0
  <2> HIDE DEF v
  <2>2. v \in Int /\ v <= 1000 /\ -v <= 1000
    BY <2>1, SlipBounds
  <2>3. \E s \in Int : s = v /\ s <= 1000 /\ -s <= 1000
    BY <2>2
  <2> QED
    BY <2>3 DEF v
<1>2. at * qty \in Int /\ at * s \in Int
  BY Z3
<1>3. (at * qty) * f \in Int
  BY <1>2, Z3
<1>4. ((at * qty) * f) \div 1000 \in Int /\ (at * qty) \div l \in Int
      /\ (at * s) \div 1000 \in Int
  BY <1>2, <1>3, QuotientInt
<1>5. at >= 0 => -at <= (at * s) \div 1000 /\ (at * s) \div 1000 <= at
  <2> SUFFICES ASSUME at >= 0 PROVE -at <= (at * s) \div 1000 /\ (at * s) \div 1000 <= at
    OBVIOUS
  <2>1. at * s <= at * 1000 /\ -(at * 1000) <= at * s
    BY <1>6, Z3
  <2>2. PICK x \in Int : x = at * s
    BY <1>2
  <2>3. x <= at * 1000 /\ -(at * 1000) <= x
    BY <2>1, <2>2
  <2>4. -at <= x \div 1000 /\ x \div 1000 <= at
    BY <2>3, Z3
  <2> QED
    BY <2>2, <2>4
<1> QED
  BY <1>1, <1>4, <1>5, <1>6 DEF Fee, Margin, Notional, FillPrice, Slippage

\* A fill that passed the margin check conserves money.
LEMMA FilledSound ==
    ASSUME NEW a, Sound(a), NEW side \in Sides, NEW qty \in Nat \ {0},
           NEW at \in Int, NEW sl \in Int, NEW tp \in Int
    PROVE  /\ Sound(Filled(a, side, qty, at, sl, tp))
           /\ Worth(Filled(a, side, qty, at, sl, tp)) = Worth(a)
<1> DEFINE fee == Fee(a, at, qty)
           m == Margin(a, at, qty)
           a1 == ChargeFee(a, fee)
           a2 == LockMargin(a1, m)
           a3 == UpdatePosition(a2, side, qty, at, m, sl, tp)
<1>1. fee \in Int /\ m \in Int
  BY AmountsInt DEF Sound
<1>2. Sound(a1) /\ Worth(a1) = Worth(a)
  BY <1>1, ChargeFeeSound
<1>3. Sound(a2) /\ Worth(a2) = Worth(a1) - m
  BY <1>1, <1>2, LockMarginSound
<1>4. Sound(a3) /\ Worth(a3) = Worth(a2) + m
  BY <1>1, <1>3, UpdateSound
<1>5. Worth(a) \in Int
  BY AccountFields DEF Sound, Worth
<1>6. Filled(a, side, qty, at, sl, tp) = a3
  BY DEF Filled
<1> HIDE DEF fee, m, a1, a2, a3
<1> QED
  BY <1>1, <1>2, <1>3, <1>4, <1>5, <1>6

\* A forced close, which checks and locks no margin, conserves money.
LEMMA ForceClosedSound ==
    ASSUME NEW a, Sound(a), NEW p \in Int, NEW qty \in Nat \ {0}
    PROVE  /\ Sound(ForceClosed(a, p, qty))
           /\ Worth(ForceClosed(a, p, qty)) = Worth(a)
<1> DEFINE side == Opposite(a.pos.side)
           at == FillPrice(a, p, side)
           fee == Fee(a, at, qty)
           a1 == ChargeFee(a, fee)
           a2 == UpdatePosition(a1, side, qty, at, 0, None, None)
<1>1. side \in Sides /\ None \in Int
  BY DEF Opposite, Sides, None
<1>2. at \in Int
  BY AmountsInt DEF Sound
<1>3. fee \in Int
  BY <1>2, AmountsInt DEF Sound
<1>4. Sound(a1) /\ Worth(a1) = Worth(a)
  BY <1>3, ChargeFeeSound
<1>5. Sound(a2) /\ Worth(a2) = Worth(a1) + 0
  BY <1>1, <1>2, <1>4, UpdateSound
<1>6. Worth(a1) \in Int
  BY <1>4, AccountFields DEF Sound, Worth
<1>7. ForceClosed(a, p, qty) = a2
  BY DEF ForceClosed
<1> HIDE DEF side, at, fee, a1, a2
<1> QED
  BY <1>4, <1>5, <1>6, <1>7

\* The insurance fund pays exactly the deficit.
LEMMA CoverSound ==
    ASSUME NEW a, Sound(a)
    PROVE  Sound(CoverDeficit(a)) /\ Worth(CoverDeficit(a)) = Worth(a)
<1>1. a \in AccountType /\ (a.pos.qty = 0 => a.pos.margin = 0)
  BY DEF Sound
<1>2. CASE a.balance < 0
  <2> DEFINE b == CoverDeficit(a)
  <2>1. PICK x \in Int, y \in Int : x = 0 /\ y = a.insurance + a.balance
    BY <1>1, AccountFields
  <2>2. b = [a EXCEPT !.insurance = y, !.balance = x]
    BY <1>2, <2>1 DEF CoverDeficit
  <2> HIDE DEF b
  <2>3. b \in AccountType /\ b.pos = a.pos
    BY <2>2, <1>1 DEF AccountType
  <2>4. Worth(b) = Worth(a)
    BY <2>1, <2>2, <1>1, AccountFields DEF Worth, AccountType
  <2> QED
    BY <2>3, <2>4, <1>1 DEF Sound, b
<1>3. CASE ~(a.balance < 0)
  BY <1>3 DEF CoverDeficit
<1> QED
  BY <1>2, <1>3

\* Funding moves money between the balance and the funding payments.
LEMMA FundedSound ==
    ASSUME NEW a, Sound(a), NEW p \in Int, NEW rate \in Int
    PROVE  Sound(Funded(a, p, rate)) /\ Worth(Funded(a, p, rate)) = Worth(a)
<1> DEFINE pay == FundingPayment(a, p, rate)
           b == Funded(a, p, rate)
<1>1. a \in AccountType /\ (a.pos.qty = 0 => a.pos.margin = 0) /\ a.pos.qty \in Nat
  BY AccountFields DEF Sound
<1>2. p * a.pos.qty * rate \in Int
  BY <1>1, Z3
<1>3. (p * a.pos.qty * rate) \div 1000 \in Int
  BY <1>2, Z3
<1>4. pay \in Int
  BY <1>3 DEF FundingPayment, Notional
<1>5. b = [a EXCEPT !.balance = @ + pay, !.funding = @ + pay]
  BY DEF Funded
<1> HIDE DEF pay, b
<1>6. PICK x \in Int, y \in Int : x = a.balance + pay /\ y = a.funding + pay
  BY <1>1, <1>4, AccountFields
<1>7. b = [a EXCEPT !.balance = x, !.funding = y]
  BY <1>5, <1>6
<1>8. b \in AccountType /\ b.pos = a.pos
  BY <1>7, <1>1 DEF AccountType
<1>9. Worth(b) = Worth(a)
  BY <1>4, <1>6, <1>7, <1>1, AccountFields DEF Worth, AccountType
<1> QED
  BY <1>1, <1>8, <1>9 DEF Sound, b

\* Closing what a price triggers, with or without the insurance fund.
LEMMA SweptSound ==
    ASSUME NEW a, Sound(a), NEW p \in Int, Trigger(a, p) # "NONE"
    PROVE  Sound(Swept(a, p)) /\ Worth(Swept(a, p)) = Worth(a)
<1> DEFINE qty == TriggeredQty(a, p)
           b == ForceClosed(a, p, qty)
<1>1. a.pos.qty \in Nat \ {0}
  BY AccountFields DEF Sound, Trigger
<1>2. qty \in Nat \ {0}
  BY <1>1 DEF TriggeredQty
<1>3. Sound(b) /\ Worth(b) = Worth(a)
  BY <1>2, ForceClosedSound
<1>4. Swept(a, p) = b \/ Swept(a, p) = CoverDeficit(b)
  BY DEF Swept
<1> HIDE DEF b
<1> QED
  BY <1>3, <1>4, CoverSound

-----------------------------------------------------------------------------
(* The books                                                                *)

\* A pending order has something to trade.
Tradable(o) ==
    o.status = "PENDING" =>
        /\ o.req.qty > 0
        /\ o.req.type = "ICEBERG" => o.req.visible > 0 /\ o.hidden > 0
        /\ o.req.type \in {"LIMIT", "STOP_LIMIT"} => o.req.px # None

\* The orders os and the resting ids rs agree.
Books(os, rs) ==
    /\ os \in Seq(OrderType)
    /\ rs \subseteq DOMAIN os
    /\ \A i \in DOMAIN os :
          /\ Tradable(os[i])
          /\ (i \in rs) <=> (os[i].status = "PENDING" /\ os[i].heard)

\* Replacing a resting order, which leaves its book unless still pending.
LEMMA BooksUpdate ==
    ASSUME NEW os, NEW rs, Books(os, rs), NEW id \in rs,
           NEW o \in OrderType, o.heard, Tradable(o)
    PROVE  /\ o.status = "PENDING" => Books([os EXCEPT ![id] = o], rs)
           /\ o.status # "PENDING" => Books([os EXCEPT ![id] = o], rs \ {id})
<1> DEFINE os2 == [os EXCEPT ![id] = o]
<1>1. /\ os \in Seq(OrderType) /\ rs \subseteq DOMAIN os /\ id \in DOMAIN os
      /\ \A i \in DOMAIN os :
            /\ Tradable(os[i])
            /\ (i \in rs) <=> (os[i].status = "PENDING" /\ os[i].heard)
  BY DEF Books
<1>2. os2 \in Seq(OrderType) /\ DOMAIN os2 = DOMAIN os
  BY <1>1
<1>3. os2[id] = o /\ \A i \in DOMAIN os : i # id => os2[i] = os[i]
  BY <1>1
<1> HIDE DEF os2
<1>4. CASE o.status = "PENDING"
  <2>1. Books(os2, rs)
    BY <1>1, <1>2, <1>3, <1>4 DEF Books
  <2> QED
    BY <1>4, <2>1 DEF os2
<1>5. CASE o.status # "PENDING"
  <2>1. Books(os2, rs \ {id})
    BY <1>1, <1>2, <1>3, <1>5 DEF Books
  <2> QED
    BY <1>5, <2>1 DEF os2
<1> QED
  BY <1>4, <1>5

\* Creating an order, which enters a book if it is pending and in the history.
LEMMA BooksAppend ==
    ASSUME NEW os, NEW rs, Books(os, rs), NEW o \in OrderType, Tradable(o)
    PROVE  /\ o.status = "PENDING" /\ o.heard =>
                 Books(Append(os, o), rs \cup {Len(os) + 1})
           /\ ~(o.status = "PENDING" /\ o.heard) => Books(Append(os, o), rs)
           /\ Len(os) + 1 \notin rs
           /\ Append(os, o)[Len(os) + 1] = o
<1> DEFINE os2 == Append(os, o)
           n == Len(os) + 1
<1>1. /\ os \in Seq(OrderType) /\ rs \subseteq DOMAIN os
      /\ \A i \in DOMAIN os :
            /\ Tradable(os[i])
            /\ (i \in rs) <=> (os[i].status = "PENDING" /\ os[i].heard)
  BY DEF Books
<1>2. /\ Len(os) \in Nat /\ DOMAIN os = 1..Len(os)
      /\ os2 \in Seq(OrderType) /\ DOMAIN os2 = 1..n
  BY <1>1
<1>3. os2[n] = o /\ \A i \in DOMAIN os : os2[i] = os[i]
  BY <1>1, <1>2
<1>4. DOMAIN os2 = DOMAIN os \cup {n} /\ n \notin DOMAIN os
  BY <1>2
<1>5. n \notin rs
  BY <1>1, <1>4
<1> HIDE DEF os2, n
<1>6. CASE o.status = "PENDING" /\ o.heard
  <2>1. Books(os2, rs \cup {n})
    BY <1>1, <1>2, <1>3, <1>4, <1>5, <1>6 DEF Books
  <2> QED
    BY <1>3, <1>5, <1>6, <2>1 DEF os2, n
<1>7. CASE ~(o.status = "PENDING" /\ o.heard)
  <2>1. Books(os2, rs)
    BY <1>1, <1>2, <1>3, <1>4, <1>5, <1>7 DEF Books
  <2> QED
    BY <1>3, <1>5, <1>7, <2>1 DEF os2, n
<1> QED
  BY <1>6, <1>7

\* Cancelling a set of orders takes them out of their books.
LEMMA BooksCancel ==
    ASSUME NEW os, NEW rs, Books(os, rs), NEW S \in SUBSET DOMAIN os
    PROVE  /\ Books(CancelIn(os, S), rs \ S)
           /\ DOMAIN CancelIn(os, S) = DOMAIN os
           /\ \A i \in DOMAIN os : CancelIn(os, S)[i].heard = os[i].heard
<1> DEFINE os2 == CancelIn(os, S)
<1>0. os2 = [i \in DOMAIN os |->
               IF i \in S THEN [os[i] EXCEPT !.status = "CANCELLED"] ELSE os[i]]
  BY DEF CancelIn
<1> HIDE DEF os2
<1>1. /\ os \in Seq(OrderType) /\ rs \subseteq DOMAIN os
      /\ \A i \in DOMAIN os :
            /\ Tradable(os[i])
            /\ (i \in rs) <=> (os[i].status = "PENDING" /\ os[i].heard)
  BY DEF Books
<1>2. /\ Len(os) \in Nat /\ DOMAIN os = 1..Len(os) /\ DOMAIN os2 = DOMAIN os
      /\ \A i \in DOMAIN os : os[i] \in OrderType
  BY <1>0, <1>1
<1>3. \A i \in S : /\ os2[i] \in OrderType
                   /\ os2[i].status = "CANCELLED"
                   /\ os2[i].heard = os[i].heard
  BY <1>0, <1>2 DEF OrderType, Statuses
<1>4. \A i \in DOMAIN os \ S : os2[i] = os[i]
  BY <1>0
<1>5. \A i \in DOMAIN os : os2[i] \in OrderType
  BY <1>2, <1>3, <1>4
<1>6. os2 \in Seq(OrderType)
  BY <1>0, <1>2, <1>5
<1>7. \A i \in S : Tradable(os2[i])
  BY <1>3 DEF Tradable
<1>8. \A i \in DOMAIN os2 :
        /\ Tradable(os2[i])
        /\ (i \in rs \ S) <=> (os2[i].status = "PENDING" /\ os2[i].heard)
  <2> TAKE i \in DOMAIN os2
  <2>1. CASE i \in S
    BY <2>1, <1>3, <1>7
  <2>2. CASE i \notin S
    BY <2>2, <1>1, <1>2, <1>4
  <2> QED
    BY <2>1, <2>2
<1>9. rs \ S \subseteq DOMAIN os2
  BY <1>1, <1>2
<1> QED
  BY <1>2, <1>3, <1>4, <1>6, <1>8, <1>9 DEF Books, os2

-----------------------------------------------------------------------------
(* Orders                                                                   *)

\* The order a request creates is a pending order of that request.
LEMMA NewOrderType ==
    ASSUME NEW r \in RequestType
    PROVE  /\ NewOrder(r) \in OrderType
           /\ NewOrder(r).req = r
           /\ NewOrder(r).status = "PENDING"
           /\ NewOrder(r).hidden = IF r.type = "ICEBERG" THEN r.qty - r.visible ELSE 0
<1>1. r.qty \in Int /\ r.visible \in Int
  BY DEF RequestType
<1> QED
  BY <1>1 DEF NewOrder, OrderType, Statuses

\* A request that is not malformed creates a tradable order.
LEMMA WellFormed ==
    ASSUME NEW r \in RequestType, ~Malformed(r)
    PROVE  /\ r.qty \in Nat \ {0}
           /\ r.type = "ICEBERG" => r.visible > 0 /\ r.qty - r.visible > 0
<1>1. r.qty \in Int /\ r.visible \in Int
  BY DEF RequestType
<1> QED
  BY <1>1 DEF Malformed

\* The order of a forced close.
LEMMA CloseOrderType ==
    ASSUME NEW side \in Sides, NEW qty \in Nat
    PROVE  /\ CloseOrder(side, qty) \in OrderType
           /\ CloseOrder(side, qty).status = "FILLED"
<1> DEFINE r == [type |-> "MARKET", side |-> side, qty |-> qty, px |-> None,
                 stop |-> None, trail |-> None, percent |-> TRUE, visible |-> None,
                 tif |-> "GTC", postOnly |-> FALSE, expire |-> None,
                 oco |-> NoGroup, sl |-> None, tp |-> None, listed |-> TRUE]
           o == [NewOrder(r) EXCEPT !.status = "FILLED", !.heard = TRUE,
                                    !.filled = qty, !.done = qty]
<1>1. None \in Int
  BY DEF None
<1>2. r \in RequestType
  BY <1>1 DEF RequestType, Types
<1>3. o = CloseOrder(side, qty)
  BY DEF CloseOrder
<1> HIDE DEF r
<1>4. NewOrder(r) \in OrderType
  BY <1>2, NewOrderType
<1>5. PICK x \in Int : x = qty
  OBVIOUS
<1>6. o = [NewOrder(r) EXCEPT !.status = "FILLED", !.heard = TRUE,
                              !.filled = x, !.done = x]
  BY <1>5
<1>7. o \in OrderType /\ o.status = "FILLED"
  BY <1>4, <1>6 DEF OrderType, Statuses
<1> HIDE DEF o
<1> QED
  BY <1>3, <1>7

\* Resolving the OCO group of order id, already out of the books.
LEMMA ResolveBooks ==
    ASSUME NEW os, NEW c, NEW id \in DOMAIN os, Books(os, resting \ {id}),
           ResolveOco(os, c, id)
    PROVE  /\ Books(orders', resting')
           /\ DOMAIN orders' = DOMAIN os
           /\ \A i \in DOMAIN os : orders'[i].heard = os[i].heard
<1> DEFINE S == Siblings(os, id)
<1>1. S \in SUBSET DOMAIN os
  BY DEF Siblings
<1>2. orders' = CancelIn(os, S) /\ resting' = resting \ (S \cup {id})
  BY DEF ResolveOco
<1> HIDE DEF S
<1>3. resting' = (resting \ {id}) \ S
  BY <1>2
<1> QED
  BY <1>1, <1>2, <1>3, BooksCancel

-----------------------------------------------------------------------------
(* The invariant                                                            *)

\* What every step keeps: a sound account worth what it started with, books
\* that agree with the orders, and a sweep over orders of the history.
ExchangeInv ==
    /\ Sound(acct)
    /\ Worth(acct) = InitialBalance
    /\ Books(orders, resting)
    /\ todo \subseteq DOMAIN orders
    /\ \A i \in todo : orders[i].heard
    /\ price \in Prices

\* The invariant holds of a new exchange.
LEMMA InitInv == Init => ExchangeInv
<1> SUFFICES ASSUME Init PROVE ExchangeInv
  OBVIOUS
<1>1. InitialBalance \in Int
  BY AccountAssumption
<1>2. NoPosition \in PositionType /\ NoPosition.qty = 0 /\ NoPosition.margin = 0
  BY DEF NoPosition, PositionType
<1>3. Sound(acct) /\ Worth(acct) = InitialBalance
  BY <1>1, <1>2, AccountAssumption DEF Init, NewAccount, Sound, AccountType, Worth
<1>4. orders = << >> /\ resting = {} /\ todo = {}
  BY DEF Init
<1>5. Books(orders, resting)
  BY <1>4 DEF Books
<1> QED
  BY <1>3, <1>4, <1>5 DEF Init, ExchangeInv

\* What the sweep has still to examine stays in the history when an order is
\* created.
LEMMA TodoAppend ==
    ASSUME NEW os \in Seq(OrderType), NEW o \in OrderType, NEW T,
           T \subseteq DOMAIN os, \A i \in T : os[i].heard
    PROVE  /\ T \subseteq DOMAIN Append(os, o)
           /\ \A i \in T : Append(os, o)[i].heard
<1>1. Len(os) \in Nat /\ DOMAIN os = 1..Len(os) /\ DOMAIN Append(os, o) = 1..(Len(os) + 1)
  OBVIOUS
<1>2. \A i \in DOMAIN os : Append(os, o)[i] = os[i]
  BY <1>1
<1> QED
  BY <1>1, <1>2

\* A new order with its status decided by submit_order.
LEMMA DecidedOrder ==
    ASSUME NEW r \in RequestType, NEW st \in Statuses, NEW o,
           o = [NewOrder(r) EXCEPT !.status = st, !.heard = TRUE],
           Fate(r) = st, st # "REJECTED" => ~Malformed(r)
    PROVE  o \in OrderType /\ o.status = st /\ o.heard /\ Tradable(o)
<1>1. NewOrder(r) \in OrderType /\ NewOrder(r).req = r
  BY NewOrderType
<1>2. NewOrder(r).hidden = IF r.type = "ICEBERG" THEN r.qty - r.visible ELSE 0
  BY NewOrderType
<1>3. /\ o \in OrderType /\ o.status = st /\ o.heard = TRUE
      /\ o.req = NewOrder(r).req /\ o.hidden = NewOrder(r).hidden
  BY <1>1 DEF OrderType
<1>4. st = "PENDING" => ~Malformed(r)
  OBVIOUS
<1>5. st = "PENDING" => /\ r.qty > 0
                        /\ r.type = "ICEBERG" => r.visible > 0 /\ r.qty - r.visible > 0
  BY <1>4, WellFormed
<1>7. st = "PENDING" => /\ r.type = "LIMIT" => r.px # None
                        /\ r.type = "STOP_LIMIT" => r.px # None
  BY <1>4 DEF Fate, Advanced, PricedLimit, Malformed
<1>6. Tradable(o)
  BY <1>1, <1>2, <1>3, <1>5, <1>7 DEF Tradable
<1> QED
  BY <1>3, <1>6

\* Only malformed requests are rejected for their form.
LEMMA FateWellFormed ==
    ASSUME NEW r, Fate(r) # "REJECTED"
    PROVE  ~Malformed(r)
BY DEF Fate

\* Rejected, cancelled and resting submissions keep the invariant.
LEMMA SubmitDecidedInv ==
    ASSUME ExchangeInv, NEW r \in Requests, NEW st \in Statuses,
           SubmitDecided(r, st)
    PROVE  ExchangeInv'
<1> DEFINE o == [NewOrder(r) EXCEPT !.status = st, !.heard = TRUE]
<1>1. r \in RequestType
  BY ExchangeAssumption
<1>2. Fate(r) = st /\ (st # "REJECTED" => ~Malformed(r))
  BY FateWellFormed DEF SubmitDecided
<1>3. o \in OrderType /\ o.status = st /\ o.heard /\ Tradable(o)
  BY <1>1, <1>2, DecidedOrder
<1>4. /\ orders' = Append(orders, o)
      /\ resting' = IF st = "PENDING" THEN resting \cup {Len(orders) + 1} ELSE resting
      /\ UNCHANGED <<acct, price, todo>>
  BY DEF SubmitDecided
<1> HIDE DEF o
<1>5. Books(orders', resting')
  BY <1>3, <1>4, BooksAppend DEF ExchangeInv
<1>6. todo' \subseteq DOMAIN orders' /\ \A i \in todo' : orders'[i].heard
  BY <1>3, <1>4, TodoAppend DEF ExchangeInv, Books
<1> QED
  BY <1>4, <1>5, <1>6 DEF ExchangeInv, Worth

\* A submission that raises creates an order outside the books.
LEMMA SubmitRaisesInv ==
    ASSUME ExchangeInv, NEW r \in Requests, SubmitRaises(r)
    PROVE  ExchangeInv'
<1> DEFINE o == NewOrder(r)
<1>1. r \in RequestType
  BY ExchangeAssumption
<1>2. ~Malformed(r)
  BY FateWellFormed DEF SubmitRaises
<1>8. r.type \in {"LIMIT", "STOP_LIMIT"} => r.px # None
  BY DEF SubmitRaises, Fate, PricedLimit, Advanced
<1>3. o \in OrderType /\ o.req = r /\ o.heard = FALSE
  BY <1>1, NewOrderType DEF NewOrder
<1>4. Tradable(o)
  BY <1>1, <1>2, <1>8, NewOrderType, WellFormed DEF Tradable
<1>5. orders' = Append(orders, o) /\ UNCHANGED <<acct, resting, price, todo>>
  BY DEF SubmitRaises
<1> HIDE DEF o
<1>6. Books(orders', resting')
  BY <1>3, <1>4, <1>5, BooksAppend DEF ExchangeInv
<1>7. todo' \subseteq DOMAIN orders' /\ \A i \in todo' : orders'[i].heard
  BY <1>3, <1>5, TodoAppend DEF ExchangeInv, Books
<1> QED
  BY <1>5, <1>6, <1>7 DEF ExchangeInv, Worth

\* A submission that fills.
LEMMA SubmitFillsInv ==
    ASSUME ExchangeInv, NEW r \in Requests, SubmitFills(r)
    PROVE  ExchangeInv'
<1> DEFINE o == [NewOrder(r) EXCEPT !.status = "FILLED", !.heard = TRUE,
                                    !.filled = r.qty, !.done = r.qty]
           os == Append(orders, o)
           n == Len(orders) + 1
<1>1. r \in RequestType /\ r.side \in Sides /\ r.qty \in Int /\ r.px \in Int
      /\ r.sl \in Int /\ r.tp \in Int
  BY ExchangeAssumption DEF RequestType, None
<1>2. r.qty \in Nat \ {0}
  BY <1>1, FateWellFormed, WellFormed DEF SubmitFills
<1>3. price \in Int
  BY ExchangeAssumption DEF ExchangeInv
<1>4. SubmitPrice(r) \in Int
  BY <1>1, <1>3, AmountsInt DEF SubmitPrice, ExchangeInv, Sound
<1>5. acct' = Filled(acct, r.side, r.qty, SubmitPrice(r), r.sl, r.tp)
  BY DEF SubmitFills
<1>6. Sound(acct') /\ Worth(acct') = Worth(acct)
  BY <1>1, <1>2, <1>4, <1>5, FilledSound DEF ExchangeInv
<1>7. o \in OrderType /\ o.status = "FILLED" /\ o.heard
  <2>1. NewOrder(r) \in OrderType
    BY <1>1, NewOrderType
  <2>2. PICK x \in Int : x = r.qty
    BY <1>1
  <2>3. o = [NewOrder(r) EXCEPT !.status = "FILLED", !.heard = TRUE,
                                !.filled = x, !.done = x]
    BY <2>2
  <2> HIDE DEF o
  <2> QED
    BY <2>1, <2>3 DEF OrderType, Statuses
<1>8. ResolveOco(os, AppendCount(counters, "FILLED"), n)
      /\ UNCHANGED <<price, todo>>
  BY DEF SubmitFills
<1> HIDE DEF o
<1>9. Books(os, resting) /\ n \notin resting /\ os[n] = o
  BY <1>7, BooksAppend DEF ExchangeInv, Tradable
<1>10. n \in DOMAIN os /\ resting \ {n} = resting
  BY <1>9, <1>7 DEF ExchangeInv, Books
<1>11. todo \subseteq DOMAIN os /\ \A i \in todo : os[i].heard
  BY <1>7, TodoAppend DEF ExchangeInv, Books
<1> HIDE DEF os, n
<1>12. Books(os, resting \ {n})
  BY <1>9, <1>10
<1>13. /\ Books(orders', resting') /\ DOMAIN orders' = DOMAIN os
       /\ \A i \in DOMAIN os : orders'[i].heard = os[i].heard
  BY <1>8, <1>10, <1>12, ResolveBooks
<1> QED
  BY <1>6, <1>8, <1>11, <1>13 DEF ExchangeInv

\* Cancelling resting orders.
LEMMA CancelledInv ==
    ASSUME ExchangeInv, NEW S \in SUBSET resting, Cancelled(S)
    PROVE  ExchangeInv'
<1>1. /\ orders' = CancelIn(orders, S) /\ resting' = resting \ S
      /\ UNCHANGED <<acct, price, todo>>
  BY DEF Cancelled
<1>2. S \in SUBSET DOMAIN orders
  BY DEF ExchangeInv, Books
<1>3. /\ Books(orders', resting') /\ DOMAIN orders' = DOMAIN orders
      /\ \A i \in DOMAIN orders : orders'[i].heard = orders[i].heard
  BY <1>1, <1>2, BooksCancel DEF ExchangeInv
<1> QED
  BY <1>1, <1>3 DEF ExchangeInv

\* A forced close creates one filled order.
LEMMA ForceCloseBooks ==
    ASSUME ExchangeInv, NEW qty \in Nat, ForceClose(qty), resting' = resting,
           NEW T, T \subseteq DOMAIN orders, \A i \in T : orders[i].heard
    PROVE  /\ Books(orders', resting')
           /\ T \subseteq DOMAIN orders' /\ \A i \in T : orders'[i].heard
<1> DEFINE o == CloseOrder(Opposite(acct.pos.side), qty)
<1>1. Opposite(acct.pos.side) \in Sides
  BY DEF Opposite, Sides
<1>2. o \in OrderType /\ o.status = "FILLED"
  BY <1>1, CloseOrderType
<1>3. orders' = Append(orders, o)
  BY DEF ForceClose
<1> HIDE DEF o
<1>4. Books(orders', resting')
  BY <1>2, <1>3, BooksAppend DEF ExchangeInv, Tradable
<1> QED
  BY <1>2, <1>3, <1>4, TodoAppend DEF ExchangeInv, Books

\* A client closes the position.
LEMMA HandleCloseInv ==
    ASSUME ExchangeInv, HandleClosePosition
    PROVE  ExchangeInv'
<1>1. acct.pos.qty \in Nat \ {0}
  BY AccountFields DEF HandleClosePosition, ExchangeInv, Sound
<1>2. price \in Int
  BY ExchangeAssumption DEF ExchangeInv
<1>3. Sound(acct') /\ Worth(acct') = Worth(acct)
  BY <1>1, <1>2, ForceClosedSound DEF HandleClosePosition, ExchangeInv
<1>4. ForceClose(acct.pos.qty) /\ UNCHANGED <<resting, price, todo>>
  BY DEF HandleClosePosition
<1>5. /\ Books(orders', resting')
      /\ todo \subseteq DOMAIN orders' /\ \A i \in todo : orders'[i].heard
  BY <1>1, <1>4, ForceCloseBooks DEF ExchangeInv
<1> QED
  BY <1>3, <1>4, <1>5 DEF ExchangeInv

\* Changing the terms, or the price.
LEMMA UpdateConfigInv ==
    ASSUME ExchangeInv, NEW terms \in Terms, UpdateConfig(terms)
    PROVE  ExchangeInv'
<1>1. terms \in TermsType
  BY ExchangeAssumption
<1>2. /\ acct' = [acct EXCEPT !.terms = terms] /\ UNCHANGED <<orders, resting, price, todo>>
  BY DEF UpdateConfig
<1>3. Sound(acct') /\ Worth(acct') = Worth(acct)
  BY <1>1, <1>2 DEF ExchangeInv, Sound, AccountType, Worth
<1> QED
  BY <1>2, <1>3 DEF ExchangeInv

LEMMA MarketMovesInv ==
    ASSUME ExchangeInv, NEW p \in Prices, MarketMoves(p)
    PROVE  ExchangeInv'
BY DEF MarketMoves, ExchangeInv

\* The turn of the exchange closes what the price triggers and starts the sweep.
LEMMA StartSweepInv ==
    ASSUME ExchangeInv, StartSweep
    PROVE  ExchangeInv'
<1>1. /\ price' = price /\ todo' = resting /\ resting' = resting
      /\ price \in Int
  BY ExchangeAssumption DEF StartSweep, ExchangeInv
<1>2. resting \subseteq DOMAIN orders /\ \A i \in resting : orders[i].heard
  BY DEF ExchangeInv, Books
<1>3. CASE Trigger(acct, price) = "NONE"
  <2>1. UNCHANGED <<acct, orders>>
    BY <1>3 DEF StartSweep
  <2> QED
    BY <1>1, <1>2, <2>1 DEF ExchangeInv
<1>4. CASE Trigger(acct, price) # "NONE"
  <2>1. ForceClose(TriggeredQty(acct, price)) /\ acct' = Swept(acct, price)
    BY <1>4 DEF StartSweep
  <2>2. Sound(acct') /\ Worth(acct') = Worth(acct)
    BY <1>1, <1>4, <2>1, SweptSound DEF ExchangeInv
  <2>3. TriggeredQty(acct, price) \in Nat
    <3>1. acct.pos.qty \in Nat
      BY AccountFields DEF ExchangeInv, Sound
    <3> QED
      BY <3>1 DEF TriggeredQty
  <2>4. /\ Books(orders', resting')
        /\ resting \subseteq DOMAIN orders' /\ \A i \in resting : orders'[i].heard
    BY <1>1, <1>2, <2>1, <2>3, ForceCloseBooks
  <2> QED
    BY <1>1, <2>2, <2>4 DEF ExchangeInv
<1> QED
  BY <1>3, <1>4

\* The sweep leaves a pending order where it is, its trigger or stop updated.
LEMMA PassInv ==
    ASSUME ExchangeInv, NEW id \in todo, NEW o \in OrderType, o.heard,
           orders[id].status = "PENDING", o.status = "PENDING", Tradable(o),
           Pass(id, o)
    PROVE  ExchangeInv'
<1>1. /\ orders' = [orders EXCEPT ![id] = o] /\ todo' = todo \ {id}
      /\ UNCHANGED <<acct, resting, price>>
  BY DEF Pass
<1>2. orders \in Seq(OrderType) /\ id \in DOMAIN orders /\ id \in resting
  BY DEF ExchangeInv, Books
<1>3. Books(orders', resting')
  BY <1>1, <1>2, BooksUpdate DEF ExchangeInv
<1>4. DOMAIN orders' = DOMAIN orders /\ \A i \in DOMAIN orders : i # id => orders'[i] = orders[i]
  BY <1>1, <1>2
<1> QED
  BY <1>1, <1>3, <1>4 DEF ExchangeInv

\* A pending order that the sweep executes is filled or refused.
LEMMA ExecuteInv ==
    ASSUME ExchangeInv, NEW id \in todo, NEW o \in OrderType, o.heard,
           orders[id].status = "PENDING", o.req = orders[id].req, NEW at \in Int,
           Execute(id, o, at)
    PROVE  ExchangeInv'
<1> DEFINE q == o.req.qty
<1>1. /\ orders \in Seq(OrderType) /\ id \in DOMAIN orders /\ id \in resting
      /\ orders[id] \in OrderType /\ Tradable(orders[id])
  BY DEF ExchangeInv, Books
<1>2. q \in Nat \ {0} /\ o.req.side \in Sides
  <2>1. o.req \in RequestType
    BY DEF OrderType
  <2>2. o.req.qty \in Int /\ o.req.side \in Sides
    BY <2>1 DEF RequestType
  <2>3. o.req.qty > 0
    BY <1>1 DEF Tradable
  <2> QED
    BY <2>2, <2>3
<1>3. CASE MarginOk(acct, at, at, q)
  <2> DEFINE d == [o EXCEPT !.status = "FILLED", !.filled = q, !.done = q]
             os == [orders EXCEPT ![id] = d]
  <2>1. /\ acct' = Filled(acct, o.req.side, q, at, None, None)
        /\ ResolveOco(os, Count(counters, "FILLED", 1), id)
        /\ todo' = todo \ {id} /\ price' = price
    BY <1>3 DEF Execute
  <2>2. None \in Int
    BY DEF None
  <2>3. Sound(acct') /\ Worth(acct') = Worth(acct)
    BY <1>2, <2>1, <2>2, FilledSound DEF ExchangeInv
  <2>4. d \in OrderType /\ d.status = "FILLED" /\ d.heard
    <3>1. PICK x \in Int : x = q
      BY <1>2
    <3>2. d = [o EXCEPT !.status = "FILLED", !.filled = x, !.done = x]
      BY <3>1
    <3> HIDE DEF d
    <3> QED
      BY <3>2 DEF OrderType, Statuses
  <2> HIDE DEF d
  <2>5. Books(os, resting \ {id})
    BY <1>1, <2>4, BooksUpdate DEF ExchangeInv, Tradable
  <2>6. DOMAIN os = DOMAIN orders /\ \A i \in DOMAIN orders : i # id => os[i] = orders[i]
    BY <1>1
  <2> HIDE DEF os
  <2>7. /\ Books(orders', resting') /\ DOMAIN orders' = DOMAIN os
        /\ \A i \in DOMAIN os : orders'[i].heard = os[i].heard
    BY <1>1, <2>1, <2>5, <2>6, ResolveBooks
  <2> QED
    BY <2>1, <2>3, <2>6, <2>7 DEF ExchangeInv
<1>4. CASE ~MarginOk(acct, at, at, q)
  <2> DEFINE d == [o EXCEPT !.status = "REJECTED"]
  <2>1. /\ orders' = [orders EXCEPT ![id] = d] /\ resting' = resting \ {id}
        /\ todo' = todo \ {id} /\ UNCHANGED <<acct, price>>
    BY <1>4 DEF Execute, Refuse
  <2>2. d \in OrderType /\ d.status = "REJECTED" /\ d.heard
    BY DEF OrderType, Statuses
  <2> HIDE DEF d
  <2>3. Books(orders', resting')
    BY <1>1, <2>1, <2>2, BooksUpdate DEF ExchangeInv, Tradable
  <2>4. DOMAIN orders' = DOMAIN orders /\ \A i \in DOMAIN orders : i # id => orders'[i] = orders[i]
    BY <1>1, <2>1
  <2> QED
    BY <2>1, <2>3, <2>4 DEF ExchangeInv
<1> QED
  BY <1>3, <1>4

\* What is known of an order when its turn comes.
LEMMA DueOrder ==
    ASSUME ExchangeInv, NEW id \in todo, orders[id].status = "PENDING"
    PROVE  /\ orders \in Seq(OrderType) /\ id \in DOMAIN orders /\ id \in resting
           /\ orders[id] \in OrderType /\ orders[id].heard /\ Tradable(orders[id])
           /\ orders[id].req \in RequestType /\ orders[id].req.px \in Int
           /\ price \in Int
<1>1. /\ orders \in Seq(OrderType) /\ id \in DOMAIN orders /\ id \in resting
      /\ orders[id].heard /\ Tradable(orders[id])
  BY DEF ExchangeInv, Books
<1>2. orders[id] \in OrderType
  BY <1>1
<1>3. orders[id].req \in RequestType
  BY <1>2 DEF OrderType
<1>4. orders[id].req.px \in Int
  BY <1>3 DEF RequestType, None
<1>5. price \in Int
  BY ExchangeAssumption DEF ExchangeInv
<1> QED
  BY <1>1, <1>2, <1>3, <1>4, <1>5

\* Passing over an order that a sibling's fill cancelled.
LEMMA SkipInv ==
    ASSUME ExchangeInv, NEW id \in todo, SkipDecided(id)
    PROVE  ExchangeInv'
<1>1. orders \in Seq(OrderType) /\ id \in DOMAIN orders
  BY DEF ExchangeInv, Books
<1>2. [orders EXCEPT ![id] = orders[id]] = orders
  BY <1>1
<1>3. orders' = orders /\ todo' = todo \ {id} /\ UNCHANGED <<acct, resting, price>>
  BY <1>2 DEF SkipDecided, Pass
<1> QED
  BY <1>3 DEF ExchangeInv

\* Cancelling an expired order.
LEMMA ExpireInv ==
    ASSUME ExchangeInv, NEW id \in todo, ExpireLimit(id)
    PROVE  ExchangeInv'
<1> DEFINE d == [orders[id] EXCEPT !.status = "CANCELLED"]
<1>1. /\ orders \in Seq(OrderType) /\ id \in DOMAIN orders /\ id \in resting
      /\ orders[id] \in OrderType /\ orders[id].heard
  BY DueOrder DEF ExpireLimit, Due
<1>2. /\ orders' = [orders EXCEPT ![id] = d] /\ resting' = resting \ {id}
      /\ todo' = todo \ {id} /\ UNCHANGED <<acct, price>>
  BY DEF ExpireLimit
<1>3. d \in OrderType /\ d.status = "CANCELLED" /\ d.heard
  BY <1>1 DEF OrderType, Statuses
<1> HIDE DEF d
<1>4. Books(orders', resting')
  BY <1>1, <1>2, <1>3, BooksUpdate DEF ExchangeInv, Tradable
<1>5. DOMAIN orders' = DOMAIN orders /\ \A i \in DOMAIN orders : i # id => orders'[i] = orders[i]
  BY <1>1, <1>2
<1> QED
  BY <1>2, <1>4, <1>5 DEF ExchangeInv

\* A limit, stop-limit or trailing order is looked at: its trigger or stop is
\* updated (o), and it stays in its book or is executed.  One that carries an
\* expiry is executed before it only.
Examined(id) ==
    /\ orders[id].status = "PENDING"
    /\ \E o \in OrderType, at \in Nat :
          /\ o.heard /\ o.req = orders[id].req /\ o.status = "PENDING" /\ Tradable(o)
          /\ \/ Pass(id, o)
             \/ Execute(id, o, at) /\ (o.req.type = "LIMIT" => ~Expired(o.req))

LEMMA ExaminedInv ==
    ASSUME ExchangeInv, NEW id \in todo, Examined(id)
    PROVE  ExchangeInv'
BY ExecuteInv, PassInv DEF Examined

\* A resting limit order.
LEMMA LimitExamined ==
    ASSUME ExchangeInv, NEW id \in todo, CheckLimit(id)
    PROVE  Examined(id)
<1>1. orders[id].status = "PENDING" /\ ~Expired(orders[id].req)
  BY DEF CheckLimit, Due
<1>2. /\ orders[id] \in OrderType /\ orders[id].heard /\ Tradable(orders[id])
      /\ orders[id].req.px \in Nat
  BY <1>1, DueOrder DEF CheckLimit, Due, Tradable, RequestType
<1>3. Execute(id, orders[id], orders[id].req.px) \/ Pass(id, orders[id])
  BY DEF CheckLimit
<1> QED
  BY <1>1, <1>2, <1>3 DEF Examined

\* A stop-limit order, its trigger latched.
LEMMA StopLimitExamined ==
    ASSUME ExchangeInv, NEW id \in todo, CheckStopLimit(id)
    PROVE  Examined(id)
<1> DEFINE t == CheckTrigger(orders[id])
           o == [orders[id] EXCEPT !.triggered = t]
<1>1. orders[id].status = "PENDING" /\ orders[id].req.type = "STOP_LIMIT"
  BY DEF CheckStopLimit, Due
<1>2. /\ orders[id] \in OrderType /\ orders[id].heard /\ Tradable(orders[id])
      /\ orders[id].req.px \in Nat
  BY <1>1, DueOrder DEF Tradable, RequestType
<1>3. t \in BOOLEAN
  BY <1>2 DEF CheckTrigger, OrderType
<1>4. Execute(id, o, o.req.px) \/ Pass(id, o)
  BY DEF CheckStopLimit
<1> HIDE DEF t
<1>5. o \in OrderType /\ o.req = orders[id].req /\ o.heard = orders[id].heard
      /\ o.status = orders[id].status /\ o.hidden = orders[id].hidden
  BY <1>2, <1>3 DEF OrderType
<1> HIDE DEF o
<1>6. Tradable(o)
  BY <1>2, <1>5 DEF Tradable
<1> QED
  BY <1>1, <1>2, <1>4, <1>5, <1>6 DEF Examined

\* A trailing stop, its stop price followed.
LEMMA TrailingStopExamined ==
    ASSUME ExchangeInv, NEW id \in todo, CheckTrailingStop(id)
    PROVE  Examined(id)
<1> DEFINE o == UpdateStopPrice(orders[id])
           at == FillPrice(acct, price, o.req.side)
<1>1. orders[id].status = "PENDING" /\ orders[id].req.type = "TRAILING_STOP"
  BY DEF CheckTrailingStop, Due
<1>2. /\ orders[id] \in OrderType /\ orders[id].heard /\ Tradable(orders[id])
      /\ orders[id].req \in RequestType /\ price \in Int /\ price \in Nat
  BY <1>1, DueOrder, ExchangeAssumption DEF ExchangeInv
<1>3. TrailFrom(orders[id]) \in Int
  <2>1. orders[id].req.trail \in Int
    BY <1>2 DEF RequestType
  <2>2. price * orders[id].req.trail \in Int
    BY <1>2, <2>1, Z3
  <2>3. (price * orders[id].req.trail) \div 100 \in Int
    BY <2>2, Z3
  <2>4. Trail(orders[id].req) \in Int
    BY <2>1, <2>3 DEF Trail
  <2> QED
    BY <1>2, <2>4 DEF TrailFrom
<1>4. Execute(id, o, at) \/ Pass(id, o)
  BY DEF CheckTrailingStop
<1>5. o \in OrderType /\ o.req = orders[id].req /\ o.heard = orders[id].heard
      /\ o.status = orders[id].status /\ o.hidden = orders[id].hidden
  <2>1. PICK x \in Int : x = TrailFrom(orders[id])
    BY <1>3
  <2>2. o = orders[id] \/ o = [orders[id] EXCEPT !.active = TRUE, !.best = price, !.stopPx = x]
    BY <2>1 DEF UpdateStopPrice
  <2> HIDE DEF o
  <2> QED
    BY <1>2, <2>2 DEF OrderType
<1>6. at \in Nat
  <2>1. acct \in AccountType /\ price >= 0
    BY <1>2 DEF ExchangeInv, Sound
  <2>2. at \in Int /\ at >= 0
    <3> HIDE DEF o
    <3> QED
      BY <1>2, <2>1, AmountsInt
  <2> QED
    BY <2>2
<1> HIDE DEF o, at
<1>7. Tradable(o)
  BY <1>2, <1>5 DEF Tradable
<1> QED
  BY <1>1, <1>2, <1>4, <1>5, <1>6, <1>7 DEF Examined

\* An iceberg after a slice: still tradable, or filled.
LEMMA AfterSliceOrder ==
    ASSUME NEW o \in OrderType, o.heard, o.status = "PENDING", Tradable(o),
           o.req.type = "ICEBERG"
    PROVE  /\ SliceQty(o) \in Nat \ {0}
           /\ AfterSlice(o) \in OrderType /\ AfterSlice(o).heard
           /\ Tradable(AfterSlice(o))
           /\ AfterSlice(o).status \in {"PENDING", "FILLED"}
           /\ AfterSlice(o).req = o.req
<1> DEFINE q == SliceQty(o)
           s == AfterSlice(o)
<1>1. /\ o.req \in RequestType /\ o.hidden \in Int /\ o.done \in Int
      /\ o.req.visible > 0 /\ o.hidden > 0
  BY DEF OrderType, Tradable
<1>2. o.req.visible \in Int /\ o.req.qty \in Int
  BY <1>1 DEF RequestType
<1>3. q \in Nat \ {0} /\ q <= o.hidden
  BY <1>1, <1>2 DEF SliceQty, Least
<1>4. PICK x \in Int, y \in Int, z \in Int :
        x = o.hidden - q /\ y = o.done + q /\ z = o.req.qty
  <2> HIDE DEF q
  <2> QED
    BY <1>1, <1>2, <1>3
<1>5. CASE o.hidden = q
  <2>0. PICK w \in Int : w = 0
    OBVIOUS
  <2>1. s = [o EXCEPT !.hidden = w, !.done = y, !.status = "FILLED", !.filled = z]
    BY <1>4, <1>5, <2>0 DEF AfterSlice
  <2> HIDE DEF s
  <2>2. s \in OrderType /\ s.heard /\ s.status = "FILLED" /\ s.req = o.req
    BY <2>1 DEF OrderType, Statuses
  <2> QED
    BY <1>3, <2>2 DEF Tradable, s
<1>6. CASE o.hidden # q
  <2>1. s = [o EXCEPT !.hidden = x, !.done = y]
    BY <1>4, <1>6 DEF AfterSlice
  <2>2. x > 0
    <3> HIDE DEF q
    <3> QED
      BY <1>1, <1>3, <1>4, <1>6
  <2> HIDE DEF s
  <2>3. /\ s \in OrderType /\ s.heard /\ s.status = "PENDING"
        /\ s.req = o.req /\ s.hidden = x
    BY <2>1 DEF OrderType
  <2>4. Tradable(s)
    BY <2>2, <2>3, <1>1 DEF Tradable
  <2> QED
    BY <1>3, <2>3, <2>4 DEF s
<1> QED
  BY <1>5, <1>6

\* An iceberg whose slice executes.
LEMMA SliceInv ==
    ASSUME ExchangeInv, NEW id \in todo, orders[id].status = "PENDING",
           orders[id].req.type = "ICEBERG", ExecuteSlice(id)
    PROVE  ExchangeInv'
<1> DEFINE o == orders[id]
           s == AfterSlice(o)
           os == [orders EXCEPT ![id] = s]
<1>1. /\ orders \in Seq(OrderType) /\ id \in DOMAIN orders /\ id \in resting
      /\ o \in OrderType /\ o.heard /\ Tradable(o)
      /\ o.req \in RequestType /\ o.req.px \in Int /\ price \in Int
  BY DueOrder
<1>2. /\ SliceQty(o) \in Nat \ {0} /\ s \in OrderType /\ s.heard
      /\ Tradable(s) /\ s.status \in {"PENDING", "FILLED"}
  BY <1>1, AfterSliceOrder
<1>3. o.req.side \in Sides /\ SlicePrice(o) \in Int /\ None \in Int
  BY <1>1 DEF RequestType, SlicePrice, None
<1>4. /\ acct' = Filled(acct, o.req.side, SliceQty(o), SlicePrice(o), None, None)
      /\ todo' = todo \ {id} /\ price' = price
      /\ IF s.status = "FILLED"
         THEN ResolveOco(os, Count(counters, "FILLED", 1), id)
         ELSE orders' = os /\ resting' = resting
  BY DEF ExecuteSlice
<1>5. Sound(acct') /\ Worth(acct') = Worth(acct)
  BY <1>2, <1>3, <1>4, FilledSound DEF ExchangeInv
<1> HIDE DEF s
<1>6. /\ s.status = "PENDING" => Books(os, resting)
      /\ s.status # "PENDING" => Books(os, resting \ {id})
  BY <1>1, <1>2, BooksUpdate DEF ExchangeInv
<1>7. DOMAIN os = DOMAIN orders /\ \A i \in DOMAIN orders : i # id => os[i] = orders[i]
  BY <1>1
<1> HIDE DEF os, o
<1>8. CASE s.status = "FILLED"
  <2>1. /\ Books(orders', resting') /\ DOMAIN orders' = DOMAIN os
        /\ \A i \in DOMAIN os : orders'[i].heard = os[i].heard
    BY <1>1, <1>4, <1>6, <1>7, <1>8, ResolveBooks
  <2> QED
    BY <1>4, <1>5, <1>7, <2>1 DEF ExchangeInv
<1>9. CASE s.status = "PENDING"
  BY <1>4, <1>5, <1>6, <1>7, <1>9 DEF ExchangeInv
<1> QED
  BY <1>2, <1>8, <1>9

\* An iceberg whose slice is refused keeps resting.
LEMMA RefuseSliceInv ==
    ASSUME ExchangeInv, NEW id \in todo, orders[id].status = "PENDING",
           RefuseSlice(id)
    PROVE  ExchangeInv'
<1> DEFINE o == orders[id]
           s == [o EXCEPT !.refused = @ + 1]
<1>1. /\ orders \in Seq(OrderType) /\ id \in DOMAIN orders /\ id \in resting
      /\ o \in OrderType /\ o.heard /\ Tradable(o)
  BY DueOrder
<1>2. /\ orders' = [orders EXCEPT ![id] = s] /\ todo' = todo \ {id}
      /\ UNCHANGED <<acct, resting, price>>
  BY DEF RefuseSlice
<1>3. PICK n \in Nat : n = o.refused + 1
  BY <1>1 DEF OrderType
<1>4. s = [o EXCEPT !.refused = n]
  BY <1>3
<1> HIDE DEF s
<1>5. /\ s \in OrderType /\ s.heard /\ s.status = "PENDING"
      /\ s.req = o.req /\ s.hidden = o.hidden
  BY <1>1, <1>4 DEF OrderType
<1>6. Tradable(s)
  BY <1>1, <1>5 DEF Tradable
<1>7. Books(orders', resting')
  BY <1>1, <1>2, <1>5, <1>6, BooksUpdate DEF ExchangeInv
<1>8. DOMAIN orders' = DOMAIN orders /\ \A i \in DOMAIN orders : i # id => orders'[i] = orders[i]
  BY <1>1, <1>2
<1> QED
  BY <1>2, <1>7, <1>8 DEF ExchangeInv

\* An iceberg whose turn has come.
LEMMA IcebergInv ==
    ASSUME ExchangeInv, NEW id \in todo, CheckIceberg(id)
    PROVE  ExchangeInv'
<1>1. orders[id].status = "PENDING" /\ orders[id].req.type = "ICEBERG"
  BY DEF CheckIceberg, Due
<1>2. orders[id] \in OrderType /\ orders[id].heard /\ Tradable(orders[id])
  BY <1>1, DueOrder
<1>3. Pass(id, orders[id]) \/ ExecuteSlice(id) \/ RefuseSlice(id)
  BY DEF CheckIceberg
<1> QED
  BY <1>1, <1>2, <1>3, PassInv, SliceInv, RefuseSliceInv

\* The end of a tick charges funding.
LEMMA EndTickInv ==
    ASSUME ExchangeInv, NEW rate \in FundingRates, EndTick(rate)
    PROVE  ExchangeInv'
<1>1. price \in Int /\ rate \in Int
  BY ExchangeAssumption DEF ExchangeInv
<1>2. /\ acct' = Funded(acct, price, rate)
      /\ UNCHANGED <<orders, resting, price, todo>>
  BY DEF EndTick
<1>3. Sound(acct') /\ Worth(acct') = Worth(acct)
  BY <1>1, <1>2, FundedSound DEF ExchangeInv
<1> QED
  BY <1>2, <1>3 DEF ExchangeInv

\* Every step preserves the invariant.
LEMMA NextInv ==
    ASSUME ExchangeInv, [Next]_vars
    PROVE  ExchangeInv'
<1>1. CASE Submit
  <2>1. PICK r \in Requests : \/ SubmitRejected(r) \/ SubmitCancelled(r)
                              \/ SubmitRests(r) \/ SubmitRaises(r) \/ SubmitFills(r)
    BY <1>1 DEF Submit
  <2>2. CASE SubmitRejected(r) \/ SubmitCancelled(r) \/ SubmitRests(r)
    <3>1. PICK st \in Statuses : SubmitDecided(r, st)
      BY <2>2 DEF SubmitRejected, SubmitCancelled, SubmitRests, Statuses
    <3> QED
      BY <3>1, SubmitDecidedInv
  <2> QED
    BY <2>1, <2>2, SubmitRaisesInv, SubmitFillsInv
<1>2. CASE \E id \in resting : CancelOrder(id)
  BY <1>2, CancelledInv DEF CancelOrder
<1>3. CASE CancelAllOrders
  BY <1>3, CancelledInv DEF CancelAllOrders
<1>4. CASE HandleClosePosition
  BY <1>4, HandleCloseInv
<1>5. CASE (\E p \in Prices : MarketMoves(p)) \/ StartSweep
  BY <1>5, MarketMovesInv, StartSweepInv
<1>6. CASE Examine
  BY <1>6, SkipInv, ExpireInv, ExaminedInv, LimitExamined, StopLimitExamined,
     TrailingStopExamined, IcebergInv DEF Examine
<1>7. CASE \E rate \in FundingRates : EndTick(rate)
  BY <1>7, EndTickInv
<1>8. CASE UNCHANGED vars
  BY <1>8 DEF vars, ExchangeInv
<1>9. CASE \E terms \in Terms : UpdateConfig(terms)
  BY <1>9, UpdateConfigInv
<1> QED
  BY <1>1, <1>2, <1>3, <1>4, <1>5, <1>6, <1>7, <1>8, <1>9 DEF Next

-----------------------------------------------------------------------------
(* The theorems                                                             *)

\* The inductive invariant holds in every reachable state, for every set of
\* requests, prices, funding rates and account parameters.
THEOREM ExchangeInvariant == Spec => []ExchangeInv
BY InitInv, NextInv, PTL DEF Spec

\* No path through the fills, the closes, the liquidations and funding creates
\* or loses money.
THEOREM MoneyIsConserved == Spec => []MoneyConserved
<1>1. ExchangeInv => MoneyConserved
  BY DEF ExchangeInv, MoneyConserved
<1> QED
  BY <1>1, ExchangeInvariant, PTL

\* An order is in a book exactly while it is pending and in the history.
THEOREM BooksAgree == Spec => []RestingIsPending
<1>1. ExchangeInv => RestingIsPending
  BY DEF ExchangeInv, Books, RestingIsPending, Ids
<1> QED
  BY <1>1, ExchangeInvariant, PTL
-----------------------------------------------------------------------------
(* What a step does to the orders and to their groups                       *)

\* Only limit orders carry an expiry.
Timed(r) == r.expire = None \/ r.type = "LIMIT"

\* Order i of before the step: decided, it is left alone; pending, it may be
\* decided, but not filled.
Kept(i) ==
    /\ orders'[i].req = orders[i].req
    /\ orders[i].status # "PENDING" => orders'[i] = orders[i]
    /\ orders'[i].status = "FILLED" => orders[i].status = "FILLED"

\* A step that fills no order of a group and no resting order.
NotFilling ==
    /\ winner' = winner
    /\ Ids \subseteq Ids'
    /\ \A i \in Ids : Kept(i)
    /\ \A i \in Ids' \ Ids :
          /\ orders'[i].status = "PENDING" => Timed(orders'[i].req)
          /\ orders'[i].req.oco # NoGroup =>
                /\ orders'[i].status # "FILLED"
                /\ orders'[i].status = "PENDING" => winner[orders'[i].req.oco] = 0

\* A step that fills order id, new or resting, and resolves its group.
Filling(id) ==
    /\ Ids' = Ids \cup {id} /\ id # 0
    /\ id \in Ids => /\ orders[id].status = "PENDING"
                     /\ orders'[id].req = orders[id].req
                     /\ orders[id].req.expire \notin 0..now
    /\ orders'[id].status = "FILLED"
    /\ \A i \in Ids \ {id} : Kept(i)
    /\ orders'[id].req.oco = NoGroup => winner' = winner
    /\ orders'[id].req.oco # NoGroup =>
          /\ winner[orders'[id].req.oco] = 0
          /\ winner' = [winner EXCEPT ![orders'[id].req.oco] = id]
          /\ \A i \in Ids \ {id} : orders'[i].req.oco = orders'[id].req.oco =>
                                      orders'[i].status # "PENDING"

\* The groups: a filled order is the one its group names, and a group that
\* names one has no pending order left.
GroupInv ==
    /\ winner \in [Groups -> Nat]
    /\ \A i \in Ids : orders[i].status = "PENDING" => Timed(orders[i].req)
    /\ \A i \in Ids : orders[i].req.oco # NoGroup =>
          /\ orders[i].status = "FILLED" => winner[orders[i].req.oco] = i
          /\ winner[orders[i].req.oco] # 0 => orders[i].status # "PENDING"

\* Every such step keeps the groups in order.
LEMMA GroupsKept ==
    ASSUME ExchangeInv, ExchangeInv', GroupInv, NotFilling \/ \E id : Filling(id)
    PROVE  GroupInv'
<1>0. /\ \A i \in Ids : orders[i].req.oco \in Groups \cup {NoGroup}
      /\ \A i \in Ids' : orders'[i].req.oco \in Groups \cup {NoGroup}
      /\ Ids' \subseteq Nat \ {0}
  <2>1. orders \in Seq(OrderType) /\ orders' \in Seq(OrderType)
    BY DEF ExchangeInv, Books
  <2>2. \A o \in OrderType : o.req.oco \in Groups \cup {NoGroup}
    BY DEF OrderType, RequestType
  <2>3. /\ \A i \in Ids : orders[i] \in OrderType
        /\ \A i \in Ids' : orders'[i] \in OrderType
        /\ Ids' \subseteq Nat \ {0}
    BY <2>1 DEF Ids
  <2> QED
    BY <2>2, <2>3
<1>1. CASE NotFilling
  <2>1. winner' \in [Groups -> Nat]
    BY <1>1 DEF NotFilling, GroupInv
  <2>2. \A i \in Ids' : orders'[i].status = "PENDING" => Timed(orders'[i].req)
    BY <1>1 DEF NotFilling, GroupInv, Kept
  <2>3. \A i \in Ids' : orders'[i].req.oco # NoGroup =>
          /\ orders'[i].status = "FILLED" => winner'[orders'[i].req.oco] = i
          /\ winner'[orders'[i].req.oco] # 0 => orders'[i].status # "PENDING"
    BY <1>1 DEF NotFilling, GroupInv, Kept
  <2> QED
    BY <2>1, <2>2, <2>3 DEF GroupInv, Timed
<1>2. ASSUME NEW id, Filling(id) PROVE GroupInv'
  <2> DEFINE g == orders'[id].req.oco
  <2>1. id \in Ids' /\ g \in Groups \cup {NoGroup} /\ id \in Nat \ {0}
    BY <1>0, <1>2 DEF Filling
  <2>2. winner' \in [Groups -> Nat]
    BY <1>2, <2>1 DEF Filling, GroupInv
  <2>3. \A i \in Ids' : orders'[i].status = "PENDING" => Timed(orders'[i].req)
    BY <1>2 DEF Filling, GroupInv, Kept
  <2>4. ASSUME NEW i \in Ids', orders'[i].req.oco # NoGroup
        PROVE  /\ orders'[i].status = "FILLED" => winner'[orders'[i].req.oco] = i
               /\ winner'[orders'[i].req.oco] # 0 => orders'[i].status # "PENDING"
    <3>1. CASE i = id
      BY <1>2, <2>1, <2>4, <3>1 DEF Filling, GroupInv
    <3>2. CASE i # id
      <4>1. i \in Ids /\ Kept(i)
        BY <1>2, <3>2 DEF Filling
      <4>2. CASE orders'[i].req.oco = g
        <5>1. winner[g] = 0 /\ i # 0 /\ orders[i].req.oco = g /\ g # NoGroup
          BY <1>0, <1>2, <2>4, <4>1, <4>2 DEF Filling, Kept
        <5>2. orders'[i].status # "FILLED"
          BY <4>1, <5>1 DEF GroupInv, Kept
        <5>3. orders'[i].status # "PENDING"
          BY <1>2, <3>2, <4>1, <4>2, <5>1 DEF Filling
        <5> QED
          BY <5>2, <5>3
      <4>3. CASE orders'[i].req.oco # g
        <5>1. winner'[orders'[i].req.oco] = winner[orders'[i].req.oco]
          BY <1>0, <1>2, <2>1, <2>4, <4>3 DEF Filling, GroupInv
        <5> QED
          BY <2>4, <4>1, <5>1 DEF GroupInv, Kept
      <4> QED
        BY <4>2, <4>3
    <3> QED
      BY <3>1, <3>2
  <2> QED
    BY <2>2, <2>3, <2>4 DEF GroupInv, Timed
<1> QED
  BY <1>1, <1>2

\* Creating an order leaves the others alone.
LEMMA AppendKeeps ==
    ASSUME NEW os \in Seq(OrderType), NEW o \in OrderType
    PROVE  /\ DOMAIN Append(os, o) = DOMAIN os \cup {Len(os) + 1}
           /\ Len(os) + 1 \notin DOMAIN os /\ Len(os) + 1 # 0
           /\ Append(os, o)[Len(os) + 1] = o
           /\ \A i \in DOMAIN os : Append(os, o)[i] = os[i]
<1>1. Len(os) \in Nat /\ DOMAIN os = 1..Len(os) /\ DOMAIN Append(os, o) = 1..(Len(os) + 1)
  OBVIOUS
<1>2. \A i \in DOMAIN os : Append(os, o)[i] = os[i]
  BY <1>1
<1> QED
  BY <1>1, <1>2

\* Cancelling orders decides them and nothing else.
LEMMA CancelKeeps ==
    ASSUME NEW os \in Seq(OrderType), NEW S
    PROVE  /\ DOMAIN CancelIn(os, S) = DOMAIN os
           /\ \A i \in DOMAIN os :
                 /\ CancelIn(os, S)[i].req = os[i].req
                 /\ i \in S => CancelIn(os, S)[i].status = "CANCELLED"
                 /\ i \notin S => CancelIn(os, S)[i] = os[i]
<1>1. \A i \in DOMAIN os : os[i] \in OrderType
  OBVIOUS
<1>2. \A o \in OrderType : /\ [o EXCEPT !.status = "CANCELLED"].req = o.req
                           /\ [o EXCEPT !.status = "CANCELLED"].status = "CANCELLED"
  BY DEF OrderType
<1> QED
  BY <1>1, <1>2 DEF CancelIn

\* Resolving the group of order id, filled in os: a step of the kind Filling.
LEMMA ResolveFills ==
    ASSUME ExchangeInv, GroupInv, NEW os \in Seq(OrderType), NEW c, NEW id,
           DOMAIN os = Ids \cup {id}, id # 0, ResolveOco(os, c, id),
           os[id].status = "FILLED",
           id \in Ids => /\ orders[id].status = "PENDING"
                         /\ os[id].req = orders[id].req
                         /\ orders[id].req.expire \notin 0..now,
           id \notin Ids => os[id].req.oco = NoGroup \/ winner[os[id].req.oco] = 0,
           \A i \in Ids \ {id} : os[i] = orders[i]
    PROVE  Filling(id)
<1> DEFINE S == Siblings(os, id)
           g == os[id].req.oco
<1>1. /\ orders' = CancelIn(os, S)
      /\ winner' = IF g # NoGroup /\ winner[g] = 0 THEN [winner EXCEPT ![g] = id] ELSE winner
  BY DEF ResolveOco
<1>2. g # NoGroup => winner[g] = 0
  BY DEF GroupInv
<1>3. S = IF g = NoGroup THEN {}
          ELSE {i \in DOMAIN os : i # id /\ os[i].req.oco = g /\ os[i].status = "PENDING"}
  BY <1>2 DEF Siblings
<1>4. /\ Ids' = DOMAIN os
      /\ \A i \in DOMAIN os : /\ orders'[i].req = os[i].req
                              /\ i \in S => orders'[i].status = "CANCELLED"
                              /\ i \notin S => orders'[i] = os[i]
  BY <1>1, CancelKeeps DEF Ids
<1>5. id \notin S /\ \A i \in S : os[i].status = "PENDING" /\ i # id
  BY <1>3
<1> HIDE DEF S
<1>6. orders'[id] = os[id]
  BY <1>4, <1>5
<1>7. \A i \in Ids \ {id} : Kept(i)
  BY <1>4, <1>5 DEF Kept
<1>8. g # NoGroup => \A i \in Ids \ {id} : orders'[i].req.oco = g => orders'[i].status # "PENDING"
  BY <1>3, <1>4, <1>5
<1> QED
  BY <1>1, <1>2, <1>4, <1>6, <1>7, <1>8 DEF Filling

\* Replacing a pending order by one that is not filled.
LEMMA ReplaceKeeps ==
    ASSUME ExchangeInv, NEW id \in Ids, orders[id].status = "PENDING", NEW o,
           o.req = orders[id].req, o.status # "FILLED",
           orders' = [orders EXCEPT ![id] = o], winner' = winner
    PROVE  NotFilling
<1>1. orders \in Seq(OrderType)
  BY DEF ExchangeInv, Books
<1>2. Ids' = Ids /\ orders'[id] = o /\ \A i \in Ids \ {id} : orders'[i] = orders[i]
  BY <1>1 DEF Ids
<1> QED
  BY <1>2 DEF NotFilling, Kept

\* Creating an order that is not filled, or has no group.
LEMMA CreateKeeps ==
    ASSUME ExchangeInv, NEW o \in OrderType, orders' = Append(orders, o), winner' = winner,
           o.status = "PENDING" => Timed(o.req),
           o.req.oco # NoGroup =>
              o.status # "FILLED" /\ (o.status = "PENDING" => winner[o.req.oco] = 0)
    PROVE  NotFilling
<1>1. orders \in Seq(OrderType)
  BY DEF ExchangeInv, Books
<1>2. /\ Ids' = Ids \cup {Len(orders) + 1} /\ Len(orders) + 1 \notin Ids
      /\ orders'[Len(orders) + 1] = o /\ \A i \in Ids : orders'[i] = orders[i]
  BY <1>1, AppendKeeps DEF Ids
<1> QED
  BY <1>2 DEF NotFilling, Kept

\* What the fate of a request says of its form and of its group.
LEMMA FateFacts ==
    ASSUME NEW r \in RequestType, Fate(r) \in {"PENDING", "RAISED", "FILLED"}
    PROVE  /\ Timed(r)
           /\ r.oco # NoGroup => winner[r.oco] = 0
<1>1. ~Malformed(r) /\ ~GroupResolved(r)
  BY DEF Fate
<1> QED
  BY <1>1 DEF Malformed, GroupResolved, Timed

\* A submission creates an order, and a fill resolves its group.
LEMMA SubmitSteps ==
    ASSUME ExchangeInv, GroupInv, Submit
    PROVE  NotFilling \/ \E id : Filling(id)
<1>1. PICK r \in Requests : \/ SubmitRejected(r) \/ SubmitCancelled(r)
                            \/ SubmitRests(r) \/ SubmitRaises(r) \/ SubmitFills(r)
  BY DEF Submit
<1>2. r \in RequestType
  BY ExchangeAssumption
<1>3. NewOrder(r) \in OrderType /\ NewOrder(r).req = r /\ NewOrder(r).status = "PENDING"
  BY <1>2, NewOrderType
<1>4. CASE SubmitRejected(r) \/ SubmitCancelled(r) \/ SubmitRests(r)
  <2>1. PICK st \in {"REJECTED", "CANCELLED", "PENDING"} : SubmitDecided(r, st)
    BY <1>4 DEF SubmitRejected, SubmitCancelled, SubmitRests
  <2> DEFINE o == [NewOrder(r) EXCEPT !.status = st, !.heard = TRUE]
  <2>2. o \in OrderType /\ o.status = st /\ o.req = r
    BY <1>3, <2>1 DEF OrderType, Statuses
  <2>3. orders' = Append(orders, o) /\ winner' = winner /\ Fate(r) = st
    BY <2>1 DEF SubmitDecided
  <2> HIDE DEF o
  <2>4. st = "PENDING" => Timed(r) /\ (r.oco # NoGroup => winner[r.oco] = 0)
    BY <1>2, <2>3, FateFacts
  <2> QED
    BY <2>1, <2>2, <2>3, <2>4, CreateKeeps
<1>5. CASE SubmitRaises(r)
  <2>1. orders' = Append(orders, NewOrder(r)) /\ winner' = winner /\ Fate(r) = "RAISED"
    BY <1>5 DEF SubmitRaises
  <2>2. Timed(r) /\ (r.oco # NoGroup => winner[r.oco] = 0)
    BY <1>2, <2>1, FateFacts
  <2> QED
    BY <1>3, <2>1, <2>2, CreateKeeps
<1>6. CASE SubmitFills(r)
  <2> DEFINE o == [NewOrder(r) EXCEPT !.status = "FILLED", !.heard = TRUE,
                                      !.filled = r.qty, !.done = r.qty]
             os == Append(orders, o)
             n == Len(orders) + 1
  <2>1. o \in OrderType /\ o.status = "FILLED" /\ o.req = r
    <3>1. PICK x \in Int : x = r.qty
      BY <1>2 DEF RequestType
    <3>2. o = [NewOrder(r) EXCEPT !.status = "FILLED", !.heard = TRUE,
                                  !.filled = x, !.done = x]
      BY <3>1
    <3> HIDE DEF o
    <3> QED
      BY <1>3, <3>2 DEF OrderType, Statuses
  <2>2. ResolveOco(os, AppendCount(counters, "FILLED"), n) /\ Fate(r) = "FILLED"
    BY <1>6 DEF SubmitFills
  <2> HIDE DEF o
  <2>3. orders \in Seq(OrderType) /\ os \in Seq(OrderType)
    BY <2>1 DEF ExchangeInv, Books
  <2>4. /\ DOMAIN os = Ids \cup {n} /\ n \notin Ids /\ n # 0 /\ os[n] = o
        /\ \A i \in Ids : os[i] = orders[i]
    BY <2>1, <2>3, AppendKeeps DEF Ids
  <2>5. r.oco # NoGroup => winner[r.oco] = 0
    BY <1>2, <2>2, FateFacts
  <2> HIDE DEF os, n
  <2>6. Filling(n)
    BY <2>1, <2>2, <2>3, <2>4, <2>5, ResolveFills
  <2> QED
    BY <2>6
<1> QED
  BY <1>1, <1>4, <1>5, <1>6

\* A forced close creates a filled order without a group.
LEMMA ForceCloseKeeps ==
    ASSUME ExchangeInv, NEW qty \in Nat, ForceClose(qty), winner' = winner
    PROVE  NotFilling
<1> DEFINE o == CloseOrder(Opposite(acct.pos.side), qty)
<1>1. Opposite(acct.pos.side) \in Sides
  BY DEF Opposite, Sides
<1>2. o \in OrderType /\ o.status = "FILLED"
  BY <1>1, CloseOrderType
<1>3. o.req.oco = NoGroup
  BY DEF CloseOrder, NewOrder
<1>4. orders' = Append(orders, o)
  BY DEF ForceClose
<1> HIDE DEF o
<1> QED
  BY <1>2, <1>3, <1>4, CreateKeeps

\* Replacing an order leaves the others alone.
LEMMA UpdateKeeps ==
    ASSUME NEW os \in Seq(OrderType), NEW id \in DOMAIN os, NEW o \in OrderType
    PROVE  /\ [os EXCEPT ![id] = o] \in Seq(OrderType)
           /\ DOMAIN [os EXCEPT ![id] = o] = DOMAIN os \cup {id}
           /\ [os EXCEPT ![id] = o][id] = o
           /\ \A i \in DOMAIN os \ {id} : [os EXCEPT ![id] = o][i] = os[i]
<1>1. [os EXCEPT ![id] = o] \in Seq(OrderType) /\ DOMAIN [os EXCEPT ![id] = o] = DOMAIN os
  OBVIOUS
<1> QED
  BY <1>1

\* Cancelling resting orders, which are pending.
LEMMA CancelledSteps ==
    ASSUME ExchangeInv, NEW S \in SUBSET resting, Cancelled(S)
    PROVE  NotFilling
<1>1. orders \in Seq(OrderType) /\ S \subseteq Ids /\ \A i \in S : orders[i].status = "PENDING"
  BY DEF ExchangeInv, Books, Ids
<1>2. orders' = CancelIn(orders, S) /\ winner' = winner
  BY DEF Cancelled
<1>3. /\ Ids' = Ids
      /\ \A i \in Ids : /\ orders'[i].req = orders[i].req
                        /\ i \in S => orders'[i].status = "CANCELLED"
                        /\ i \notin S => orders'[i] = orders[i]
  BY <1>1, <1>2, CancelKeeps DEF Ids
<1> QED
  BY <1>1, <1>2, <1>3 DEF NotFilling, Kept

\* A limit, stop-limit or trailing order passed over, executed or refused.
LEMMA ExaminedSteps ==
    ASSUME ExchangeInv, GroupInv, NEW id \in todo, Examined(id), now \in Nat
    PROVE  NotFilling \/ Filling(id)
<1>1. /\ orders \in Seq(OrderType) /\ id \in Ids /\ id # 0
      /\ orders[id].status = "PENDING"
  BY DEF Examined, ExchangeInv, Books, Ids
<1>2. PICK o \in OrderType, at \in Int :
         /\ o.req = orders[id].req /\ o.status = "PENDING"
         /\ \/ Pass(id, o)
            \/ Execute(id, o, at) /\ (o.req.type = "LIMIT" => ~Expired(o.req))
  BY DEF Examined
<1>3. CASE Pass(id, o)
  BY <1>1, <1>2, <1>3, ReplaceKeeps DEF Pass
<1>4. CASE Execute(id, o, at) /\ (o.req.type = "LIMIT" => ~Expired(o.req))
  <2>1. CASE MarginOk(acct, at, at, o.req.qty)
    <3> DEFINE q == o.req.qty
               d == [o EXCEPT !.status = "FILLED", !.filled = q, !.done = q]
               os == [orders EXCEPT ![id] = d]
    <3>1. ResolveOco(os, Count(counters, "FILLED", 1), id)
      BY <1>4, <2>1 DEF Execute
    <3>2. d \in OrderType /\ d.status = "FILLED" /\ d.req = o.req
      <4>1. o.req \in RequestType
        BY DEF OrderType
      <4>2. PICK x \in Int : x = q
        BY <4>1 DEF RequestType
      <4>3. d = [o EXCEPT !.status = "FILLED", !.filled = x, !.done = x]
        BY <4>2
      <4> HIDE DEF d
      <4> QED
        BY <4>3 DEF OrderType, Statuses
    <3> HIDE DEF d
    <3>3. /\ os \in Seq(OrderType) /\ DOMAIN os = Ids \cup {id} /\ os[id] = d
          /\ \A i \in Ids \ {id} : os[i] = orders[i]
      BY <1>1, <3>2, UpdateKeeps DEF Ids
    <3>4. orders[id].req.expire \notin 0..now
      <4>1. orders[id].req \in RequestType /\ Timed(orders[id].req)
        BY <1>1, <1>2 DEF GroupInv, OrderType
      <4>2. orders[id].req.expire \in Nat \cup {None}
        BY <4>1 DEF RequestType
      <4>3. orders[id].req.type = "LIMIT" => ~Expired(orders[id].req)
        BY <1>2, <1>4
      <4> QED
        BY <4>1, <4>2, <4>3 DEF Timed, Expired, None
    <3> HIDE DEF os
    <3>5. Filling(id)
      BY <1>1, <1>2, <3>1, <3>2, <3>3, <3>4, ResolveFills
    <3> QED
      BY <3>5
  <2>2. CASE ~MarginOk(acct, at, at, o.req.qty)
    <3> DEFINE d == [o EXCEPT !.status = "REJECTED"]
    <3>1. orders' = [orders EXCEPT ![id] = d] /\ winner' = winner
      BY <1>4, <2>2 DEF Execute, Refuse
    <3>2. d.status = "REJECTED" /\ d.req = o.req
      BY DEF OrderType
    <3> HIDE DEF d
    <3> QED
      BY <1>1, <1>2, <3>1, <3>2, ReplaceKeeps
  <2> QED
    BY <2>1, <2>2
<1> QED
  BY <1>2, <1>3, <1>4

\* An iceberg passed over, or with a slice executed or refused.
LEMMA IcebergSteps ==
    ASSUME ExchangeInv, GroupInv, NEW id \in todo, CheckIceberg(id), now \in Nat
    PROVE  NotFilling \/ Filling(id)
<1> DEFINE o == orders[id]
           s == AfterSlice(o)
           os == [orders EXCEPT ![id] = s]
<1>1. o.status = "PENDING" /\ o.req.type = "ICEBERG"
  BY DEF CheckIceberg, Due
<1>2. /\ orders \in Seq(OrderType) /\ id \in Ids /\ id # 0 /\ o \in OrderType
      /\ o.heard /\ Tradable(o) /\ o.req \in RequestType
  BY <1>1, DueOrder DEF Ids
<1>3. Pass(id, o) \/ ExecuteSlice(id) \/ RefuseSlice(id)
  BY DEF CheckIceberg
<1>4. /\ s \in OrderType /\ s.status \in {"PENDING", "FILLED"} /\ s.req = o.req
  BY <1>1, <1>2, AfterSliceOrder
<1>5. CASE Pass(id, o)
  BY <1>1, <1>2, <1>5, ReplaceKeeps DEF Pass
<1>6. CASE RefuseSlice(id)
  <2> DEFINE d == [o EXCEPT !.refused = @ + 1]
  <2>1. orders' = [orders EXCEPT ![id] = d] /\ winner' = winner
    BY <1>6 DEF RefuseSlice
  <2>2. PICK n \in Nat : n = o.refused + 1
    BY <1>2 DEF OrderType
  <2>3. d = [o EXCEPT !.refused = n]
    BY <2>2
  <2> HIDE DEF d
  <2>4. d.status = o.status /\ d.req = o.req
    BY <1>2, <2>3 DEF OrderType
  <2> QED
    BY <1>1, <1>2, <2>1, <2>4, ReplaceKeeps
<1>7. CASE ExecuteSlice(id)
  <2>1. IF s.status = "FILLED"
        THEN ResolveOco(os, Count(counters, "FILLED", 1), id)
        ELSE orders' = os /\ winner' = winner
    BY <1>7 DEF ExecuteSlice
  <2> HIDE DEF s
  <2>2. /\ os \in Seq(OrderType) /\ DOMAIN os = Ids \cup {id} /\ os[id] = s
        /\ \A i \in Ids \ {id} : os[i] = orders[i]
    BY <1>2, <1>4, UpdateKeeps DEF Ids
  <2>3. o.req.expire \notin 0..now
    <3>1. o.req.expire = None
      BY <1>1, <1>2 DEF GroupInv, Timed
    <3> QED
      BY <3>1 DEF None
  <2>4. CASE s.status = "FILLED"
    <3> HIDE DEF os
    <3>1. Filling(id)
      BY <1>1, <1>2, <1>4, <2>1, <2>2, <2>3, <2>4, ResolveFills
    <3> QED
      BY <3>1
  <2>5. CASE s.status # "FILLED"
    BY <1>1, <1>2, <1>4, <2>1, <2>5, ReplaceKeeps
  <2> QED
    BY <2>4, <2>5
<1> QED
  BY <1>3, <1>5, <1>6, <1>7

\* Every step either fills one order and resolves its group, or fills none.
LEMMA OrderSteps ==
    ASSUME ExchangeInv, GroupInv, now \in Nat, [Next]_vars
    PROVE  NotFilling \/ \E id : Filling(id)
<1>1. CASE Submit
  BY <1>1, SubmitSteps
<1>2. CASE (\E id \in resting : CancelOrder(id)) \/ CancelAllOrders
  BY <1>2, CancelledSteps DEF CancelOrder, CancelAllOrders
<1>3. CASE HandleClosePosition
  <2>1. acct.pos.qty \in Nat
    BY AccountFields DEF ExchangeInv, Sound
  <2> QED
    BY <1>3, <2>1, ForceCloseKeeps DEF HandleClosePosition
<1>4. CASE StartSweep
  <2>1. StartSweep
    BY <1>4
  <2>2. CASE Trigger(acct, price) = "NONE"
    BY <2>1, <2>2 DEF StartSweep, NotFilling, Kept, Ids
  <2>3. CASE Trigger(acct, price) # "NONE"
    <3>1. acct.pos.qty \in Nat
      BY AccountFields DEF ExchangeInv, Sound
    <3>2. TriggeredQty(acct, price) \in Nat
      BY <3>1 DEF TriggeredQty
    <3> QED
      BY <2>1, <2>3, <3>2, ForceCloseKeeps DEF StartSweep
  <2> QED
    BY <2>2, <2>3
<1>5. CASE Examine
  <2>1. PICK id \in todo : \/ SkipDecided(id) \/ ExpireLimit(id) \/ CheckLimit(id)
                           \/ CheckStopLimit(id) \/ CheckTrailingStop(id) \/ CheckIceberg(id)
    BY <1>5 DEF Examine
  <2>2. orders \in Seq(OrderType) /\ id \in Ids
    BY DEF ExchangeInv, Books, Ids
  <2>3. CASE SkipDecided(id)
    <3>1. orders' = orders /\ winner' = winner
      BY <2>2, <2>3 DEF SkipDecided, Pass
    <3> QED
      BY <3>1 DEF NotFilling, Kept, Ids
  <2>4. CASE ExpireLimit(id)
    <3> DEFINE d == [orders[id] EXCEPT !.status = "CANCELLED"]
    <3>1. orders' = [orders EXCEPT ![id] = d] /\ winner' = winner /\ orders[id].status = "PENDING"
      BY <2>4 DEF ExpireLimit, Due
    <3>2. orders[id] \in OrderType
      BY <2>2 DEF Ids
    <3>3. d.status = "CANCELLED" /\ d.req = orders[id].req
      BY <3>2 DEF OrderType
    <3> HIDE DEF d
    <3> QED
      BY <2>2, <3>1, <3>3, ReplaceKeeps
  <2>5. CASE CheckLimit(id) \/ CheckStopLimit(id) \/ CheckTrailingStop(id)
    BY <2>5, LimitExamined, StopLimitExamined, TrailingStopExamined, ExaminedSteps
  <2>6. CASE CheckIceberg(id)
    BY <2>6, IcebergSteps
  <2> QED
    BY <2>1, <2>3, <2>4, <2>5, <2>6
<1>6. CASE \/ (\E rate \in FundingRates : EndTick(rate))
          \/ (\E terms \in Terms : UpdateConfig(terms))
          \/ (\E p \in Prices : MarketMoves(p))
          \/ UNCHANGED vars
  BY <1>6 DEF EndTick, UpdateConfig, MarketMoves, vars, NotFilling, Kept, Ids
<1> QED
  BY <1>1, <1>2, <1>3, <1>4, <1>5, <1>6 DEF Next

-----------------------------------------------------------------------------
(* The clock, the counters and the flag of the sweep                        *)

CounterType == [submitted: Nat, filled: Nat, rejected: Nat, cancelled: Nat]
BookkeepingOK ==
    counters \in CounterType /\ now \in Nat /\ due \in BOOLEAN /\ sweeping \in BOOLEAN

\* Counting keeps the counters natural numbers.
LEMMA CountType ==
    ASSUME NEW c \in CounterType, NEW st \in Statuses, NEW n \in Nat
    PROVE  Count(c, st, n) \in CounterType /\ AppendCount(c, st) \in CounterType
<1>1. \A d \in CounterType, m \in Nat : Count(d, st, m) \in CounterType
  <2> SUFFICES ASSUME NEW d \in CounterType, NEW m \in Nat PROVE Count(d, st, m) \in CounterType
    OBVIOUS
  <2>1. PICK x \in Nat, y \in Nat, z \in Nat :
          x = d.filled + m /\ y = d.rejected + m /\ z = d.cancelled + m
    BY DEF CounterType
  <2>2. /\ [d EXCEPT !.filled = x] \in CounterType
        /\ [d EXCEPT !.rejected = y] \in CounterType
        /\ [d EXCEPT !.cancelled = z] \in CounterType
    BY DEF CounterType
  <2> QED
    BY <2>1, <2>2 DEF Count, Statuses
<1>2. [c EXCEPT !.submitted = @ + 1] \in CounterType
  <2>1. PICK x \in Nat : x = c.submitted + 1
    BY DEF CounterType
  <2>2. [c EXCEPT !.submitted = x] \in CounterType
    BY DEF CounterType
  <2> QED
    BY <2>1, <2>2
<1> QED
  BY <1>1, <1>2 DEF AppendCount

\* The cancelled orders are finitely many.
LEMMA SomeIds ==
    ASSUME NEW os \in Seq(OrderType), NEW S \in SUBSET DOMAIN os
    PROVE  Cardinality(S) \in Nat
<1>1. Len(os) \in Nat /\ DOMAIN os = 1..Len(os)
  OBVIOUS
<1>2. IsFiniteSet(DOMAIN os)
  BY <1>1, FS_Interval
<1> QED
  BY <1>2, FS_Subset, FS_CardinalityType

\* _resolve_oco counts the siblings it cancels.
LEMMA ResolveCounts ==
    ASSUME NEW os \in Seq(OrderType), NEW c \in CounterType, NEW id, ResolveOco(os, c, id)
    PROVE  counters' \in CounterType
<1> DEFINE S == {i \in Siblings(os, id) : os[i].heard}
<1>1. S \in SUBSET DOMAIN os
  BY DEF Siblings
<1>2. counters' = Count(c, "CANCELLED", Cardinality(S))
  BY DEF ResolveOco
<1> HIDE DEF S
<1> QED
  BY <1>1, <1>2, SomeIds, CountType DEF Statuses

LEMMA SubmitBookkeeping ==
    ASSUME ExchangeInv, BookkeepingOK, Submit
    PROVE  BookkeepingOK'
<1>1. PICK r \in Requests : \/ SubmitRejected(r) \/ SubmitCancelled(r)
                            \/ SubmitRests(r) \/ SubmitRaises(r) \/ SubmitFills(r)
  BY DEF Submit
<1>2. now' = now /\ due' = due /\ sweeping' = sweeping
  BY <1>1 DEF SubmitRejected, SubmitCancelled, SubmitRests, SubmitDecided, SubmitRaises,
              SubmitFills
<1>3. \A st \in Statuses : AppendCount(counters, st) \in CounterType
  BY CountType DEF BookkeepingOK
<1>4. CASE SubmitFills(r)
  <2> DEFINE o == [NewOrder(r) EXCEPT !.status = "FILLED", !.heard = TRUE,
                                      !.filled = r.qty, !.done = r.qty]
  <2>1. ResolveOco(Append(orders, o), AppendCount(counters, "FILLED"), Len(orders) + 1)
    BY <1>4 DEF SubmitFills
  <2>2. o \in OrderType
    <3>1. r \in RequestType
      BY ExchangeAssumption
    <3>2. PICK x \in Int : x = r.qty
      BY <3>1 DEF RequestType
    <3>3. o = [NewOrder(r) EXCEPT !.status = "FILLED", !.heard = TRUE,
                                  !.filled = x, !.done = x]
      BY <3>2
    <3>4. NewOrder(r) \in OrderType
      BY <3>1, NewOrderType
    <3> HIDE DEF o
    <3> QED
      BY <3>3, <3>4 DEF OrderType, Statuses
  <2> HIDE DEF o
  <2>3. Append(orders, o) \in Seq(OrderType)
    BY <2>2 DEF ExchangeInv, Books
  <2> QED
    BY <1>2, <1>3, <2>1, <2>3, ResolveCounts DEF BookkeepingOK, Statuses
<1>5. CASE ~SubmitFills(r)
  <2>1. counters' = counters \/ \E st \in Statuses : counters' = AppendCount(counters, st)
    BY <1>1, <1>5 DEF SubmitRejected, SubmitCancelled, SubmitRests, SubmitDecided,
                      SubmitRaises, Statuses
  <2> QED
    BY <1>2, <1>3, <2>1 DEF BookkeepingOK
<1> QED
  BY <1>4, <1>5

LEMMA ExamineBookkeeping ==
    ASSUME ExchangeInv, BookkeepingOK, Examine
    PROVE  BookkeepingOK'
<1>1. PICK id \in todo : \/ SkipDecided(id) \/ ExpireLimit(id) \/ CheckLimit(id)
                         \/ CheckStopLimit(id) \/ CheckTrailingStop(id) \/ CheckIceberg(id)
  BY DEF Examine
<1>2. orders \in Seq(OrderType) /\ id \in DOMAIN orders
  BY DEF ExchangeInv, Books
<1>3. \A st \in Statuses : /\ Count(counters, st, 1) \in CounterType
                           /\ AppendCount(counters, st) \in CounterType
                           /\ AppendCount(Count(counters, st, 1), st) \in CounterType
  BY CountType DEF BookkeepingOK
<1>4. \A o : Pass(id, o) => BookkeepingOK'
  BY DEF Pass, BookkeepingOK
<1>5. CASE SkipDecided(id) \/ ExpireLimit(id)
  BY <1>3, <1>4, <1>5 DEF SkipDecided, ExpireLimit, BookkeepingOK, Statuses
<1>6. CASE CheckLimit(id) \/ CheckStopLimit(id) \/ CheckTrailingStop(id)
  <2>1. PICK o \in OrderType, at \in Int :
          o.req = orders[id].req /\ (Pass(id, o) \/ Execute(id, o, at))
    BY <1>6, LimitExamined, StopLimitExamined, TrailingStopExamined DEF Examined
  <2>2. CASE Execute(id, o, at) /\ ~MarginOk(acct, at, at, o.req.qty)
    BY <1>3, <2>2 DEF Execute, Refuse, BookkeepingOK, Statuses
  <2>3. CASE Execute(id, o, at) /\ MarginOk(acct, at, at, o.req.qty)
    <3> DEFINE d == [o EXCEPT !.status = "FILLED", !.filled = o.req.qty, !.done = o.req.qty]
    <3>1. /\ ResolveOco([orders EXCEPT ![id] = d], Count(counters, "FILLED", 1), id)
          /\ UNCHANGED <<now, due, sweeping>>
      BY <2>3 DEF Execute
    <3>2. d \in OrderType
      <4>1. o.req \in RequestType
        BY DEF OrderType
      <4>2. PICK x \in Int : x = o.req.qty
        BY <4>1 DEF RequestType
      <4>3. d = [o EXCEPT !.status = "FILLED", !.filled = x, !.done = x]
        BY <4>2
      <4> HIDE DEF d
      <4> QED
        BY <4>3 DEF OrderType, Statuses
    <3> HIDE DEF d
    <3>3. [orders EXCEPT ![id] = d] \in Seq(OrderType)
      BY <1>2, <3>2, UpdateKeeps
    <3> QED
      BY <1>3, <3>1, <3>3, ResolveCounts DEF BookkeepingOK, Statuses
  <2> QED
    BY <1>4, <2>1, <2>2, <2>3
<1>7. CASE CheckIceberg(id)
  <2>1. /\ orders[id].status = "PENDING" /\ orders[id].req.type = "ICEBERG"
        /\ Pass(id, orders[id]) \/ ExecuteSlice(id) \/ RefuseSlice(id)
    BY <1>7 DEF CheckIceberg, Due
  <2>2. AfterSlice(orders[id]) \in OrderType
    BY <2>1, DueOrder, AfterSliceOrder
  <2>3. [orders EXCEPT ![id] = AfterSlice(orders[id])] \in Seq(OrderType)
    BY <1>2, <2>2, UpdateKeeps
  <2>4. CASE ExecuteSlice(id)
    <3>1. /\ UNCHANGED <<now, due, sweeping>>
          /\ \/ counters' = counters
             \/ ResolveOco([orders EXCEPT ![id] = AfterSlice(orders[id])],
                           Count(counters, "FILLED", 1), id)
      BY <2>4 DEF ExecuteSlice
    <3> QED
      BY <1>3, <2>3, <3>1, ResolveCounts DEF BookkeepingOK, Statuses
  <2>5. CASE RefuseSlice(id)
    BY <1>3, <2>5 DEF RefuseSlice, BookkeepingOK, Statuses
  <2> QED
    BY <1>4, <2>1, <2>4, <2>5
<1> QED
  BY <1>1, <1>5, <1>6, <1>7

\* Every step keeps the clock, the counters and the flag what they are.
LEMMA BookkeepingSteps ==
    ASSUME ExchangeInv, BookkeepingOK, [Next]_vars
    PROVE  BookkeepingOK'
<1>0. AppendCount(counters, "FILLED") \in CounterType
  BY CountType DEF BookkeepingOK, Statuses
<1>1. CASE Submit
  BY <1>1, SubmitBookkeeping
<1>2. CASE (\E id \in resting : CancelOrder(id)) \/ CancelAllOrders
  <2>1. PICK S \in SUBSET resting : Cancelled(S)
    BY <1>2 DEF CancelOrder, CancelAllOrders
  <2> DEFINE T == {i \in S : orders[i].heard /\ orders[i].status # "CANCELLED"}
  <2>2. T \in SUBSET DOMAIN orders /\ orders \in Seq(OrderType)
    BY DEF ExchangeInv, Books
  <2>3. counters' = Count(counters, "CANCELLED", Cardinality(T)) /\ UNCHANGED <<now, due, sweeping>>
    BY <2>1 DEF Cancelled
  <2> HIDE DEF T
  <2> QED
    BY <2>2, <2>3, SomeIds, CountType DEF BookkeepingOK, Statuses
<1>3. CASE HandleClosePosition
  BY <1>0, <1>3 DEF HandleClosePosition, ForceClose, BookkeepingOK
<1>4. CASE StartSweep
  BY <1>0, <1>4 DEF StartSweep, ForceClose, BookkeepingOK
<1>5. CASE Examine
  BY <1>5, ExamineBookkeeping
<1>6. CASE \/ (\E rate \in FundingRates : EndTick(rate))
          \/ (\E terms \in Terms : UpdateConfig(terms))
          \/ (\E p \in Prices : MarketMoves(p))
          \/ UNCHANGED vars
  <2>1. CASE \E rate \in FundingRates : EndTick(rate)
    BY <2>1 DEF EndTick, BookkeepingOK
  <2>2. CASE \E terms \in Terms : UpdateConfig(terms)
    BY <2>2 DEF UpdateConfig, BookkeepingOK
  <2>3. CASE \E p \in Prices : MarketMoves(p)
    BY <2>3 DEF MarketMoves, BookkeepingOK
  <2>4. CASE UNCHANGED vars
    BY <2>4 DEF vars, BookkeepingOK
  <2> QED
    BY <1>6, <2>1, <2>2, <2>3, <2>4
<1> QED
  BY <1>1, <1>2, <1>3, <1>4, <1>5, <1>6 DEF Next

\* The books, the groups and the bookkeeping, in every reachable state.
OrdersInv == ExchangeInv /\ GroupInv /\ BookkeepingOK

LEMMA OrdersInvariant == Spec => []OrdersInv
<1>1. Init => OrdersInv
  <2>1. Init => GroupInv
    BY DEF Init, GroupInv, Ids
  <2>2. Init => BookkeepingOK
    <3>1. [submitted |-> 0, filled |-> 0, rejected |-> 0, cancelled |-> 0] \in CounterType
      BY DEF CounterType
    <3>2. Init => counters \in CounterType
      BY <3>1, Zenon DEF Init
    <3>3. Init => now \in Nat
      BY DEF Init
    <3>4. Init => due \in BOOLEAN /\ sweeping \in BOOLEAN
      BY Zenon DEF Init
    <3> QED
      BY <3>2, <3>3, <3>4 DEF BookkeepingOK
  <2> QED
    BY <2>1, <2>2, InitInv DEF OrdersInv
<1>2. OrdersInv /\ [Next]_vars => OrdersInv'
  <2> SUFFICES ASSUME OrdersInv, [Next]_vars PROVE OrdersInv'
    OBVIOUS
  <2>1. ExchangeInv'
    BY NextInv DEF OrdersInv
  <2>2. GroupInv'
    BY <2>1, OrderSteps, GroupsKept DEF OrdersInv, BookkeepingOK
  <2>3. BookkeepingOK'
    BY BookkeepingSteps DEF OrdersInv
  <2> QED
    BY <2>1, <2>2, <2>3 DEF OrdersInv
<1> QED
  BY <1>1, <1>2, PTL DEF Spec

\* The shape of the account, the orders, the books, the groups and the counters.
THEOREM ExchangeTypes == Spec => []TypeOK
<1>1. OrdersInv => TypeOK
  <2> SUFFICES ASSUME OrdersInv PROVE TypeOK
    OBVIOUS
  <2>1. acct \in AccountType /\ orders \in Seq(OrderType) /\ resting \subseteq Ids
        /\ todo \subseteq Ids /\ price \in Prices
    BY DEF OrdersInv, ExchangeInv, Sound, Books, Ids
  <2> QED
    BY <2>1 DEF OrdersInv, GroupInv, BookkeepingOK, CounterType, TypeOK
<1> QED
  BY <1>1, OrdersInvariant, PTL

\* _resolve_oco and the check of submit_order keep every OCO group to one filled
\* order, over direct fills, swept fills, icebergs and orders that join later.
THEOREM OneFilledPerGroup == Spec => []OcoOneFilled
<1>1. OrdersInv => OcoOneFilled
  <2> SUFFICES ASSUME OrdersInv, NEW id \in Ids, orders[id].req.oco # NoGroup,
                      orders[id].status = "FILLED"
               PROVE  /\ winner[orders[id].req.oco] = id
                      /\ \A other \in Ids \ {id} :
                            orders[other].req.oco = orders[id].req.oco =>
                                orders[other].status \in {"CANCELLED", "REJECTED"}
    BY DEF OcoOneFilled
  <2>1. winner[orders[id].req.oco] = id
    BY DEF OrdersInv, GroupInv
  <2>2. id # 0 /\ \A i \in Ids : orders[i] \in OrderType
    BY DEF OrdersInv, ExchangeInv, Books, Ids
  <2>3. \A i \in Ids : orders[i].status \in Statuses
    BY <2>2 DEF OrderType
  <2> QED
    BY <2>1, <2>2, <2>3 DEF OrdersInv, GroupInv, Statuses
<1> QED
  BY <1>1, OrdersInvariant, PTL

\* No cancel, OCO resolution, expiry or sweep touches an order once it is
\* filled, rejected or cancelled.
THEOREM DecidedStays == Spec => DecidedIsFinal
<1>1. OrdersInv /\ [Next]_vars =>
        [\A id \in Ids : orders[id].status # "PENDING" => orders'[id] = orders[id]]_vars
  BY OrderSteps DEF OrdersInv, BookkeepingOK, NotFilling, Filling, Kept
<1> QED
  BY <1>1, OrdersInvariant, PTL DEF Spec, DecidedIsFinal

\* A resting order at or past its expiry is not filled, by whatever step.
THEOREM ExpiryBeatsFill == Spec => NoFillPastExpiry
<1>1. OrdersInv /\ [Next]_vars =>
        [\A id \in resting : orders[id].req.expire \in 0..now =>
                                orders'[id].status # "FILLED"]_vars
  <2> SUFFICES ASSUME OrdersInv, [Next]_vars, NEW id \in resting,
                      orders[id].req.expire \in 0..now
               PROVE  orders'[id].status # "FILLED"
    OBVIOUS
  <2>1. id \in Ids /\ orders[id].status = "PENDING"
    BY DEF OrdersInv, ExchangeInv, Books, Ids
  <2>2. NotFilling \/ \E i : Filling(i)
    BY OrderSteps DEF OrdersInv, BookkeepingOK
  <2>3. CASE NotFilling
    BY <2>1, <2>3 DEF NotFilling, Kept
  <2>4. ASSUME NEW i, Filling(i) PROVE orders'[id].status # "FILLED"
    BY <2>1, <2>4 DEF Filling, Kept
  <2> QED
    BY <2>2, <2>3, <2>4
<1> QED
  BY <1>1, OrdersInvariant, PTL DEF Spec, NoFillPastExpiry

-----------------------------------------------------------------------------
(* Trailing stops                                                           *)

\* Scaling by a natural number keeps the order.
LEMMA ScaleUp ==
    ASSUME NEW x \in Nat, NEW y \in Nat, NEW t \in Nat, x <= y
    PROVE  x * t <= y * t /\ x * t \in Nat /\ y * t \in Nat
BY Z3

\* Scaling by at most a hundred, and then dividing by it, adds at most the
\* difference.
LEMMA PercentBounds ==
    ASSUME NEW x \in Nat, NEW y \in Nat, NEW t \in Nat, x <= y
    PROVE  /\ (x * t) \div 100 \in Int /\ (y * t) \div 100 \in Int
           /\ (x * t) \div 100 <= (y * t) \div 100
           /\ t <= 100 => (y * t) \div 100 <= (x * t) \div 100 + (y - x)
<1>1. PICK d \in Nat : y = x + d
  BY Z3
<1>2. PICK a \in Nat, b \in Nat : a = x * t /\ b = y * t /\ a <= b
  BY ScaleUp
<1>3. a \div 100 \in Int /\ b \div 100 \in Int /\ a \div 100 <= b \div 100
  BY <1>2, Z3
<1>4. ASSUME t <= 100 PROVE b <= a + 100 * d
  <2>1. y * t = x * t + d * t
    BY <1>1, Z3
  <2>2. d * t <= d * 100
    BY <1>4, Z3
  <2> QED
    BY <1>2, <2>1, <2>2, Z3
<1>5. ASSUME b <= a + 100 * d PROVE b \div 100 <= a \div 100 + d
  BY <1>5, Z3
<1>6. t <= 100 => b \div 100 <= a \div 100 + (y - x)
  BY <1>1, <1>4, <1>5
<1> QED
  BY <1>2, <1>3, <1>6

\* The stop that the trail of request r sets from price p.
StopAt(r, p) ==
    LET trail == IF r.percent THEN (p * r.trail) \div 100 ELSE r.trail
    IN  IF r.side = "BUY" THEN p + trail ELSE p - trail

\* A better price sets a stop that is at least as good.
LEMMA StopFollows ==
    ASSUME NEW r \in RequestType, r.trail > 0, NEW p \in Nat, NEW q \in Nat,
           r.percent => r.trail <= 100
    PROVE  /\ r.side = "BUY" /\ q <= p => StopAt(r, q) <= StopAt(r, p)
           /\ r.side # "BUY" /\ q >= p => StopAt(r, q) >= StopAt(r, p)
<1>1. PICK t \in Nat : t = r.trail
  BY DEF RequestType
<1>2. CASE r.percent
  <2>1. t <= 100
    BY <1>1, <1>2
  <2>2. PICK a \in Int, b \in Int : a = (p * t) \div 100 /\ b = (q * t) \div 100
    BY PercentBounds
  <2>3. q <= p => b <= a
    BY <2>2, PercentBounds
  <2>4. q >= p => b <= a + (q - p)
    BY <2>1, <2>2, PercentBounds
  <2>5. StopAt(r, p) = (IF r.side = "BUY" THEN p + a ELSE p - a)
        /\ StopAt(r, q) = (IF r.side = "BUY" THEN q + b ELSE q - b)
    BY <1>1, <1>2, <2>2 DEF StopAt
  <2> QED
    BY <2>3, <2>4, <2>5
<1>3. CASE ~r.percent
  <2>1. StopAt(r, p) = (IF r.side = "BUY" THEN p + t ELSE p - t)
        /\ StopAt(r, q) = (IF r.side = "BUY" THEN q + t ELSE q - t)
    BY <1>1, <1>3 DEF StopAt
  <2> QED
    BY <2>1
<1> QED
  BY <1>2, <1>3

\* Orders that trail: they have a trail, and the stop of an active one is the
\* stop of the best price it has seen.
Trails(o) ==
    /\ o.req.type = "TRAILING_STOP" /\ o.status = "PENDING" => o.req.trail > 0
    /\ o.active => o.req.trail > 0 /\ o.stopPx = StopAt(o.req, o.best)

TrailInv == \A i \in Ids : Trails(orders[i])

\* The order n keeps the stop of the order o.
SameStop(o, n) ==
    /\ n.req = o.req
    /\ n.active = o.active /\ n.best = o.best /\ n.stopPx = o.stopPx

\* The order n is o, trailing, with its stop moved to the current price, the
\* first one it sees or a better one.
MovedStop(o, n) ==
    /\ n.req = o.req
    /\ o.req.type = "TRAILING_STOP" /\ o.status = "PENDING"
    /\ ~o.active \/ Improves(o)
    /\ n.active /\ n.best = price /\ n.stopPx = StopAt(o.req, price)

\* What a step that leaves the orders os does to stops.
StopStep(os) ==
    /\ Ids \subseteq DOMAIN os
    /\ \A i \in Ids : SameStop(orders[i], os[i]) \/ MovedStop(orders[i], os[i])
    /\ \A i \in DOMAIN os \ Ids :
          /\ ~os[i].active
          /\ os[i].req.type = "TRAILING_STOP" /\ os[i].status = "PENDING" =>
                os[i].req.trail > 0

\* Creating an order.
LEMMA StopAppend ==
    ASSUME ExchangeInv, NEW o \in OrderType, ~o.active,
           o.req.type = "TRAILING_STOP" /\ o.status = "PENDING" => o.req.trail > 0
    PROVE  StopStep(Append(orders, o)) /\ Append(orders, o) \in Seq(OrderType)
<1>1. orders \in Seq(OrderType)
  BY DEF ExchangeInv, Books
<1>2. /\ DOMAIN Append(orders, o) = Ids \cup {Len(orders) + 1}
      /\ Append(orders, o)[Len(orders) + 1] = o
      /\ \A i \in Ids : Append(orders, o)[i] = orders[i]
  BY <1>1, AppendKeeps DEF Ids
<1> QED
  BY <1>1, <1>2 DEF StopStep, SameStop

\* Replacing an order.
LEMMA StopReplace ==
    ASSUME ExchangeInv, NEW id \in Ids, NEW o \in OrderType,
           SameStop(orders[id], o) \/ MovedStop(orders[id], o)
    PROVE  /\ StopStep([orders EXCEPT ![id] = o])
           /\ [orders EXCEPT ![id] = o] \in Seq(OrderType)
<1>1. orders \in Seq(OrderType)
  BY DEF ExchangeInv, Books
<1>2. /\ [orders EXCEPT ![id] = o] \in Seq(OrderType)
      /\ DOMAIN [orders EXCEPT ![id] = o] = Ids
      /\ [orders EXCEPT ![id] = o][id] = o
      /\ \A i \in Ids \ {id} : [orders EXCEPT ![id] = o][i] = orders[i]
  BY <1>1, UpdateKeeps DEF Ids
<1> QED
  BY <1>2 DEF StopStep, SameStop

\* Cancelling orders, those of the same step included, moves no stop.
LEMMA StopCancel ==
    ASSUME NEW os \in Seq(OrderType), StopStep(os), NEW S
    PROVE  StopStep(CancelIn(os, S))
<1>1. \A i \in DOMAIN os : os[i] \in OrderType
  OBVIOUS
<1>2. \A o \in OrderType : LET c == [o EXCEPT !.status = "CANCELLED"]
                          IN  /\ c.req = o.req /\ c.active = o.active
                              /\ c.best = o.best /\ c.stopPx = o.stopPx
                              /\ c.status # "PENDING"
  BY DEF OrderType
<1>3. DOMAIN CancelIn(os, S) = DOMAIN os
  BY DEF CancelIn
<1>4. \A i \in DOMAIN os :
         LET c == CancelIn(os, S)[i]
         IN  /\ c.req = os[i].req /\ c.active = os[i].active
             /\ c.best = os[i].best /\ c.stopPx = os[i].stopPx
             /\ c.status = "PENDING" => os[i].status = "PENDING"
  BY <1>1, <1>2 DEF CancelIn
<1> QED
  BY <1>3, <1>4 DEF StopStep, SameStop, MovedStop

\* A new order has no stop yet.
LEMMA StopSubmit ==
    ASSUME ExchangeInv, Submit
    PROVE  StopStep(orders')
<1>1. PICK r \in Requests : \/ SubmitRejected(r) \/ SubmitCancelled(r)
                            \/ SubmitRests(r) \/ SubmitRaises(r) \/ SubmitFills(r)
  BY DEF Submit
<1>2. r \in RequestType
  BY ExchangeAssumption
<1>3. /\ NewOrder(r) \in OrderType /\ NewOrder(r).req = r /\ ~NewOrder(r).active
      /\ NewOrder(r).status = "PENDING"
  BY <1>2, NewOrderType DEF NewOrder
<1>4. Fate(r) \in {"PENDING", "RAISED"} => (r.type = "TRAILING_STOP" => r.trail > 0)
  <2>1. Fate(r) \in {"PENDING", "RAISED"} => ~Malformed(r)
    BY DEF Fate
  <2>2. r.trail \in Int
    BY <1>2 DEF RequestType
  <2> QED
    BY <2>1, <2>2 DEF Malformed
<1>5. CASE SubmitRejected(r) \/ SubmitCancelled(r) \/ SubmitRests(r)
  <2>1. PICK st \in {"REJECTED", "CANCELLED", "PENDING"} : SubmitDecided(r, st)
    BY <1>5 DEF SubmitRejected, SubmitCancelled, SubmitRests
  <2> DEFINE o == [NewOrder(r) EXCEPT !.status = st, !.heard = TRUE]
  <2>2. o \in OrderType /\ o.status = st /\ o.req = r /\ ~o.active
    BY <1>3, <2>1 DEF OrderType, Statuses
  <2>3. orders' = Append(orders, o) /\ Fate(r) = st
    BY <2>1 DEF SubmitDecided
  <2> HIDE DEF o
  <2> QED
    BY <1>4, <2>2, <2>3, StopAppend
<1>6. CASE SubmitRaises(r)
  <2>1. orders' = Append(orders, NewOrder(r)) /\ Fate(r) = "RAISED"
    BY <1>6 DEF SubmitRaises
  <2> QED
    BY <1>3, <1>4, <2>1, StopAppend
<1>7. CASE SubmitFills(r)
  <2> DEFINE o == [NewOrder(r) EXCEPT !.status = "FILLED", !.heard = TRUE,
                                      !.filled = r.qty, !.done = r.qty]
             os == Append(orders, o)
             S == Siblings(os, Len(orders) + 1)
  <2>1. o \in OrderType /\ o.status = "FILLED" /\ ~o.active
    <3>1. PICK x \in Int : x = r.qty
      BY <1>2 DEF RequestType
    <3>2. o = [NewOrder(r) EXCEPT !.status = "FILLED", !.heard = TRUE,
                                  !.filled = x, !.done = x]
      BY <3>1
    <3> HIDE DEF o
    <3> QED
      BY <1>3, <3>2 DEF OrderType, Statuses
  <2>2. orders' = CancelIn(os, S)
    BY <1>7 DEF SubmitFills, ResolveOco
  <2> HIDE DEF o, S
  <2>3. StopStep(os) /\ os \in Seq(OrderType)
    BY <2>1, StopAppend
  <2> HIDE DEF os
  <2> QED
    BY <2>2, <2>3, StopCancel
<1> QED
  BY <1>1, <1>5, <1>6, <1>7

\* Nor has the order of a forced close.
LEMMA StopForceClose ==
    ASSUME ExchangeInv, NEW qty \in Nat, ForceClose(qty)
    PROVE  StopStep(orders')
<1> DEFINE o == CloseOrder(Opposite(acct.pos.side), qty)
<1>1. o \in OrderType /\ o.status = "FILLED"
  BY CloseOrderType DEF Opposite, Sides
<1>2. ~o.active
  BY DEF CloseOrder, NewOrder
<1>3. orders' = Append(orders, o)
  BY DEF ForceClose
<1> HIDE DEF o
<1> QED
  BY <1>1, <1>2, <1>3, StopAppend

\* An order passed over, executed or refused keeps the stop it was examined with.
LEMMA StopExecute ==
    ASSUME ExchangeInv, NEW id \in Ids, NEW o \in OrderType, NEW at \in Int,
           Pass(id, o) \/ Execute(id, o, at),
           SameStop(orders[id], o) \/ MovedStop(orders[id], o)
    PROVE  StopStep(orders')
<1>1. ASSUME NEW n \in OrderType, SameStop(o, n)
      PROVE  SameStop(orders[id], n) \/ MovedStop(orders[id], n)
  BY <1>1 DEF SameStop, MovedStop
<1>2. CASE Pass(id, o)
  BY <1>2, StopReplace DEF Pass
<1>3. CASE Execute(id, o, at) /\ ~MarginOk(acct, at, at, o.req.qty)
  <2> DEFINE n == [o EXCEPT !.status = "REJECTED"]
  <2>1. orders' = [orders EXCEPT ![id] = n]
    BY <1>3 DEF Execute, Refuse
  <2>2. n \in OrderType /\ SameStop(o, n)
    BY DEF OrderType, Statuses, SameStop
  <2> HIDE DEF n
  <2> QED
    BY <1>1, <2>1, <2>2, StopReplace
<1>4. CASE Execute(id, o, at) /\ MarginOk(acct, at, at, o.req.qty)
  <2> DEFINE n == [o EXCEPT !.status = "FILLED", !.filled = o.req.qty, !.done = o.req.qty]
             os == [orders EXCEPT ![id] = n]
             S == Siblings(os, id)
  <2>1. orders' = CancelIn(os, S)
    BY <1>4 DEF Execute, ResolveOco
  <2>2. n \in OrderType /\ SameStop(o, n)
    <3>1. PICK x \in Int : x = o.req.qty
      BY DEF OrderType, RequestType
    <3>2. n = [o EXCEPT !.status = "FILLED", !.filled = x, !.done = x]
      BY <3>1
    <3> HIDE DEF n
    <3> QED
      BY <3>2 DEF OrderType, Statuses, SameStop
  <2> HIDE DEF n, S
  <2>3. StopStep(os) /\ os \in Seq(OrderType)
    BY <1>1, <2>2, StopReplace
  <2> HIDE DEF os
  <2> QED
    BY <2>1, <2>3, StopCancel
<1> QED
  BY <1>2, <1>3, <1>4

\* The sweep: only a trailing stop that is due moves its stop.
LEMMA StopExamine ==
    ASSUME ExchangeInv, Examine
    PROVE  StopStep(orders')
<1>1. PICK id \in todo : \/ SkipDecided(id) \/ ExpireLimit(id) \/ CheckLimit(id)
                         \/ CheckStopLimit(id) \/ CheckTrailingStop(id) \/ CheckIceberg(id)
  BY DEF Examine
<1> DEFINE o == orders[id]
<1>2. /\ orders \in Seq(OrderType) /\ id \in Ids /\ o \in OrderType
      /\ o.req \in RequestType /\ price \in Int /\ price \in Nat
  <2>1. orders \in Seq(OrderType) /\ id \in Ids /\ price \in Nat
    BY ExchangeAssumption DEF ExchangeInv, Books, Ids
  <2>2. o \in OrderType
    BY <2>1 DEF Ids
  <2> QED
    BY <2>1, <2>2 DEF OrderType
<1>3. CASE SkipDecided(id)
  BY <1>2, <1>3, StopReplace DEF SkipDecided, Pass, SameStop
<1>4. CASE ExpireLimit(id)
  <2> DEFINE n == [o EXCEPT !.status = "CANCELLED"]
  <2>1. orders' = [orders EXCEPT ![id] = n]
    BY <1>4 DEF ExpireLimit
  <2>2. n \in OrderType /\ SameStop(o, n)
    BY <1>2 DEF OrderType, Statuses, SameStop
  <2> HIDE DEF n
  <2> QED
    BY <1>2, <2>1, <2>2, StopReplace
<1>5. CASE CheckLimit(id)
  <2>1. o.req.px \in Int
    BY <1>2 DEF RequestType, None
  <2>2. Pass(id, o) \/ Execute(id, o, o.req.px)
    BY <1>5 DEF CheckLimit
  <2> QED
    BY <1>2, <2>1, <2>2, StopExecute DEF SameStop
<1>6. CASE CheckStopLimit(id)
  <2> DEFINE t == CheckTrigger(o)
             n == [o EXCEPT !.triggered = t]
  <2>1. t \in BOOLEAN
    BY <1>2 DEF CheckTrigger, OrderType
  <2>2. Pass(id, n) \/ Execute(id, n, n.req.px)
    BY <1>6 DEF CheckStopLimit
  <2> HIDE DEF t
  <2>3. n \in OrderType /\ SameStop(o, n)
    BY <1>2, <2>1 DEF OrderType, SameStop
  <2> HIDE DEF n
  <2>4. n.req.px \in Int
    BY <1>2, <2>3 DEF SameStop, RequestType, None
  <2> QED
    BY <1>2, <2>2, <2>3, <2>4, StopExecute
<1>7. CASE CheckTrailingStop(id)
  <2> DEFINE n == UpdateStopPrice(o)
             at == FillPrice(acct, price, n.req.side)
  <2>1. o.status = "PENDING" /\ o.req.type = "TRAILING_STOP"
    BY <1>7 DEF CheckTrailingStop, Due
  <2>2. PICK x \in Int : x = TrailFrom(o) /\ x = StopAt(o.req, price)
    <3>1. o.req.trail \in Int
      BY <1>2 DEF RequestType
    <3>2. PICK y \in Int : y = (price * o.req.trail) \div 100
      <4>1. price * o.req.trail \in Int
        BY <1>2, <3>1, Z3
      <4>2. (price * o.req.trail) \div 100 \in Int
        BY <4>1, Z3
      <4> QED
        BY <4>2
    <3> QED
      BY <1>2, <3>1, <3>2 DEF TrailFrom, Trail, StopAt
  <2>3. n = IF ~o.active \/ Improves(o)
            THEN [o EXCEPT !.active = TRUE, !.best = price, !.stopPx = x]
            ELSE o
    BY <2>2 DEF UpdateStopPrice
  <2>4. Pass(id, n) \/ Execute(id, n, at)
    BY <1>7 DEF CheckTrailingStop
  <2> HIDE DEF n
  <2>5. n \in OrderType /\ n.req = o.req
    BY <1>2, <2>3 DEF OrderType
  <2>6. SameStop(o, n) \/ MovedStop(o, n)
    BY <1>2, <2>1, <2>2, <2>3 DEF OrderType, SameStop, MovedStop
  <2>7. at \in Int
    <3>1. acct \in AccountType
      BY DEF ExchangeInv, Sound
    <3> QED
      BY <1>2, <3>1, AmountsInt
  <2> HIDE DEF at
  <2> QED
    BY <1>2, <2>4, <2>5, <2>6, <2>7, StopExecute
<1>8. CASE CheckIceberg(id)
  <2>1. o.status = "PENDING" /\ o.req.type = "ICEBERG"
    BY <1>8 DEF CheckIceberg, Due
  <2>2. o.heard /\ Tradable(o)
    BY <2>1, DueOrder
  <2>3. Pass(id, o) \/ ExecuteSlice(id) \/ RefuseSlice(id)
    BY <1>8 DEF CheckIceberg
  <2>4. CASE Pass(id, o)
    BY <1>2, <2>4, StopReplace DEF Pass, SameStop
  <2>5. CASE RefuseSlice(id)
    <3> DEFINE n == [o EXCEPT !.refused = @ + 1]
    <3>1. orders' = [orders EXCEPT ![id] = n]
      BY <2>5 DEF RefuseSlice
    <3>2. PICK k \in Nat : k = o.refused + 1
      <4>1. o.refused \in Nat
        BY <1>2 DEF OrderType
      <4> QED
        BY ONLY <4>1
    <3>3. n = [o EXCEPT !.refused = k]
      BY <3>2
    <3> HIDE DEF n
    <3>4. n \in OrderType /\ SameStop(o, n)
      BY <1>2, <3>3 DEF OrderType, SameStop
    <3> QED
      BY <1>2, <3>1, <3>4, StopReplace
  <2>6. CASE ExecuteSlice(id)
    <3> DEFINE n == AfterSlice(o)
               os == [orders EXCEPT ![id] = n]
               S == Siblings(os, id)
    <3>1. orders' = os \/ orders' = CancelIn(os, S)
      BY <2>6 DEF ExecuteSlice, ResolveOco
    <3>2. n \in OrderType
      BY <1>2, <2>1, <2>2, AfterSliceOrder
    <3>3. SameStop(o, n)
      BY <1>2 DEF AfterSlice, OrderType, SameStop
    <3> HIDE DEF n, S
    <3>4. StopStep(os) /\ os \in Seq(OrderType)
      BY <1>2, <3>2, <3>3, StopReplace
    <3> HIDE DEF os
    <3> QED
      BY <3>1, <3>4, StopCancel
  <2> QED
    BY <2>3, <2>4, <2>5, <2>6
<1> QED
  BY <1>1, <1>3, <1>4, <1>5, <1>6, <1>7, <1>8

\* Every step.
LEMMA StopSteps ==
    ASSUME ExchangeInv, [Next]_vars
    PROVE  StopStep(orders')
<1>1. CASE Submit
  BY <1>1, StopSubmit
<1>2. ASSUME orders' = orders PROVE StopStep(orders')
  BY <1>2 DEF StopStep, SameStop, Ids
<1>3. CASE (\E id \in resting : CancelOrder(id)) \/ CancelAllOrders
  <2>1. PICK S : orders' = CancelIn(orders, S)
    BY <1>3 DEF CancelOrder, CancelAllOrders, Cancelled
  <2>2. orders \in Seq(OrderType) /\ StopStep(orders)
    BY DEF ExchangeInv, Books, StopStep, SameStop, Ids
  <2> QED
    BY <2>1, <2>2, StopCancel
<1>4. acct.pos.qty \in Nat
  BY AccountFields DEF ExchangeInv, Sound
<1>5. CASE HandleClosePosition
  BY <1>4, <1>5, StopForceClose DEF HandleClosePosition
<1>6. CASE StartSweep
  <2>1. StartSweep
    BY <1>6
  <2>2. TriggeredQty(acct, price) \in Nat
    BY <1>4 DEF TriggeredQty
  <2> QED
    BY <1>2, <2>1, <2>2, StopForceClose DEF StartSweep
<1>7. CASE Examine
  BY <1>7, StopExamine
<1>8. CASE \/ (\E rate \in FundingRates : EndTick(rate))
          \/ (\E terms \in Terms : UpdateConfig(terms))
          \/ (\E p \in Prices : MarketMoves(p))
          \/ UNCHANGED vars
  BY <1>2, <1>8 DEF EndTick, UpdateConfig, MarketMoves, vars
<1> QED
  BY <1>1, <1>3, <1>5, <1>6, <1>7, <1>8 DEF Next

\* The trails, in every reachable state.
LEMMA TrailInvariant == Spec => []TrailInv
<1>1. Init => TrailInv
  BY DEF Init, TrailInv, Ids
<1>2. OrdersInv /\ TrailInv /\ [Next]_vars => TrailInv'
  <2> SUFFICES ASSUME OrdersInv, TrailInv, [Next]_vars, NEW i \in Ids'
               PROVE  Trails(orders'[i])
    BY DEF TrailInv
  <2>1. StopStep(orders')
    BY StopSteps DEF OrdersInv
  <2>2. CASE i \notin Ids
    BY <2>1, <2>2 DEF StopStep, Trails, Ids
  <2>3. CASE i \in Ids
    <3>1. orders'[i].status = "PENDING" => orders[i].status = "PENDING"
      <4>1. NotFilling \/ \E id : Filling(id)
        BY OrderSteps DEF OrdersInv, BookkeepingOK
      <4> QED
        BY <2>3, <4>1 DEF NotFilling, Filling, Kept
    <3>2. Trails(orders[i])
      BY <2>3 DEF TrailInv
    <3>3. SameStop(orders[i], orders'[i]) \/ MovedStop(orders[i], orders'[i])
      BY <2>1, <2>3 DEF StopStep
    <3> QED
      BY <3>1, <3>2, <3>3 DEF Trails, SameStop, MovedStop
  <2> QED
    BY <2>2, <2>3
<1> QED
  BY <1>1, <1>2, OrdersInvariant, PTL DEF Spec

\* The stop of an active trailing order never gives way, over any path of prices
\* and whatever the clients do between the ticks.
THEOREM StopsRatchet == Spec => TrailingRatchets
<1> DEFINE Ratchet(o, n) ==
             IF o.req.side = "BUY" THEN n.stopPx <= o.stopPx ELSE n.stopPx >= o.stopPx
<1>1. OrdersInv /\ TrailInv /\ [Next]_vars =>
        [\A id \in Ids :
            /\ orders[id].active
            /\ orders[id].req.percent => orders[id].req.trail <= 100
            => Ratchet(orders[id], orders'[id])]_vars
  <2> SUFFICES ASSUME OrdersInv, TrailInv, [Next]_vars, NEW id \in Ids, orders[id].active,
                      orders[id].req.percent => orders[id].req.trail <= 100
               PROVE  Ratchet(orders[id], orders'[id])
    OBVIOUS
  <2> DEFINE o == orders[id]
             n == orders'[id]
  <2>1. /\ o \in OrderType /\ o.req \in RequestType /\ o.best \in Nat /\ o.stopPx \in Int
        /\ price \in Nat
    <3>1. orders \in Seq(OrderType) /\ price \in Nat
      BY ExchangeAssumption DEF OrdersInv, ExchangeInv, Books
    <3>2. o \in OrderType
      BY <3>1 DEF Ids
    <3> QED
      BY <3>1, <3>2 DEF OrderType
  <2>2. SameStop(o, n) \/ MovedStop(o, n)
    BY StopSteps DEF OrdersInv, StopStep
  <2>3. CASE SameStop(o, n)
    BY <2>1, <2>3 DEF SameStop
  <2>4. CASE MovedStop(o, n)
    <3>1. o.req.trail > 0 /\ o.stopPx = StopAt(o.req, o.best)
      BY DEF TrailInv, Trails
    <3>2. n.stopPx = StopAt(o.req, price)
          /\ IF o.req.side = "BUY" THEN price <= o.best ELSE price >= o.best
      BY <2>1, <2>4 DEF MovedStop, Improves
    <3> QED
      BY <2>1, <3>1, <3>2, StopFollows
  <2> QED
    BY <2>2, <2>3, <2>4
<1> QED
  BY <1>1, OrdersInvariant, TrailInvariant, PTL DEF Spec, TrailingRatchets

-----------------------------------------------------------------------------
(* The margin of the position                                               *)

\* A margin m is at least, and at most, a cost c at leverage l, to one tick of
\* margin for each of n fills.
AtLeast(m, c, n, l) == -(l * n) <= m * l - c
AtMost(m, c, n, l) == m * l - c <= l * n
Backs(m, c, n, l) == AtLeast(m, c, n, l) /\ AtMost(m, c, n, l)

\* A quotient and its remainder.
LEMMA DivBounds ==
    ASSUME NEW x \in Int, NEW d \in Nat \ {0}
    PROVE  \E r \in Nat : r < d /\ x = (x \div d) * d + r
<1>1. PICK y \in Int : y = x \div d
  BY Z3
<1>2. y * d <= x /\ x < y * d + d /\ y * d \in Int
  BY <1>1, Z3
<1>3. x - y * d \in Nat /\ x - y * d < d /\ x = y * d + (x - y * d)
  BY <1>2
<1> QED
  BY <1>1, <1>3

\* Giving back k parts of q of the margin and of the cost, both rounded down,
\* adds at most one tick to the error, in either direction.
LEMMA PartBacks ==
    ASSUME NEW l \in Nat \ {0}, NEW m \in Int, NEW c \in Int, NEW n \in Nat,
           NEW q \in Nat \ {0}, NEW k \in Nat, k < q,
           NEW u \in Int, NEW v \in Int, NEW r \in Nat, NEW s \in Nat, r < q, s < q,
           m * k = u * q + r, c * k = v * q + s
    PROVE  /\ AtLeast(m, c, n, l) => AtLeast(m - u, c - v, n + 1, l)
           /\ AtMost(m, c, n, l) => AtMost(m - u, c - v, n + 1, l)
<1> DEFINE e == m * l - c
           f == (m - u) * l - (c - v)
           j == q - k
<1>1. e \in Int /\ f \in Int /\ j \in Nat /\ j <= q /\ l * n \in Nat /\ l * (n + 1) = l * n + l
  BY Z3
<1>2. f * q = e * j + (l * r - s)
  <2>1. f * q = (m * q - u * q) * l - (c * q - v * q)
    BY Z3
  <2>2. m * q - u * q = m * j + r /\ c * q - v * q = c * j + s
    BY Z3
  <2>3. (m * j + r) * l - (c * j + s) = e * j + (l * r - s)
    BY Z3
  <2> QED
    BY <2>1, <2>2, <2>3
<1>3. l * r <= l * q /\ l * r >= 0 /\ q <= l * q /\ l * r \in Int /\ l * q \in Int
  BY Z3
<1>4. PICK b \in Nat : b = l * n
  BY <1>1
<1>5. b * j <= b * q /\ b * j \in Int /\ b * q \in Int /\ (-b) * j = -(b * j)
      /\ e * j \in Int /\ f * q \in Int
  BY <1>1, Z3
<1>6. PICK d \in Nat : d = l * (n + 1)
  BY <1>1
<1>7. b * q + l * q = d * q /\ d * q \in Int
  <2>1. d = b + l
    BY <1>1, <1>4, <1>6
  <2> QED
    BY <2>1, Z3
<1>8. ASSUME AtLeast(m, c, n, l) PROVE AtLeast(m - u, c - v, n + 1, l)
  <2>1. -b <= e
    BY <1>4, <1>8 DEF AtLeast
  <2> HIDE DEF e, f, j
  <2>2. (-b) * j <= e * j
    BY <1>1, <2>1, Z3
  <2>3. -(d * q) <= f * q
    BY <1>2, <1>3, <1>5, <1>7, <2>2
  <2>4. -d <= f
    BY <1>1, <2>3, Z3
  <2> QED
    BY <1>6, <2>4 DEF AtLeast, f
<1>9. ASSUME AtMost(m, c, n, l) PROVE AtMost(m - u, c - v, n + 1, l)
  <2>1. e <= b
    BY <1>4, <1>9 DEF AtMost
  <2> HIDE DEF e, f, j
  <2>2. e * j <= b * j
    BY <1>1, <2>1, Z3
  <2>3. f * q <= d * q
    BY <1>2, <1>3, <1>5, <1>7, <2>2
  <2>4. f <= d
    BY <1>1, <2>3, Z3
  <2> QED
    BY <1>6, <2>4 DEF AtMost, f
<1> QED
  BY <1>8, <1>9

\* What a part of a cost takes away is not more than the cost.
LEMMA PartCost ==
    ASSUME NEW c \in Nat, NEW q \in Nat \ {0}, NEW k \in Nat, k < q,
           NEW v \in Int, NEW s \in Nat, c * k = v * q + s
    PROVE  c - v \in Nat
<1>1. v * q <= c * q
  <2>1. c * k <= c * q /\ c * k \in Int /\ c * q \in Int /\ v * q \in Int
    BY Z3
  <2> QED
    BY <2>1
<1>2. v <= c
  BY <1>1, Z3
<1> QED
  BY <1>2

\* A margin that is at least a cost at one leverage is so at every higher one, and
\* one that is at most a cost is so at every lower one.
LEMMA WiderBacks ==
    ASSUME NEW l \in Nat \ {0}, NEW h \in Nat \ {0}, l <= h,
           NEW m \in Int, NEW c \in Nat, NEW n \in Nat
    PROVE  /\ AtLeast(m, c, n, l) => AtLeast(m, c, n, h)
           /\ AtMost(m, c, n, h) => AtMost(m, c, n, l)
<1>1. /\ m * l \in Int /\ m * h \in Int /\ l * n \in Int /\ h * n \in Int
      /\ (m + n) * l = m * l + l * n /\ (m + n) * h = m * h + h * n
      /\ (m - n) * l = m * l - l * n /\ (m - n) * h = m * h - h * n
  BY Z3
<1>2. ASSUME AtLeast(m, c, n, l) PROVE AtLeast(m, c, n, h)
  <2> PICK x \in Int : x = m + n
    OBVIOUS
  <2>1. c <= x * l /\ x * l \in Int /\ x * h \in Int
    BY <1>1, <1>2 DEF AtLeast
  <2>2. x >= 0
    BY <2>1, Z3
  <2>3. x * l <= x * h
    BY <2>2, Z3
  <2> QED
    BY <1>1, <2>1, <2>3 DEF AtLeast
<1>3. ASSUME AtMost(m, c, n, h) PROVE AtMost(m, c, n, l)
  <2> PICK x \in Int : x = m - n
    OBVIOUS
  <2>1. x * h <= c /\ x * l \in Int /\ x * h \in Int
    BY <1>1, <1>3 DEF AtMost
  <2>2. x * l <= c
    <3>1. CASE x >= 0
      <4>1. x * l <= x * h
        BY <3>1, Z3
      <4> QED
        BY <2>1, <4>1
    <3>2. CASE x < 0
      <4>1. x * l <= 0
        BY <3>2, Z3
      <4> QED
        BY <2>1, <4>1
    <3> QED
      BY <3>1, <3>2
  <2> QED
    BY <1>1, <2>2 DEF AtMost
<1> QED
  BY <1>2, <1>3

\* A margin rounded down is within one tick.
LEMMA OpenBacks ==
    ASSUME NEW l \in Nat \ {0}, NEW x \in Int, NEW m \in Int, NEW r \in Nat, r < l,
           x = m * l + r
    PROVE  Backs(m, x, 1, l)
<1>1. m * l \in Int
  BY Z3
<1> QED
  BY <1>1 DEF Backs, AtLeast, AtMost

\* Adding up margins adds up the errors.
LEMMA ExtendBacks ==
    ASSUME NEW l \in Nat \ {0}, NEW x \in Int, NEW m \in Int, NEW n \in Nat,
           NEW y \in Int, NEW k \in Int
    PROVE  /\ AtLeast(m, x, n, l) /\ AtLeast(k, y, 1, l) => AtLeast(m + k, x + y, n + 1, l)
           /\ AtMost(m, x, n, l) /\ AtMost(k, y, 1, l) => AtMost(m + k, x + y, n + 1, l)
<1>1. m * l \in Int /\ k * l \in Int /\ l * n \in Int /\ (m + k) * l = m * l + k * l
      /\ l * (n + 1) = l * n + l
  BY Z3
<1> QED
  BY <1>1 DEF AtLeast, AtMost

\* The margin of an order of quantity q, less its share for the part k that closed
\* a position, is within one tick of what the rest costs: the two roundings go
\* opposite ways.
LEMMA ResidualBacks ==
    ASSUME NEW l \in Nat \ {0}, NEW at \in Int, NEW q \in Nat \ {0}, NEW k \in Nat, k < q,
           NEW m \in Int, NEW r \in Nat, r < l, at * q = m * l + r,
           NEW u \in Int, NEW s \in Nat, s < q, m * k = u * q + s
    PROVE  Backs(m - u, at * (q - k), 1, l)
<1> DEFINE f == (m - u) * l - at * (q - k)
           j == q - k
<1>1. f \in Int /\ j \in Nat /\ j <= q /\ l * s \in Int /\ r * j \in Int /\ l * q \in Int
  BY Z3
<1>2. f * q = l * s - r * j
  <2>1. f * q = (m * q - u * q) * l - (at * q) * j
    BY Z3
  <2>2. m * q - u * q = m * j + s
    BY Z3
  <2>3. (m * j + s) * l - (m * l + r) * j = l * s - r * j
    BY Z3
  <2> QED
    BY <2>1, <2>2, <2>3
<1>3. 0 <= l * s /\ l * s <= l * q
  BY Z3
<1>4. 0 <= r * j /\ r * j <= l * q
  <2>1. r * j <= l * j
    BY <1>1, Z3
  <2>2. l * j <= l * q /\ l * j \in Int
    BY <1>1, Z3
  <2>3. 0 <= r * j
    BY <1>1, Z3
  <2> QED
    BY <1>1, <2>1, <2>2, <2>3
<1>5. f * q <= l * q /\ -(l * q) <= f * q
  <2> HIDE DEF f, j
  <2> QED
    BY <1>1, <1>2, <1>3, <1>4
<1>6. f <= l /\ -l <= f
  <2> HIDE DEF f
  <2>1. f <= l
    BY <1>1, <1>5, Z3
  <2>2. -l <= f
    BY <1>1, <1>5, Z3
  <2> QED
    BY <2>1, <2>2
<1> QED
  BY <1>6 DEF Backs, AtLeast, AtMost

\* The margin of a position is between its cost at the highest and at the lowest
\* leverage that its executions locked margin at.
Backed(p) ==
    /\ p.cost >= 0
    /\ p.qty # 0 => p.lo > 0 /\ p.hi > 0
    /\ AtLeast(p.margin, p.cost, p.fills, p.hi)
    /\ AtMost(p.margin, p.cost, p.fills, p.lo)

\* The margin of an order is its notional at the leverage, rounded down.
LEMMA MarginBacks ==
    ASSUME NEW a \in AccountType, NEW at \in Int, NEW qty \in Nat \ {0}
    PROVE  \E r \in Nat : r < Lev(a) /\ at * qty = Margin(a, at, qty) * Lev(a) + r
<1>1. at * qty \in Int /\ Lev(a) \in Nat \ {0}
  BY LevPositive, Z3
<1> QED
  BY <1>1, DivBounds DEF Margin, Notional

\* Opening or extending a position with an order's own margin.
LEMMA OpenedBacked ==
    ASSUME NEW a \in AccountType, NEW p \in PositionType, Backed(p), NEW side \in Sides,
           NEW qty \in Nat \ {0}, NEW at \in Nat, NEW sl, NEW tp
    PROVE  /\ Backed(Opened(Lev(a), side, qty, at, Margin(a, at, qty), sl, tp))
           /\ p.qty # 0 => Backed(Extended(p, Lev(a), qty, at, Margin(a, at, qty)))
<1>1. PICK m \in Int, x \in Nat, l \in Nat \ {0} :
        m = Margin(a, at, qty) /\ x = at * qty /\ l = Lev(a)
  <2>1. at * qty \in Nat
    BY Z3
  <2>2. Margin(a, at, qty) \in Int
    BY AmountsInt
  <2>3. Lev(a) \in Nat \ {0}
    BY LevPositive
  <2> QED
    BY <2>1, <2>2, <2>3, Zenon
<1>2. PICK r \in Nat : r < l /\ x = m * l + r
  BY <1>1, MarginBacks
<1>3. AtLeast(m, x, 1, l) /\ AtMost(m, x, 1, l)
  <2>1. x \in Int
    OBVIOUS
  <2>2. Backs(m, x, 1, l)
    BY <1>2, <2>1, OpenBacks, Zenon
  <2> QED
    BY <2>2 DEF Backs
<1>4. p.margin \in Int /\ p.cost \in Int /\ p.fills \in Nat /\ p.lo \in Nat /\ p.hi \in Nat
  BY DEF PositionType
<1>5. LET o == Opened(l, side, qty, at, m, sl, tp)
      IN  o.margin = m /\ o.cost = x /\ o.fills = 1 /\ o.lo = l /\ o.hi = l
  BY <1>1 DEF Opened
<1>6. Backed(Opened(l, side, qty, at, m, sl, tp))
  BY <1>3, <1>5 DEF Backed
<1>7. ASSUME p.qty # 0 PROVE Backed(Extended(p, l, qty, at, m))
  <2>1. p.lo \in Nat \ {0} /\ p.hi \in Nat \ {0} /\ p.cost \in Nat
    BY <1>4, <1>7 DEF Backed
  <2>2. PICK low \in Nat \ {0}, high \in Nat \ {0} :
          /\ low = Least(p.lo, l) /\ high = Greatest(p.hi, l)
          /\ low <= p.lo /\ low <= l /\ p.hi <= high /\ l <= high
    BY <2>1 DEF Least, Greatest
  <2>3. AtLeast(p.margin, p.cost, p.fills, high) /\ AtLeast(m, x, 1, high)
    BY <1>3, <1>4, <2>1, <2>2, WiderBacks DEF Backed
  <2>4. AtMost(p.margin, p.cost, p.fills, low) /\ AtMost(m, x, 1, low)
    BY <1>3, <1>4, <2>1, <2>2, WiderBacks DEF Backed
  <2>5. /\ AtLeast(p.margin + m, p.cost + x, p.fills + 1, high)
        /\ AtMost(p.margin + m, p.cost + x, p.fills + 1, low)
    <3>1. x \in Int
      OBVIOUS
    <3> QED
      BY <1>4, <2>3, <2>4, <3>1, ExtendBacks, Zenon
  <2>6. LET e == Extended(p, l, qty, at, m)
        IN  /\ e.margin = p.margin + m /\ e.cost = p.cost + x /\ e.fills = p.fills + 1
            /\ e.lo = low /\ e.hi = high
    BY <1>1, <2>2 DEF Extended, PositionType
  <2> QED
    BY <2>1, <2>5, <2>6 DEF Backed
<1> QED
  BY <1>1, <1>6, <1>7

LEMMA FlatBacked == Backed(NoPosition)
<1>1. 0 * 0 = 0
  BY Z3
<1> QED
  BY <1>1 DEF NoPosition, Backed, AtLeast, AtMost

\* What an opposite fill leaves of the position.
LEMMA AfterCloseBacked ==
    ASSUME NEW a \in AccountType, NEW p \in PositionType, Backed(p), p.qty # 0,
           NEW side \in Sides, NEW qty \in Nat \ {0}, NEW at \in Nat, NEW m \in Int,
           qty <= p.qty \/ m = Margin(a, at, qty)
    PROVE  Backed(AfterClose(p, Lev(a), side, qty, at, m))
<1>1. /\ p.qty \in Nat \ {0} /\ p.margin \in Int /\ p.cost \in Nat /\ p.fills \in Nat
      /\ p.lo \in Nat \ {0} /\ p.hi \in Nat \ {0}
  BY DEF PositionType, Backed
<1>0. PICK l \in Nat \ {0} : l = Lev(a)
  BY LevPositive
<1>2. CASE qty < p.qty
  <2>1. p.margin * qty \in Int /\ p.cost * qty \in Int
    BY <1>1, Z3
  <2>2. PICK u \in Int, v \in Int :
          u = (p.margin * qty) \div p.qty /\ v = (p.cost * qty) \div p.qty
    BY <1>1, <2>1, QuotientInt
  <2>3. PICK r \in Nat : r < p.qty /\ p.margin * qty = u * p.qty + r
    BY <1>1, <2>1, <2>2, DivBounds
  <2>4. PICK s \in Nat : s < p.qty /\ p.cost * qty = v * p.qty + s
    BY <1>1, <2>1, <2>2, DivBounds
  <2>5. /\ AtLeast(p.margin - u, p.cost - v, p.fills + 1, p.hi)
        /\ AtMost(p.margin - u, p.cost - v, p.fills + 1, p.lo)
    <3>1. AtLeast(p.margin, p.cost, p.fills, p.hi) /\ AtMost(p.margin, p.cost, p.fills, p.lo)
      BY <1>1 DEF Backed
    <3>2. p.cost \in Int /\ qty \in Nat
      BY <1>1
    <3> QED
      BY <1>1, <1>2, <2>3, <2>4, <3>1, <3>2, PartBacks, Zenon
  <2>9. p.cost - v \in Nat
    BY <1>1, <1>2, <2>4, PartCost
  <2>6. CloseQty(p, qty) = qty
    BY <1>1, <1>2 DEF CloseQty, Least
  <2>7. AfterClose(p, Lev(a), side, qty, at, m) =
           [p EXCEPT !.qty = @ - qty, !.cost = @ - v, !.margin = @ - u, !.fills = @ + 1]
    BY <1>2, <2>2, <2>6 DEF AfterClose, ClosedCost, ReleasedMargin
  <2>8. LET c == AfterClose(p, Lev(a), side, qty, at, m)
        IN  /\ c.margin = p.margin - u /\ c.cost = p.cost - v /\ c.fills = p.fills + 1
            /\ c.lo = p.lo /\ c.hi = p.hi
    BY <2>7 DEF PositionType
  <2> QED
    BY <1>1, <2>5, <2>8, <2>9 DEF Backed
<1>3. CASE qty = p.qty
  <2>1. AfterClose(p, Lev(a), side, qty, at, m) = NoPosition
    BY <1>1, <1>3 DEF AfterClose
  <2> QED
    BY <2>1, FlatBacked
<1>4. CASE qty > p.qty
  <2>1. m = Margin(a, at, qty) /\ CloseQty(p, qty) = p.qty
    BY <1>1, <1>4 DEF CloseQty, Least
  <2>2. m * p.qty \in Int
    BY <1>1, Z3
  <2>3. PICK u \in Int : u = (m * p.qty) \div qty
    BY <2>2, QuotientInt
  <2>4. PICK s \in Nat : s < qty /\ m * p.qty = u * qty + s
    BY <2>2, <2>3, DivBounds
  <2>5. PICK r \in Nat : r < l /\ at * qty = m * l + r
    BY <1>0, <2>1, MarginBacks
  <2>6. Backs(m - u, at * (qty - p.qty), 1, l)
    <3>1. p.qty \in Nat /\ p.qty < qty /\ at \in Int
      BY <1>1, <1>4
    <3> QED
      BY <2>4, <2>5, <3>1, ResidualBacks, Zenon
  <2>7. AfterClose(p, Lev(a), side, qty, at, m)
          = Opened(l, side, qty - p.qty, at, m - u, None, None)
    BY <1>0, <1>1, <1>4, <2>1, <2>3 DEF AfterClose, ResidualMargin, CloseMarginShare
  <2>8. LET c == AfterClose(p, Lev(a), side, qty, at, m)
        IN  /\ c.margin = m - u /\ c.cost = at * (qty - p.qty) /\ c.fills = 1
            /\ c.lo = l /\ c.hi = l
    BY <2>7 DEF Opened
  <2>9. at * (qty - p.qty) >= 0
    <3>1. qty - p.qty \in Nat
      BY <1>1, <1>4
    <3> QED
      BY <3>1, Z3
  <2> QED
    BY <2>6, <2>8, <2>9 DEF Backed, Backs
<1> QED
  BY <1>1, <1>2, <1>3, <1>4

\* Any update of the position by an order with its own margin, or by a forced
\* close, which has none and closes at most the position.
LEMMA UpdateBacked ==
    ASSUME NEW a, Sound(a), Backed(a.pos), NEW side \in Sides, NEW qty \in Nat \ {0},
           NEW at \in Nat, NEW m \in Int, NEW sl \in Int, NEW tp \in Int,
           m = Margin(a, at, qty) \/ (qty <= a.pos.qty /\ side # a.pos.side)
    PROVE  Backed(UpdatePosition(a, side, qty, at, m, sl, tp).pos)
<1> DEFINE b == UpdatePosition(a, side, qty, at, m, sl, tp)
<1>1. a \in AccountType /\ a.pos \in PositionType /\ a.pos.qty \in Nat
  BY AccountFields DEF Sound
<1>2. CASE a.pos.qty = 0
  <2> DEFINE q == Opened(Lev(a), side, qty, at, m, sl, tp)
  <2>1. b = [a EXCEPT !.pos = q] /\ m = Margin(a, at, qty)
    BY <1>1, <1>2 DEF UpdatePosition
  <2>2. Backed(q)
    BY <1>1, <1>2, <2>1, OpenedBacked
  <2> HIDE DEF q
  <2> QED
    BY <1>1, <2>1, <2>2 DEF AccountType
<1>3. CASE a.pos.qty # 0 /\ a.pos.side = side
  <2> DEFINE q == Extended(a.pos, Lev(a), qty, at, m)
  <2>1. b = [a EXCEPT !.pos = q] /\ m = Margin(a, at, qty)
    BY <1>1, <1>3 DEF UpdatePosition
  <2>2. Backed(q)
    BY <1>1, <1>3, <2>1, OpenedBacked
  <2> HIDE DEF q
  <2> QED
    BY <1>1, <2>1, <2>2 DEF AccountType
<1>4. CASE a.pos.qty # 0 /\ a.pos.side # side
  <2> DEFINE q == AfterClose(a.pos, Lev(a), side, qty, at, m)
  <2>1. b = ClosePosition(a, side, qty, at, m)
    BY <1>4 DEF UpdatePosition
  <2>2. Backed(q)
    BY <1>1, <1>4, AfterCloseBacked
  <2>3. b.pos = q
    BY <1>1, <2>1 DEF ClosePosition, AccountType
  <2> QED
    BY <2>2, <2>3
<1> QED
  BY <1>2, <1>3, <1>4

\* A fill.
LEMMA FilledBacked ==
    ASSUME NEW a, Sound(a), Backed(a.pos), NEW side \in Sides, NEW qty \in Nat \ {0},
           NEW at \in Nat, NEW sl \in Int, NEW tp \in Int
    PROVE  Backed(Filled(a, side, qty, at, sl, tp).pos)
<1> DEFINE fee == Fee(a, at, qty)
           m == Margin(a, at, qty)
           a1 == ChargeFee(a, fee)
           a2 == LockMargin(a1, m)
<1>1. fee \in Int /\ m \in Int
  BY AmountsInt DEF Sound
<1>2. Sound(a1) /\ a1.pos = a.pos /\ a1.terms = a.terms
  BY <1>1, ChargeFeeSound
<1> HIDE DEF a1
<1>3. Sound(a2) /\ a2.pos = a.pos /\ a2.terms = a.terms
  BY <1>1, <1>2, LockMarginSound
<1> HIDE DEF a2
<1>4. Filled(a, side, qty, at, sl, tp) = UpdatePosition(a2, side, qty, at, m, sl, tp)
  BY DEF Filled, a1, a2
<1>5. m = Margin(a2, at, qty)
  BY <1>3 DEF Margin, Lev
<1> QED
  BY <1>1, <1>3, <1>4, <1>5, UpdateBacked

\* A forced close of at most the position.
LEMMA ForceClosedBacked ==
    ASSUME NEW a, Sound(a), Backed(a.pos), NEW p \in Nat, NEW qty \in Nat \ {0},
           qty <= a.pos.qty
    PROVE  Backed(ForceClosed(a, p, qty).pos)
<1> DEFINE side == Opposite(a.pos.side)
           at == FillPrice(a, p, side)
           fee == Fee(a, at, qty)
           a1 == ChargeFee(a, fee)
<1>1. side \in Sides /\ side # a.pos.side /\ None \in Int
  BY DEF Opposite, Sides, None
<1>2. at \in Nat
  BY AmountsInt DEF Sound
<1>3. fee \in Int
  BY <1>2, AmountsInt DEF Sound
<1>4. Sound(a1) /\ a1.pos = a.pos
  BY <1>3, ChargeFeeSound
<1> HIDE DEF a1, at
<1>5. ForceClosed(a, p, qty) = UpdatePosition(a1, side, qty, at, 0, None, None)
  BY DEF ForceClosed, a1, at
<1> HIDE DEF side, fee
<1>6. Backed(a1.pos) /\ qty <= a1.pos.qty /\ side # a1.pos.side
  BY <1>1, <1>4
<1>7. Backed(UpdatePosition(a1, side, qty, at, 0, None, None).pos)
  BY ONLY <1>1, <1>2, <1>4, <1>6, UpdateBacked, qty \in Nat \ {0}, 0 \in Int
<1> QED
  BY ONLY <1>5, <1>7

\* The account of a step: as it was, after a fill, after a forced close with or
\* without the insurance fund, or after a payment that leaves the position.
AccountStep ==
    \/ acct'.pos = acct.pos
    \/ \E side \in Sides, qty \in Nat \ {0}, at \in Nat, sl \in Int, tp \in Int :
          acct' = Filled(acct, side, qty, at, sl, tp)
    \/ \E p \in Nat, qty \in Nat \ {0} :
          /\ qty <= acct.pos.qty
          /\ acct'.pos = ForceClosed(acct, p, qty).pos

LEMMA BackedStep ==
    ASSUME ExchangeInv, Backed(acct.pos), AccountStep
    PROVE  Backed(acct'.pos)
BY FilledBacked, ForceClosedBacked DEF ExchangeInv, AccountStep

\* Every step is one of these.
LEMMA AccountSteps ==
    ASSUME ExchangeInv, [Next]_vars
    PROVE  AccountStep
<1>1. None \in Int /\ price \in Nat
  BY ExchangeAssumption DEF None, ExchangeInv
<1>2. CASE Submit
  <2>1. PICK r \in Requests : acct' = acct \/ SubmitFills(r)
    BY <1>2 DEF Submit, SubmitRejected, SubmitCancelled, SubmitRests, SubmitDecided,
                SubmitRaises
  <2>2. CASE SubmitFills(r)
    <3>1. /\ r.side \in Sides /\ r.qty \in Int /\ r.px \in Nat \cup {None}
          /\ r.sl \in Int /\ r.tp \in Int /\ r \in RequestType
      BY ExchangeAssumption DEF RequestType, None
    <3>2. r.qty \in Nat \ {0}
      BY <2>2, <3>1, FateWellFormed, WellFormed DEF SubmitFills
    <3>3. SubmitPrice(r) \in Nat
      BY <1>1, <3>1, AmountsInt DEF SubmitPrice, PricedLimit, ExchangeInv, Sound
    <3>4. acct' = Filled(acct, r.side, r.qty, SubmitPrice(r), r.sl, r.tp)
      BY <2>2 DEF SubmitFills
    <3> QED
      BY <3>1, <3>2, <3>3, <3>4 DEF AccountStep
  <2> QED
    BY <2>1, <2>2 DEF AccountStep
<1>3. CASE (\E id \in resting : CancelOrder(id)) \/ CancelAllOrders
  BY <1>3 DEF CancelOrder, CancelAllOrders, Cancelled, AccountStep
<1>4. acct.pos.qty \in Nat
  BY AccountFields DEF ExchangeInv, Sound
<1>5. CASE HandleClosePosition
  <2>1. acct' = ForceClosed(acct, price, acct.pos.qty) /\ acct.pos.qty > 0
    BY <1>5 DEF HandleClosePosition
  <2> QED
    BY <1>1, <1>4, <2>1 DEF AccountStep
<1>6. CASE StartSweep
  <2>1. StartSweep
    BY <1>6
  <2>2. CASE Trigger(acct, price) = "NONE"
    BY <2>1, <2>2 DEF StartSweep, AccountStep
  <2>3. CASE Trigger(acct, price) # "NONE"
    <3> DEFINE q == TriggeredQty(acct, price)
               b == ForceClosed(acct, price, q)
    <3>1. acct' = Swept(acct, price) /\ price \in Nat /\ acct.pos.qty # 0
      BY <2>1, <2>3, ExchangeAssumption DEF StartSweep, Trigger, ExchangeInv
    <3>2. q \in Nat \ {0} /\ q <= acct.pos.qty
      BY <1>4, <3>1 DEF TriggeredQty
    <3>3. Sound(b)
      BY <3>1, <3>2, ForceClosedSound DEF ExchangeInv
    <3>4. acct' = b \/ acct' = CoverDeficit(b)
      BY <3>1 DEF Swept
    <3> HIDE DEF b
    <3>5. acct'.pos = b.pos
      BY <3>3, <3>4 DEF CoverDeficit, Sound, AccountType
    <3> QED
      BY <3>1, <3>2, <3>5 DEF AccountStep, b
  <2> QED
    BY <2>2, <2>3
<1>7. CASE Examine
  <2>1. PICK id \in todo : \/ SkipDecided(id) \/ ExpireLimit(id) \/ CheckLimit(id)
                           \/ CheckStopLimit(id) \/ CheckTrailingStop(id) \/ CheckIceberg(id)
    BY <1>7 DEF Examine
  <2>2. CASE SkipDecided(id) \/ ExpireLimit(id)
    BY <2>2 DEF SkipDecided, Pass, ExpireLimit, AccountStep
  <2>3. CASE CheckLimit(id) \/ CheckStopLimit(id) \/ CheckTrailingStop(id)
    <3>1. Examined(id)
      BY <2>3, LimitExamined, StopLimitExamined, TrailingStopExamined
    <3>2. PICK o \in OrderType, at \in Nat :
             /\ o.req = orders[id].req /\ o.status = "PENDING" /\ Tradable(o)
             /\ Pass(id, o) \/ Execute(id, o, at)
      BY <3>1 DEF Examined
    <3>3. acct' = acct \/ acct' = Filled(acct, o.req.side, o.req.qty, at, None, None)
      BY <3>2 DEF Pass, Execute, Refuse
    <3>4. o.req.side \in Sides /\ o.req.qty \in Nat \ {0}
      <4>1. o.req \in RequestType /\ o.req.qty > 0
        BY <3>2 DEF OrderType, Tradable
      <4> QED
        BY <4>1 DEF RequestType
    <3> QED
      BY <1>1, <3>3, <3>4 DEF AccountStep
  <2>4. CASE CheckIceberg(id)
    <3> DEFINE o == orders[id]
    <3>1. o.status = "PENDING" /\ o.req.type = "ICEBERG"
      BY <2>4 DEF CheckIceberg, Due
    <3>2. o \in OrderType /\ o.heard /\ Tradable(o) /\ o.req \in RequestType
          /\ o.req.px \in Nat \cup {None}
      BY <3>1, DueOrder DEF RequestType
    <3>3. SliceQty(o) \in Nat \ {0}
      BY <3>1, <3>2, AfterSliceOrder
    <3>4. o.req.side \in Sides /\ SlicePrice(o) \in Nat
      BY <1>1, <3>2 DEF RequestType, SlicePrice
    <3>5. acct' = acct \/ acct' = Filled(acct, o.req.side, SliceQty(o), SlicePrice(o), None, None)
      BY <2>4 DEF CheckIceberg, Pass, ExecuteSlice, RefuseSlice
    <3> QED
      BY <1>1, <3>3, <3>4, <3>5 DEF AccountStep
  <2> QED
    BY <2>1, <2>2, <2>3, <2>4
<1>8. CASE \E rate \in FundingRates : EndTick(rate)
  <2>1. PICK rate \in FundingRates : acct' = Funded(acct, price, rate)
    BY <1>8 DEF EndTick
  <2>2. acct'.pos = acct.pos
    BY <2>1 DEF Funded, ExchangeInv, Sound, AccountType
  <2> QED
    BY <2>2 DEF AccountStep
<1>9. CASE UNCHANGED vars \/ \E p \in Prices : MarketMoves(p)
  BY <1>9 DEF vars, MarketMoves, AccountStep
<1>10. CASE \E terms \in Terms : UpdateConfig(terms)
  BY <1>10 DEF UpdateConfig, AccountStep, ExchangeInv, Sound, AccountType
<1> QED
  BY <1>2, <1>3, <1>5, <1>6, <1>7, <1>8, <1>9, <1>10 DEF Next

\* The margin of the position is what its executions locked, at the leverages they
\* locked it at, whatever sequence of orders, slices, partial closes, flips,
\* liquidations and changes of the leverage made the position.
THEOREM MarginFollowsCost == Spec => []MarginBacksPosition
<1>1. Init => Backed(acct.pos)
  BY FlatBacked DEF Init, NewAccount
<1>2. ExchangeInv /\ Backed(acct.pos) /\ [Next]_vars => Backed(acct.pos)'
  BY AccountSteps, BackedStep
<1>3. ExchangeInv /\ Backed(acct.pos) => MarginBacksPosition
  <2> SUFFICES ASSUME ExchangeInv, Backed(acct.pos) PROVE MarginBacksPosition
    OBVIOUS
  <2>1. PICK m \in Int, c \in Int, n \in Nat, l \in Nat, h \in Nat :
          /\ m = acct.pos.margin /\ c = acct.pos.cost /\ n = acct.pos.fills
          /\ l = acct.pos.lo /\ h = acct.pos.hi
    BY AccountFields DEF ExchangeInv, Sound, PositionType
  <2>2. -(h * n) <= m * h - c /\ m * l - c <= l * n
    BY <2>1 DEF Backed, AtLeast, AtMost
  <2>3. /\ (m + n) * h = m * h + h * n /\ (m - n) * l = m * l - l * n
        /\ m * h \in Int /\ h * n \in Int /\ m * l \in Int /\ l * n \in Int
    BY Z3
  <2>4. c <= (m + n) * h /\ (m - n) * l <= c
    BY <2>2, <2>3
  <2> QED
    BY <2>1, <2>4 DEF MarginBacksPosition
<1> QED
  BY <1>1, <1>2, <1>3, ExchangeInvariant, PTL DEF Spec

-----------------------------------------------------------------------------
(* The position is the sum of the executions                                *)

\* A set of naturals has a least member.
LEMMA LeastNat ==
    ASSUME NEW S, S \subseteq Nat, S # {}
    PROVE  \E m \in S : \A k \in S : m <= k
<1>1. PICK m \in S : \A k \in S : ~(<<k, m>> \in OpToRel(<, Nat))
  BY NatLessThanWellFounded, WFMin
<1>2. \A k \in S : k < m => <<k, m>> \in OpToRel(<, Nat)
  BY DEF OpToRel
<1>3. \A k \in S : m \in Nat /\ k \in Nat /\ ~(k < m)
  BY <1>1, <1>2
<1> QED
  BY <1>3

\* The function s holds the sums that SumUpTo(f, n) runs through.
Sums(s, f, n) == s = [k \in 0..n |-> IF k = 0 THEN 0 ELSE s[k - 1] + f[k]]

\* There is such a function: a least number of values without one would have a
\* predecessor with one, and that can be continued.
LEMMA SumsExist ==
    ASSUME NEW n \in Nat, NEW f \in [1..n -> Int]
    PROVE  \E s \in [0..n -> Int] : Sums(s, f, n)
<1> DEFINE Bad == {m \in 0..n : ~ \E s \in [0..m -> Int] : Sums(s, f, m)}
<1> SUFFICES ASSUME Bad # {} PROVE FALSE
  OBVIOUS
<1>1. PICK m \in Bad : \A k \in Bad : m <= k
  <2>1. Bad \subseteq Nat
    OBVIOUS
  <2> HIDE DEF Bad
  <2> QED
    BY <2>1, LeastNat
<1>2. m # 0
  <2>1. [k \in 0..0 |-> 0] \in [0..0 -> Int] /\ Sums([k \in 0..0 |-> 0], f, 0)
    BY DEF Sums
  <2> QED
    BY <2>1
<1>3. m \in Nat /\ m - 1 \in 0..n /\ m - 1 \notin Bad
  BY <1>1, <1>2
<1>4. PICK t \in [0..(m - 1) -> Int] : Sums(t, f, m - 1)
  BY <1>3
<1> DEFINE s == [k \in 0..m |-> IF k = m THEN t[m - 1] + f[m] ELSE t[k]]
<1>5. s \in [0..m -> Int]
  BY <1>1, <1>3, <1>4
<1>6. \A k \in 0..m : s[k] = IF k = 0 THEN 0 ELSE s[k - 1] + f[k]
  <2>1. \A k \in 0..(m - 1) : t[k] = IF k = 0 THEN 0 ELSE t[k - 1] + f[k]
    BY <1>4 DEF Sums
  <2>2. TAKE k \in 0..m
  <2>3. CASE k = m
    BY <1>2, <1>3, <2>3
  <2>4. CASE k # m
    <3>1. k \in 0..(m - 1) /\ (k # 0 => k - 1 \in 0..m /\ k - 1 # m)
      BY <1>3, <2>4
    <3> QED
      BY <2>1, <2>4, <3>1
  <2> QED
    BY <2>3, <2>4
<1>7. Sums(s, f, m)
  BY <1>5, <1>6 DEF Sums
<1> QED
  BY <1>1, <1>5, <1>7

\* There is only one: two would have a least place where they differ.
LEMMA SumsAgree ==
    ASSUME NEW n \in Nat, NEW f, NEW s, NEW t, Sums(s, f, n), Sums(t, f, n)
    PROVE  s = t
<1> DEFINE Bad == {k \in 0..n : s[k] # t[k]}
<1>1. /\ DOMAIN s = 0..n /\ s = [k \in 0..n |-> s[k]]
      /\ DOMAIN t = 0..n /\ t = [k \in 0..n |-> t[k]]
  BY DEF Sums
<1>2. \A k \in 0..n : /\ s[k] = IF k = 0 THEN 0 ELSE s[k - 1] + f[k]
                      /\ t[k] = IF k = 0 THEN 0 ELSE t[k - 1] + f[k]
  BY DEF Sums
<1>3. Bad = {}
  <2> SUFFICES ASSUME Bad # {} PROVE FALSE
    OBVIOUS
  <2>1. PICK m \in Bad : \A k \in Bad : m <= k
    <3>1. Bad \subseteq Nat
      OBVIOUS
    <3> HIDE DEF Bad
    <3> QED
      BY <3>1, LeastNat
  <2>2. m # 0 /\ m \in 0..n /\ m - 1 \in 0..n
    BY <1>2, <2>1
  <2>3. s[m - 1] = t[m - 1]
    BY <2>1, <2>2
  <2> QED
    BY <1>2, <2>1, <2>2, <2>3
<1> QED
  BY <1>1, <1>3

\* So the sum is the last value of any such function.
LEMMA SumIs ==
    ASSUME NEW n \in Nat, NEW f, NEW s, Sums(s, f, n)
    PROVE  SumUpTo(f, n) = s[n]
<1> DEFINE t == CHOOSE t : Sums(t, f, n)
<1>1. Sums(t, f, n)
  OBVIOUS
<1>2. s = t
  BY <1>1, SumsAgree
<1>3. SumUpTo(f, n) = t[n]
  BY DEF SumUpTo, Sums
<1> QED
  BY <1>2, <1>3

\* One more value.
LEMMA SumGrows ==
    ASSUME NEW n \in Nat, NEW f \in [1..n -> Int], NEW g \in [1..(n + 1) -> Int],
           \A k \in 1..n : g[k] = f[k]
    PROVE  /\ SumUpTo(f, n) \in Int
           /\ SumUpTo(g, n + 1) = SumUpTo(f, n) + g[n + 1]
<1>1. PICK s \in [0..n -> Int] : Sums(s, f, n)
  BY SumsExist
<1> DEFINE t == [k \in 0..(n + 1) |-> IF k = n + 1 THEN s[n] + g[n + 1] ELSE s[k]]
<1>2. \A k \in 0..(n + 1) : t[k] = IF k = 0 THEN 0 ELSE t[k - 1] + g[k]
  <2>1. \A k \in 0..n : s[k] = IF k = 0 THEN 0 ELSE s[k - 1] + f[k]
    BY <1>1 DEF Sums
  <2>2. TAKE k \in 0..(n + 1)
  <2>3. CASE k = n + 1
    BY <2>3
  <2>4. CASE k # n + 1
    <3>1. k \in 0..n /\ (k # 0 => k \in 1..n /\ k - 1 \in 0..(n + 1) /\ k - 1 # n + 1)
      BY <2>4
    <3> QED
      BY <2>1, <2>4, <3>1
  <2> QED
    BY <2>3, <2>4
<1>3. Sums(t, g, n + 1)
  BY <1>2 DEF Sums
<1>4. t[n + 1] = s[n] + g[n + 1] /\ s[n] \in Int
  BY <1>1
<1> HIDE DEF t
<1>5. SumUpTo(g, n + 1) = t[n + 1] /\ SumUpTo(f, n) = s[n]
  BY <1>1, <1>3, SumIs
<1> QED
  BY <1>4, <1>5

\* One other value.
LEMMA SumMoves ==
    ASSUME NEW n \in Nat, NEW f \in [1..n -> Int], NEW g \in [1..n -> Int],
           NEW id \in 1..n, \A k \in 1..n \ {id} : g[k] = f[k]
    PROVE  SumUpTo(g, n) = SumUpTo(f, n) + (g[id] - f[id])
<1>1. PICK s \in [0..n -> Int] : Sums(s, f, n)
  BY SumsExist
<1>2. PICK d \in Int : d = g[id] - f[id]
  OBVIOUS
<1> DEFINE t == [k \in 0..n |-> IF k < id THEN s[k] ELSE s[k] + d]
<1>3. \A k \in 0..n : t[k] = IF k = 0 THEN 0 ELSE t[k - 1] + g[k]
  <2>1. \A k \in 0..n : s[k] \in Int /\ s[k] = IF k = 0 THEN 0 ELSE s[k - 1] + f[k]
    BY <1>1 DEF Sums
  <2>2. TAKE k \in 0..n
  <2>3. CASE k = 0
    BY <2>1, <2>3
  <2>4. CASE k # 0
    <3>1. k \in 1..n /\ k - 1 \in 0..n /\ g[k] \in Int /\ f[k] \in Int
      BY <2>4
    <3>2. s[k] = s[k - 1] + f[k] /\ s[k - 1] \in Int
      BY <2>1, <2>4, <3>1
    <3>3. CASE k < id
      BY <2>4, <3>1, <3>2, <3>3
    <3>4. CASE k = id
      BY <1>2, <2>4, <3>1, <3>2, <3>4
    <3>5. CASE k > id
      BY <1>2, <2>4, <3>1, <3>2, <3>5
    <3> QED
      BY <3>3, <3>4, <3>5
  <2> QED
    BY <2>3, <2>4
<1>4. Sums(t, g, n)
  BY <1>3 DEF Sums
<1>5. t[n] = s[n] + d
  BY <1>1
<1> HIDE DEF t
<1>6. SumUpTo(g, n) = t[n] /\ SumUpTo(f, n) = s[n]
  BY <1>1, <1>4, SumIs
<1> QED
  BY <1>2, <1>5, <1>6

\* A position that is open has a side.
Sided(p) == p.qty # 0 => p.side \in Sides

\* The position q is p moved by d.
Moved(p, q, d) == Sided(q) /\ Signed(q.side, q.qty) = Signed(p.side, p.qty) + d

\* Opening, extending, reducing, closing and turning a position.
LEMMA UpdateMoves ==
    ASSUME NEW a \in AccountType, Sided(a.pos), NEW side \in Sides, NEW qty \in Nat \ {0},
           NEW at \in Int, NEW m, NEW sl, NEW tp
    PROVE  Moved(a.pos, UpdatePosition(a, side, qty, at, m, sl, tp).pos, Signed(side, qty))
<1> DEFINE p == a.pos
           b == UpdatePosition(a, side, qty, at, m, sl, tp)
<1>1. p \in PositionType /\ p.qty \in Nat /\ p.side \in Sides \cup {"NONE"}
  BY AccountFields
<1>2. CASE p.qty = 0
  <2> DEFINE q == Opened(Lev(a), side, qty, at, m, sl, tp)
  <2>1. b = [a EXCEPT !.pos = q]
    BY <1>2 DEF UpdatePosition
  <2>2. q.side = side /\ q.qty = qty
    BY DEF Opened
  <2> HIDE DEF q
  <2>3. b.pos = q
    BY <2>1 DEF AccountType
  <2> QED
    BY <1>1, <1>2, <2>2, <2>3 DEF Moved, Sided, Signed, Sides
<1>3. CASE p.qty # 0 /\ p.side = side
  <2> DEFINE q == Extended(p, Lev(a), qty, at, m)
  <2>1. b = [a EXCEPT !.pos = q]
    BY <1>3 DEF UpdatePosition
  <2>2. q.side = side /\ q.qty = p.qty + qty
    BY <1>1, <1>3 DEF Extended, PositionType
  <2> HIDE DEF q
  <2>3. b.pos = q
    BY <2>1 DEF AccountType
  <2> QED
    BY <1>1, <1>3, <2>2, <2>3 DEF Moved, Sided, Signed, Sides
<1>4. CASE p.qty # 0 /\ p.side # side
  <2> DEFINE q == AfterClose(p, Lev(a), side, qty, at, m)
  <2>1. b = ClosePosition(a, side, qty, at, m)
    BY <1>4 DEF UpdatePosition
  <2>2. b.pos = q
    BY <2>1 DEF ClosePosition, AccountType
  <2>3. CASE qty < p.qty
    <3>1. q.side = p.side /\ q.qty = p.qty - qty
      BY <1>1, <2>3 DEF AfterClose, PositionType
    <3> HIDE DEF q
    <3> QED
      BY <1>1, <1>4, <2>2, <2>3, <3>1 DEF Moved, Sided, Signed, Sides
  <2>4. CASE qty = p.qty
    <3>1. q.side = "NONE" /\ q.qty = 0
      BY <2>4 DEF AfterClose, NoPosition
    <3> HIDE DEF q
    <3> QED
      BY <1>1, <1>4, <2>2, <2>4, <3>1 DEF Moved, Sided, Signed, Sides
  <2>5. CASE qty > p.qty
    <3>1. q.side = side /\ q.qty = qty - p.qty
      BY <1>1, <2>5 DEF AfterClose, Opened
    <3> HIDE DEF q
    <3> QED
      BY <1>1, <1>4, <2>2, <2>5, <3>1 DEF Moved, Sided, Signed, Sides
  <2> QED
    BY <1>1, <2>3, <2>4, <2>5
<1> QED
  BY <1>2, <1>3, <1>4

\* A fill, and a forced close.
LEMMA FilledMoves ==
    ASSUME NEW a, Sound(a), Sided(a.pos), NEW side \in Sides, NEW qty \in Nat \ {0},
           NEW at \in Int, NEW sl, NEW tp
    PROVE  Moved(a.pos, Filled(a, side, qty, at, sl, tp).pos, Signed(side, qty))
<1> DEFINE fee == Fee(a, at, qty)
           m == Margin(a, at, qty)
           a1 == ChargeFee(a, fee)
           a2 == LockMargin(a1, m)
<1>1. fee \in Int /\ m \in Int
  BY AmountsInt DEF Sound
<1>2. Sound(a1) /\ a1.pos = a.pos
  BY <1>1, ChargeFeeSound
<1> HIDE DEF a1
<1>3. Sound(a2) /\ a2.pos = a.pos
  BY <1>1, <1>2, LockMarginSound
<1> HIDE DEF a2
<1>4. Filled(a, side, qty, at, sl, tp) = UpdatePosition(a2, side, qty, at, m, sl, tp)
  BY DEF Filled, a1, a2
<1> HIDE DEF m, fee
<1>5. Moved(a2.pos, UpdatePosition(a2, side, qty, at, m, sl, tp).pos, Signed(side, qty))
  BY <1>3, UpdateMoves DEF Sound
<1> QED
  BY ONLY <1>3, <1>4, <1>5

LEMMA ForceClosedMoves ==
    ASSUME NEW a, Sound(a), Sided(a.pos), NEW p \in Int, NEW qty \in Nat \ {0}
    PROVE  Moved(a.pos, ForceClosed(a, p, qty).pos, Signed(Opposite(a.pos.side), qty))
<1> DEFINE side == Opposite(a.pos.side)
           at == FillPrice(a, p, side)
           fee == Fee(a, at, qty)
           a1 == ChargeFee(a, fee)
<1>1. side \in Sides
  BY DEF Opposite, Sides
<1>2. at \in Int
  BY AmountsInt DEF Sound
<1>3. fee \in Int
  BY <1>2, AmountsInt DEF Sound
<1>4. Sound(a1) /\ a1.pos = a.pos
  BY <1>3, ChargeFeeSound
<1> HIDE DEF a1, at
<1>5. ForceClosed(a, p, qty) = UpdatePosition(a1, side, qty, at, 0, None, None)
  BY DEF ForceClosed, a1, at
<1> HIDE DEF side, fee
<1>6. Moved(a1.pos, UpdatePosition(a1, side, qty, at, 0, None, None).pos, Signed(side, qty))
  BY <1>1, <1>2, <1>4, UpdateMoves DEF Sound
<1>7. Moved(a.pos, ForceClosed(a, p, qty).pos, Signed(side, qty))
  BY ONLY <1>4, <1>5, <1>6
<1> QED
  BY <1>7 DEF side

\* A pending order that is not an iceberg has traded nothing.
Untraded(o) == o.status = "PENDING" /\ o.req.type # "ICEBERG" => o.done = 0

\* The orders os have traded d more than the orders now.
Traded(os, d) ==
    /\ os \in Seq(OrderType)
    /\ \A i \in DOMAIN os : Untraded(os[i])
    /\ NetDone(os) = NetDone(orders) + d

OrderDone(o) == Signed(o.req.side, o.done)
Dones(os) == [i \in DOMAIN os |-> OrderDone(os[i])]

\* What the orders have done, signed: integers, and their sum.
LEMMA DonesFacts ==
    ASSUME NEW os \in Seq(OrderType)
    PROVE  /\ Len(os) \in Nat /\ DOMAIN os = 1..Len(os)
           /\ Dones(os) \in [1..Len(os) -> Int]
           /\ NetDone(os) = SumUpTo(Dones(os), Len(os))
<1>1. Len(os) \in Nat /\ DOMAIN os = 1..Len(os)
  OBVIOUS
<1>2. \A o \in OrderType : OrderDone(o) \in Int
  BY DEF OrderType, OrderDone, Signed
<1>3. \A i \in DOMAIN os : os[i] \in OrderType
  OBVIOUS
<1>4. Dones(os) \in [1..Len(os) -> Int]
  BY <1>1, <1>2, <1>3 DEF Dones
<1>5. NetDone(os) = SumUpTo(Dones(os), Len(os))
  BY DEF NetDone, Dones, OrderDone
<1> QED
  BY <1>1, <1>4, <1>5

\* A new order.
LEMMA AppendTrades ==
    ASSUME orders \in Seq(OrderType), \A i \in Ids : Untraded(orders[i]),
           NEW o \in OrderType, Untraded(o)
    PROVE  Traded(Append(orders, o), OrderDone(o))
<1> DEFINE os == Append(orders, o)
           n == Len(orders)
<1>1. /\ os \in Seq(OrderType) /\ Len(os) = n + 1 /\ n \in Nat
      /\ DOMAIN orders = 1..n /\ DOMAIN os = 1..(n + 1)
  OBVIOUS
<1>2. os[n + 1] = o /\ \A i \in 1..n : os[i] = orders[i]
  OBVIOUS
<1> HIDE DEF os, n
<1>3. \A i \in DOMAIN os : Untraded(os[i])
  BY <1>1, <1>2 DEF Ids
<1>4. Dones(os)[n + 1] = OrderDone(o) /\ \A i \in 1..n : Dones(os)[i] = Dones(orders)[i]
  BY <1>1, <1>2 DEF Dones
<1>5. /\ Dones(os) \in [1..(n + 1) -> Int] /\ NetDone(os) = SumUpTo(Dones(os), n + 1)
      /\ Dones(orders) \in [1..n -> Int] /\ NetDone(orders) = SumUpTo(Dones(orders), n)
  BY <1>1, DonesFacts DEF n
<1>6. SumUpTo(Dones(os), n + 1) = SumUpTo(Dones(orders), n) + Dones(os)[n + 1]
  BY ONLY <1>1, <1>4, <1>5, SumGrows
<1>7. Traded(os, OrderDone(o))
  BY <1>1, <1>3, <1>4, <1>5, <1>6 DEF Traded
<1> QED
  BY <1>7 DEF os

\* Another state of an order.
LEMMA ReplaceTrades ==
    ASSUME orders \in Seq(OrderType), \A i \in Ids : Untraded(orders[i]),
           NEW id \in Ids, NEW o \in OrderType, Untraded(o)
    PROVE  Traded([orders EXCEPT ![id] = o], OrderDone(o) - OrderDone(orders[id]))
<1> DEFINE os == [orders EXCEPT ![id] = o]
           n == Len(orders)
<1>1. /\ os \in Seq(OrderType) /\ Len(os) = n /\ n \in Nat
      /\ DOMAIN orders = 1..n /\ DOMAIN os = 1..n /\ id \in 1..n
  BY DEF Ids
<1>2. os[id] = o /\ \A i \in 1..n \ {id} : os[i] = orders[i]
  BY <1>1
<1> HIDE DEF os, n
<1>3. \A i \in DOMAIN os : Untraded(os[i])
  BY <1>1, <1>2 DEF Ids
<1>4. /\ Dones(os)[id] = OrderDone(o) /\ Dones(orders)[id] = OrderDone(orders[id])
      /\ \A i \in 1..n \ {id} : Dones(os)[i] = Dones(orders)[i]
  BY <1>1, <1>2 DEF Dones
<1>5. /\ Dones(os) \in [1..n -> Int] /\ NetDone(os) = SumUpTo(Dones(os), n)
      /\ Dones(orders) \in [1..n -> Int] /\ NetDone(orders) = SumUpTo(Dones(orders), n)
  BY <1>1, DonesFacts DEF n
<1>6. SumUpTo(Dones(os), n) = SumUpTo(Dones(orders), n) + (Dones(os)[id] - Dones(orders)[id])
  BY ONLY <1>1, <1>4, <1>5, SumMoves
<1>7. Traded(os, OrderDone(o) - OrderDone(orders[id]))
  BY <1>1, <1>3, <1>4, <1>5, <1>6 DEF Traded
<1> QED
  BY <1>7 DEF os

\* Cancelling trades nothing.
LEMMA CancelTrades ==
    ASSUME NEW os, NEW d, Traded(os, d), NEW S
    PROVE  Traded(CancelIn(os, S), d)
<1> DEFINE cs == CancelIn(os, S)
<1>1. os \in Seq(OrderType) /\ \A i \in DOMAIN os : os[i] \in OrderType /\ Untraded(os[i])
  BY DEF Traded
<1>2. \A o \in OrderType : LET c == [o EXCEPT !.status = "CANCELLED"]
                          IN  /\ c \in OrderType /\ c.req = o.req /\ c.done = o.done
                              /\ c.status = "CANCELLED"
  BY DEF OrderType, Statuses
<1>3. /\ DOMAIN cs = DOMAIN os
      /\ \A i \in DOMAIN os : /\ cs[i] \in OrderType /\ cs[i].req = os[i].req
                              /\ cs[i].done = os[i].done
                              /\ cs[i].status \in {os[i].status, "CANCELLED"}
  BY <1>1, <1>2 DEF CancelIn
<1>4. cs \in Seq(OrderType) /\ Len(cs) = Len(os)
  <2>1. Len(os) \in Nat /\ DOMAIN os = 1..Len(os)
    BY <1>1
  <2>2. cs = [i \in 1..Len(os) |-> cs[i]]
    BY <2>1 DEF CancelIn
  <2> HIDE DEF cs
  <2>3. cs \in [1..Len(os) -> OrderType]
    BY <1>3, <2>1, <2>2
  <2> QED
    BY <2>1, <2>3
<1> HIDE DEF cs
<1>5. \A i \in DOMAIN cs : Untraded(cs[i])
  BY <1>1, <1>3 DEF Untraded
<1>6. Dones(cs) = Dones(os)
  BY <1>3 DEF Dones, OrderDone
<1>7. NetDone(cs) = NetDone(os)
  BY <1>1, <1>4, <1>6, DonesFacts
<1>8. Traded(cs, d)
  BY <1>4, <1>5, <1>7 DEF Traded
<1> QED
  BY <1>8 DEF cs

\* An order that has not traded counts nothing.
LEMMA NothingDone ==
    ASSUME NEW o, o.done = 0
    PROVE  OrderDone(o) = 0
<1>1. \A x \in Int : x + x = x => -x = x
  OBVIOUS
<1>2. o.done \in Int /\ o.done + o.done = o.done
  OBVIOUS
<1>3. OrderDone(o) = o.done
  BY ONLY <1>1, <1>2 DEF OrderDone, Signed
<1> QED
  BY <1>3

\* What the sum needs of the state before a step.
Tracked == Sided(acct.pos) /\ \A i \in Ids : Untraded(orders[i])

\* The step moves the position by what the orders have traded in it.
Executed == \E d \in Int : Traded(orders', d) /\ Moved(acct.pos, acct'.pos, d)

\* Nothing is traded: the position stays and so does what the orders have done.
LEMMA NothingExecuted ==
    ASSUME ExchangeInv, Tracked, acct'.pos = acct.pos, Traded(orders', 0)
    PROVE  Executed
<1>1. Signed(acct.pos.side, acct.pos.qty) \in Int
  BY AccountFields DEF ExchangeInv, Sound, Signed
<1>2. Moved(acct.pos, acct'.pos, 0)
  BY <1>1 DEF Moved, Tracked
<1> QED
  BY <1>2 DEF Executed

\* Orders that stay as they are have traded nothing more.
LEMMA OrdersStand ==
    ASSUME ExchangeInv, Tracked
    PROVE  /\ orders \in Seq(OrderType) /\ \A i \in Ids : Untraded(orders[i])
           /\ NetDone(orders) \in Int /\ Traded(orders, 0)
<1>1. orders \in Seq(OrderType) /\ \A i \in Ids : Untraded(orders[i])
  BY DEF ExchangeInv, Books, Tracked
<1>2. NetDone(orders) \in Int
  <2>1. PICK n \in Nat : n = Len(orders)
    BY <1>1
  <2>2. PICK f \in [1..n -> Int] : NetDone(orders) = SumUpTo(f, n)
    BY <1>1, <2>1, DonesFacts
  <2> DEFINE g == [k \in 1..(n + 1) |-> IF k = n + 1 THEN 0 ELSE f[k]]
  <2>3. g \in [1..(n + 1) -> Int] /\ \A k \in 1..n : g[k] = f[k]
    OBVIOUS
  <2> HIDE DEF g
  <2> QED
    BY <2>2, <2>3, SumGrows
<1> QED
  BY <1>1, <1>2 DEF Traded, Ids

\* A submission.
LEMMA SubmitExecutes ==
    ASSUME ExchangeInv, Tracked, Submit
    PROVE  Executed
<1>1. PICK r \in Requests : \/ SubmitRejected(r) \/ SubmitCancelled(r)
                            \/ SubmitRests(r) \/ SubmitRaises(r) \/ SubmitFills(r)
  BY DEF Submit
<1>2. r \in RequestType /\ r.qty \in Int /\ r.side \in Sides /\ r.px \in Int
  BY ExchangeAssumption DEF RequestType, None
<1>3. /\ NewOrder(r) \in OrderType /\ NewOrder(r).req = r /\ NewOrder(r).done = 0
      /\ NewOrder(r).status = "PENDING"
  BY <1>2, NewOrderType DEF NewOrder
<1>4. ASSUME NEW o \in OrderType, o.done = 0, orders' = Append(orders, o), acct' = acct
      PROVE  Executed
  <2>1. Traded(orders', OrderDone(o))
    BY <1>4, OrdersStand, AppendTrades DEF Untraded
  <2>2. OrderDone(o) = 0
    BY <1>4, NothingDone
  <2> QED
    BY <1>4, <2>1, <2>2, NothingExecuted
<1>5. CASE SubmitRejected(r) \/ SubmitCancelled(r) \/ SubmitRests(r)
  <2>1. PICK st \in {"REJECTED", "CANCELLED", "PENDING"} : SubmitDecided(r, st)
    BY <1>5 DEF SubmitRejected, SubmitCancelled, SubmitRests
  <2> DEFINE o == [NewOrder(r) EXCEPT !.status = st, !.heard = TRUE]
  <2>2. o \in OrderType /\ o.done = 0
    BY <1>3, <2>1 DEF OrderType, Statuses
  <2>3. orders' = Append(orders, o) /\ acct' = acct
    BY <2>1 DEF SubmitDecided
  <2> HIDE DEF o
  <2> QED
    BY <1>4, <2>2, <2>3
<1>6. CASE SubmitRaises(r)
  BY <1>3, <1>4, <1>6 DEF SubmitRaises
<1>7. CASE SubmitFills(r)
  <2> DEFINE o == [NewOrder(r) EXCEPT !.status = "FILLED", !.heard = TRUE,
                                      !.filled = r.qty, !.done = r.qty]
             os == Append(orders, o)
             S == Siblings(os, Len(orders) + 1)
  <2>1. o \in OrderType /\ o.status = "FILLED" /\ o.req = r /\ o.done = r.qty
    <3>1. PICK x \in Int : x = r.qty
      BY <1>2
    <3>2. o = [NewOrder(r) EXCEPT !.status = "FILLED", !.heard = TRUE,
                                  !.filled = x, !.done = x]
      BY <3>1
    <3> HIDE DEF o
    <3> QED
      BY <1>3, <3>1, <3>2 DEF OrderType, Statuses
  <2>2. orders' = CancelIn(os, S)
    BY <1>7 DEF SubmitFills, ResolveOco
  <2> HIDE DEF o, S
  <2>3. Traded(os, OrderDone(o))
    BY <2>1, OrdersStand, AppendTrades DEF Untraded
  <2> HIDE DEF os
  <2>4. Traded(orders', Signed(r.side, r.qty))
    BY <2>1, <2>2, <2>3, CancelTrades DEF OrderDone
  <2>5. r.qty \in Nat \ {0}
    BY <1>2, <1>7, FateWellFormed, WellFormed DEF SubmitFills
  <2>6. SubmitPrice(r) \in Int
    <3>1. price \in Int /\ acct \in AccountType
      BY ExchangeAssumption DEF ExchangeInv, Sound
    <3> QED
      BY <1>2, <3>1, AmountsInt DEF SubmitPrice
  <2>7. acct' = Filled(acct, r.side, r.qty, SubmitPrice(r), r.sl, r.tp)
    BY <1>7 DEF SubmitFills
  <2>8. Moved(acct.pos, acct'.pos, Signed(r.side, r.qty))
    BY <1>2, <2>5, <2>6, <2>7, FilledMoves DEF ExchangeInv, Tracked
  <2>9. Signed(r.side, r.qty) \in Int
    BY <1>2 DEF Signed
  <2> QED
    BY <2>4, <2>8, <2>9 DEF Executed
<1> QED
  BY <1>1, <1>5, <1>6, <1>7

\* A forced close, by a client or by the tick: the order it creates trades what
\* leaves the position.
LEMMA ForceCloseExecutes ==
    ASSUME ExchangeInv, Tracked, NEW p \in Int, NEW qty \in Nat \ {0},
           ForceClose(qty), acct'.pos = ForceClosed(acct, p, qty).pos
    PROVE  Executed
<1> DEFINE side == Opposite(acct.pos.side)
           o == CloseOrder(side, qty)
<1>1. side \in Sides
  BY DEF Opposite, Sides
<1>2. o \in OrderType /\ o.status = "FILLED"
  BY <1>1, CloseOrderType
<1>3. o.req.side = side /\ o.done = qty
  BY DEF CloseOrder, NewOrder
<1>4. orders' = Append(orders, o)
  BY DEF ForceClose
<1> HIDE DEF o
<1>5. Traded(orders', Signed(side, qty))
  BY <1>2, <1>3, <1>4, OrdersStand, AppendTrades DEF Untraded, OrderDone
<1>6. Moved(acct.pos, acct'.pos, Signed(side, qty))
  BY ForceClosedMoves DEF ExchangeInv, Tracked
<1>7. Signed(side, qty) \in Int
  BY DEF Signed
<1> QED
  BY <1>5, <1>6, <1>7 DEF Executed

\* An order of the sweep, examined as o: passed over, refused or executed.
LEMMA SweepExecutes ==
    ASSUME ExchangeInv, Tracked, NEW id \in Ids, NEW o \in OrderType, NEW at \in Int,
           Pass(id, o) \/ Execute(id, o, at), o.req = orders[id].req,
           o.done = 0, orders[id].done = 0, o.req.qty > 0
    PROVE  Executed
<1>1. o.req \in RequestType /\ o.req.qty \in Nat \ {0} /\ o.req.side \in Sides
  BY DEF OrderType, RequestType
<1>2. OrderDone(o) = 0 /\ OrderDone(orders[id]) = 0
  BY NothingDone
<1>3. ASSUME NEW n \in OrderType, n.done = 0, n.req = o.req,
             orders' = [orders EXCEPT ![id] = n], acct' = acct
      PROVE  Executed
  <2>1. Traded(orders', OrderDone(n) - OrderDone(orders[id]))
    BY <1>3, OrdersStand, ReplaceTrades DEF Untraded
  <2>2. OrderDone(n) = 0
    BY <1>3, NothingDone
  <2>3. Traded(orders', 0)
    BY <1>2, <2>1, <2>2
  <2> QED
    BY <1>3, <2>3, NothingExecuted
<1>4. CASE Pass(id, o)
  BY <1>3, <1>4 DEF Pass
<1>5. CASE Execute(id, o, at) /\ ~MarginOk(acct, at, at, o.req.qty)
  <2> DEFINE n == [o EXCEPT !.status = "REJECTED"]
  <2>1. orders' = [orders EXCEPT ![id] = n] /\ acct' = acct
    BY <1>5 DEF Execute, Refuse
  <2>2. n \in OrderType /\ n.done = 0 /\ n.req = o.req
    BY DEF OrderType, Statuses
  <2> HIDE DEF n
  <2> QED
    BY <1>3, <2>1, <2>2
<1>6. CASE Execute(id, o, at) /\ MarginOk(acct, at, at, o.req.qty)
  <2> DEFINE n == [o EXCEPT !.status = "FILLED", !.filled = o.req.qty, !.done = o.req.qty]
             os == [orders EXCEPT ![id] = n]
             S == Siblings(os, id)
  <2>1. orders' = CancelIn(os, S)
        /\ acct' = Filled(acct, o.req.side, o.req.qty, at, None, None)
    BY <1>6 DEF Execute, ResolveOco
  <2>2. n \in OrderType /\ n.status = "FILLED" /\ n.req = o.req /\ n.done = o.req.qty
    <3>1. PICK x \in Int : x = o.req.qty
      BY <1>1
    <3>2. n = [o EXCEPT !.status = "FILLED", !.filled = x, !.done = x]
      BY <3>1
    <3> HIDE DEF n
    <3> QED
      BY <3>1, <3>2 DEF OrderType, Statuses
  <2> HIDE DEF n, S
  <2>3. Traded(os, OrderDone(n) - OrderDone(orders[id]))
    BY <2>2, OrdersStand, ReplaceTrades DEF Untraded
  <2> HIDE DEF os
  <2>4. OrderDone(n) - OrderDone(orders[id]) = Signed(o.req.side, o.req.qty)
    BY <1>1, <1>2, <2>2 DEF OrderDone, Signed
  <2>5. Traded(orders', Signed(o.req.side, o.req.qty))
    BY <2>1, <2>3, <2>4, CancelTrades
  <2>6. Moved(acct.pos, acct'.pos, Signed(o.req.side, o.req.qty))
    BY <1>1, <2>1, FilledMoves DEF ExchangeInv, Tracked
  <2>7. Signed(o.req.side, o.req.qty) \in Int
    BY <1>1 DEF Signed
  <2> QED
    BY <2>5, <2>6, <2>7 DEF Executed
<1> QED
  BY <1>4, <1>5, <1>6

\* The sweep.
LEMMA ExamineExecutes ==
    ASSUME ExchangeInv, Tracked, Examine
    PROVE  Executed
<1>1. PICK id \in todo : \/ SkipDecided(id) \/ ExpireLimit(id) \/ CheckLimit(id)
                         \/ CheckStopLimit(id) \/ CheckTrailingStop(id) \/ CheckIceberg(id)
  BY DEF Examine
<1> DEFINE o == orders[id]
<1>2. /\ orders \in Seq(OrderType) /\ id \in Ids /\ o \in OrderType
      /\ o.req \in RequestType /\ price \in Int /\ price \in Nat
      /\ Untraded(o) /\ o.done \in Int
  <2>1. orders \in Seq(OrderType) /\ id \in Ids /\ price \in Nat
    BY ExchangeAssumption DEF ExchangeInv, Books, Ids
  <2>2. o \in OrderType /\ Untraded(o)
    BY <2>1 DEF Ids, Tracked
  <2>3. o.req \in RequestType /\ o.done \in Int
    BY <2>2 DEF OrderType
  <2> QED
    BY <2>1, <2>2, <2>3
<1>3. ASSUME NEW n \in OrderType, n.done = o.done, n.req = o.req,
             n.status \in {o.status, "CANCELLED"},
             orders' = [orders EXCEPT ![id] = n], acct' = acct
      PROVE  Executed
  <2>1. Untraded(n)
    BY <1>2, <1>3 DEF Untraded
  <2>2. Traded(orders', OrderDone(n) - OrderDone(o))
    BY <1>2, <1>3, <2>1, OrdersStand, ReplaceTrades
  <2>3. OrderDone(n) = OrderDone(o) /\ OrderDone(o) \in Int
    BY <1>2, <1>3 DEF OrderDone, Signed
  <2>4. Traded(orders', 0)
    BY <2>2, <2>3
  <2> QED
    BY <1>3, <2>4, NothingExecuted
<1>4. CASE SkipDecided(id)
  BY <1>2, <1>3, <1>4 DEF SkipDecided, Pass
<1>5. CASE ExpireLimit(id)
  <2> DEFINE n == [o EXCEPT !.status = "CANCELLED"]
  <2>1. orders' = [orders EXCEPT ![id] = n] /\ acct' = acct
    BY <1>5 DEF ExpireLimit
  <2>2. n \in OrderType /\ n.done = o.done /\ n.req = o.req /\ n.status = "CANCELLED"
    BY <1>2 DEF OrderType, Statuses
  <2> HIDE DEF n
  <2> QED
    BY <1>3, <2>1, <2>2
<1>6. ASSUME o.status = "PENDING", o.req.type # "ICEBERG"
      PROVE  o.done = 0 /\ o.req.qty > 0
  <2>1. Tradable(o)
    BY <1>2 DEF ExchangeInv, Books, Ids
  <2> QED
    BY <1>2, <1>6, <2>1 DEF Untraded, Tradable
<1>7. CASE CheckLimit(id)
  <2>1. o.req.px \in Int
    BY <1>2 DEF RequestType, None
  <2>2. /\ Pass(id, o) \/ Execute(id, o, o.req.px)
        /\ o.status = "PENDING" /\ o.req.type = "LIMIT"
    BY <1>7 DEF CheckLimit, Due
  <2> QED
    BY <1>2, <1>6, <2>1, <2>2, SweepExecutes
<1>8. CASE CheckStopLimit(id)
  <2> DEFINE t == CheckTrigger(o)
             n == [o EXCEPT !.triggered = t]
  <2>1. t \in BOOLEAN
    BY <1>2 DEF CheckTrigger, OrderType
  <2>2. /\ Pass(id, n) \/ Execute(id, n, n.req.px)
        /\ o.status = "PENDING" /\ o.req.type = "STOP_LIMIT"
    BY <1>8 DEF CheckStopLimit, Due
  <2> HIDE DEF t
  <2>3. n \in OrderType /\ n.req = o.req /\ n.done = o.done
    BY <1>2, <2>1 DEF OrderType
  <2> HIDE DEF n
  <2>4. n.req.px \in Int
    BY <1>2, <2>3 DEF RequestType, None
  <2> QED
    BY <1>2, <1>6, <2>2, <2>3, <2>4, SweepExecutes
<1>9. CASE CheckTrailingStop(id)
  <2> DEFINE n == UpdateStopPrice(o)
             at == FillPrice(acct, price, n.req.side)
  <2>1. /\ Pass(id, n) \/ Execute(id, n, at)
        /\ o.status = "PENDING" /\ o.req.type = "TRAILING_STOP"
    BY <1>9 DEF CheckTrailingStop, Due
  <2>2. TrailFrom(o) \in Int
    <3>1. o.req.trail \in Int
      BY <1>2 DEF RequestType
    <3>2. price * o.req.trail \in Int
      BY <1>2, <3>1, Z3
    <3>3. (price * o.req.trail) \div 100 \in Int
      BY <3>2, Z3
    <3>4. Trail(o.req) \in Int
      BY <3>1, <3>3 DEF Trail
    <3> QED
      BY <1>2, <3>4 DEF TrailFrom
  <2>3. PICK x \in Int : x = TrailFrom(o)
    BY <2>2
  <2>4. n = o \/ n = [o EXCEPT !.active = TRUE, !.best = price, !.stopPx = x]
    BY <2>3 DEF UpdateStopPrice
  <2> HIDE DEF n
  <2>5. n \in OrderType /\ n.req = o.req /\ n.done = o.done
    BY <1>2, <2>4 DEF OrderType
  <2>6. at \in Int
    <3>1. acct \in AccountType
      BY DEF ExchangeInv, Sound
    <3> QED
      BY <1>2, <3>1, AmountsInt
  <2> HIDE DEF at
  <2> QED
    BY <1>2, <1>6, <2>1, <2>5, <2>6, SweepExecutes
<1>10. CASE CheckIceberg(id)
  <2>1. o.status = "PENDING" /\ o.req.type = "ICEBERG"
    BY <1>10 DEF CheckIceberg, Due
  <2>2. o.heard /\ Tradable(o)
    BY <2>1, DueOrder
  <2>3. Pass(id, o) \/ ExecuteSlice(id) \/ RefuseSlice(id)
    BY <1>10 DEF CheckIceberg
  <2>4. CASE Pass(id, o)
    BY <1>2, <1>3, <2>4 DEF Pass
  <2>5. CASE RefuseSlice(id)
    <3> DEFINE n == [o EXCEPT !.refused = @ + 1]
    <3>1. orders' = [orders EXCEPT ![id] = n] /\ acct' = acct
      BY <2>5 DEF RefuseSlice
    <3>2. PICK k \in Nat : k = o.refused + 1
      <4>1. o.refused \in Nat
        BY <1>2 DEF OrderType
      <4> QED
        BY ONLY <4>1
    <3>3. n = [o EXCEPT !.refused = k]
      BY <3>2
    <3> HIDE DEF n
    <3>4. n \in OrderType /\ n.done = o.done /\ n.req = o.req /\ n.status = o.status
      BY <1>2, <3>3 DEF OrderType
    <3> QED
      BY <1>3, <3>1, <3>4
  <2>6. CASE ExecuteSlice(id)
    <3> DEFINE n == AfterSlice(o)
               q == SliceQty(o)
               os == [orders EXCEPT ![id] = n]
               S == Siblings(os, id)
    <3>1. /\ orders' = os \/ orders' = CancelIn(os, S)
          /\ acct' = Filled(acct, o.req.side, q, SlicePrice(o), None, None)
      BY <2>6 DEF ExecuteSlice, ResolveOco
    <3>2. n \in OrderType /\ q \in Nat \ {0} /\ n.req = o.req
      BY <1>2, <2>1, <2>2, AfterSliceOrder
    <3>3. n.done = o.done + q
      BY <1>2 DEF AfterSlice, OrderType
    <3> HIDE DEF n, S, q
    <3>4. Traded(os, OrderDone(n) - OrderDone(o))
      BY <1>2, <2>1, <3>2, OrdersStand, ReplaceTrades DEF Untraded
    <3> HIDE DEF os
    <3>5. o.req.side \in Sides /\ SlicePrice(o) \in Int
      BY <1>2 DEF RequestType, SlicePrice, None
    <3>6. OrderDone(n) - OrderDone(o) = Signed(o.req.side, q) /\ Signed(o.req.side, q) \in Int
      BY <1>2, <3>2, <3>3, <3>5 DEF OrderDone, Signed
    <3>7. Traded(orders', Signed(o.req.side, q))
      BY <3>1, <3>4, <3>6, CancelTrades
    <3>8. Moved(acct.pos, acct'.pos, Signed(o.req.side, q))
      BY <3>1, <3>2, <3>5, FilledMoves DEF ExchangeInv, Tracked
    <3> QED
      BY <3>6, <3>7, <3>8 DEF Executed
  <2> QED
    BY <2>3, <2>4, <2>5, <2>6
<1> QED
  BY <1>1, <1>4, <1>5, <1>7, <1>8, <1>9, <1>10

\* Every step.
LEMMA StepsExecute ==
    ASSUME ExchangeInv, Tracked, [Next]_vars
    PROVE  Executed
<1>1. ASSUME orders' = orders, acct'.pos = acct.pos PROVE Executed
  BY <1>1, OrdersStand, NothingExecuted
<1>2. CASE Submit
  BY <1>2, SubmitExecutes
<1>3. CASE (\E id \in resting : CancelOrder(id)) \/ CancelAllOrders
  <2>1. PICK S : orders' = CancelIn(orders, S) /\ acct' = acct
    BY <1>3 DEF CancelOrder, CancelAllOrders, Cancelled
  <2>2. Traded(orders', 0)
    BY <2>1, OrdersStand, CancelTrades
  <2> QED
    BY <2>1, <2>2, NothingExecuted
<1>4. acct.pos.qty \in Nat /\ price \in Int
  BY AccountFields, ExchangeAssumption DEF ExchangeInv, Sound
<1>5. CASE HandleClosePosition
  <2>1. /\ acct' = ForceClosed(acct, price, acct.pos.qty) /\ acct.pos.qty > 0
        /\ ForceClose(acct.pos.qty)
    BY <1>5 DEF HandleClosePosition
  <2> QED
    BY <1>4, <2>1, ForceCloseExecutes
<1>6. CASE StartSweep
  <2>1. StartSweep
    BY <1>6
  <2>2. CASE Trigger(acct, price) = "NONE"
    BY <1>1, <2>1, <2>2 DEF StartSweep
  <2>3. CASE Trigger(acct, price) # "NONE"
    <3> DEFINE q == TriggeredQty(acct, price)
               b == ForceClosed(acct, price, q)
    <3>1. acct' = Swept(acct, price) /\ price \in Int /\ acct.pos.qty # 0 /\ ForceClose(q)
      BY <2>1, <2>3, ExchangeAssumption DEF StartSweep, Trigger, ExchangeInv
    <3>2. q \in Nat \ {0}
      BY <1>4, <3>1 DEF TriggeredQty
    <3>3. Sound(b)
      BY <3>1, <3>2, ForceClosedSound DEF ExchangeInv
    <3>4. acct' = b \/ acct' = CoverDeficit(b)
      BY <3>1 DEF Swept
    <3> HIDE DEF b
    <3>5. acct'.pos = b.pos
      BY <3>3, <3>4 DEF CoverDeficit, Sound, AccountType
    <3> HIDE DEF q
    <3> QED
      BY <3>1, <3>2, <3>5, ForceCloseExecutes DEF b
  <2> QED
    BY <2>2, <2>3
<1>7. CASE Examine
  BY <1>7, ExamineExecutes
<1>8. CASE \E rate \in FundingRates : EndTick(rate)
  <2>1. PICK rate \in FundingRates : acct' = Funded(acct, price, rate) /\ orders' = orders
    BY <1>8 DEF EndTick
  <2>2. acct'.pos = acct.pos
    BY <2>1 DEF Funded, ExchangeInv, Sound, AccountType
  <2> QED
    BY <1>1, <2>1, <2>2
<1>9. CASE UNCHANGED vars \/ \E p \in Prices : MarketMoves(p)
  BY <1>1, <1>9 DEF vars, MarketMoves
<1>10. CASE \E terms \in Terms : UpdateConfig(terms)
  BY <1>1, <1>10 DEF UpdateConfig, ExchangeInv, Sound, AccountType
<1> QED
  BY <1>2, <1>3, <1>5, <1>6, <1>7, <1>8, <1>9, <1>10 DEF Next

\* The open position is what the executions of all orders add up to, after any
\* sequence of direct fills, swept fills, iceberg slices, closes and liquidations.
THEOREM PositionFromFills == Spec => []PositionIsSumOfFills
<1>1. Init => Tracked /\ PositionIsSumOfFills
  <2> SUFFICES ASSUME Init PROVE Tracked /\ PositionIsSumOfFills
    OBVIOUS
  <2>1. acct.pos = NoPosition /\ orders = << >>
    BY DEF Init, NewAccount
  <2>2. Ids = {} /\ Len(orders) = 0 /\ orders \in Seq(OrderType)
    BY <2>1 DEF Ids
  <2>3. NetDone(orders) = SumUpTo(Dones(orders), 0)
    BY <2>2, DonesFacts
  <2>4. Sums([k \in 0..0 |-> 0], Dones(orders), 0)
    BY DEF Sums
  <2>5. SumUpTo(Dones(orders), 0) = 0
    BY <2>4, SumIs
  <2> QED
    BY <2>1, <2>2, <2>3, <2>5 DEF Tracked, Sided, NoPosition, PositionIsSumOfFills, Signed
<1>2. ExchangeInv /\ Tracked /\ PositionIsSumOfFills /\ [Next]_vars
        => (Tracked /\ PositionIsSumOfFills)'
  <2> SUFFICES ASSUME ExchangeInv, Tracked, PositionIsSumOfFills, [Next]_vars
               PROVE  Tracked' /\ PositionIsSumOfFills'
    OBVIOUS
  <2>1. PICK d \in Int : Traded(orders', d) /\ Moved(acct.pos, acct'.pos, d)
    BY StepsExecute DEF Executed
  <2>2. Tracked'
    BY <2>1 DEF Traded, Moved, Tracked, Ids
  <2>3. NetDone(orders') = NetDone(orders) + d
    BY <2>1 DEF Traded
  <2>4. Signed(acct'.pos.side, acct'.pos.qty) = Signed(acct.pos.side, acct.pos.qty) + d
    BY <2>1 DEF Moved
  <2>5. PositionIsSumOfFills'
    BY <2>3, <2>4 DEF PositionIsSumOfFills
  <2> QED
    BY <2>2, <2>5
<1> QED
  BY <1>1, <1>2, ExchangeInvariant, PTL DEF Spec

=============================================================================
