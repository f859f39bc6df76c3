------------------------- MODULE PageActionsProofs --------------------------
(***************************************************************************)
(* What PageActions.cfg checks of orders, notices and records on small     *)
(* instances, for every list of symbols, prices, leverages and balances,   *)
(* every number of orders, slices, alerts, fills, trades, tabs and         *)
(* backtests.  Each part has an inductive invariant and a lemma for each   *)
(* kind of action; PartInv puts them together.                             *)
(***************************************************************************)
EXTENDS PageActions, SequencesExt, SequenceTheorems, FiniteSetTheorems, TLAPS

-----------------------------------------------------------------------------
(* The execution bot. *)

(***************************************************************************)
(* An interval that can still send a slice is the one in the ref: its run  *)
(* is on, its panel is there, and it has the plan of the run.  Intervals   *)
(* that were started with no slices may be left over; they send nothing.   *)
(***************************************************************************)
IntervalOfTheRun ==
  \A iv \in intervals :
    iv.closure.slices = 0 \/ /\ iv.id = intervalRef /\ iv.closure.slices = planned
                             /\ running /\ mounted

BotBooleans ==
  botConnected \in BOOLEAN /\ running \in BOOLEAN /\ done \in BOOLEAN /\ mounted \in BOOLEAN

BotTyped ==
  /\ strategy \in {"twap", "vwap"} /\ slices \in SliceCounts /\ symbol \in Symbols
  /\ prices \subseteq Symbols /\ order.symbol \in Symbols /\ intervalRef \in 0 .. started

BotNumbers ==
  /\ started \in Nat /\ botActs \in Nat /\ sliceIdx \in Nat /\ planned \in Nat
  /\ sent = sliceIdx /\ (running => mounted)
  /\ \A iv \in intervals : /\ iv.id \in 1 .. started
                           /\ iv.closure.slices \in Nat /\ iv.closure.symbol \in Symbols

BotSafe == BotTyped /\ BotNumbers /\ IntervalOfTheRun /\ Bot!NeverTooMany
BotInv == BotBooleans /\ BotSafe

\* What is a Boolean stays one.
LEMMA BotBooleansKept ==
  ASSUME BotBooleans, Bot!Next PROVE BotBooleans'
  <1>1. running' \in BOOLEAN /\ done' \in BOOLEAN /\ mounted' \in BOOLEAN /\ botConnected' \in BOOLEAN
    <2> USE DEF BotBooleans, Bot!inputs, Bot!Act
    <2>1. ASSUME NEW iv \in intervals, Bot!Tick(iv) PROVE <1>1!:
      <3>1. CASE Bot!Finished(iv.closure)
        BY <2>1, <3>1, Zenon DEF Bot!Tick, Bot!stopExecution
      <3>2. CASE ~Bot!Finished(iv.closure)
        BY <2>1, <3>2, Zenon DEF Bot!Tick, Bot!Slice
      <3> QED BY <3>1, <3>2
    <2>2. CASE Bot!startExecution BY <2>2, Zenon DEF Bot!startExecution
    <2>3. CASE Bot!StopClick BY <2>3, Zenon DEF Bot!StopClick, Bot!stopExecution
    <2>4. CASE Bot!Connection BY <2>4, Zenon DEF Bot!Connection
    <2>5. CASE Bot!Unmount BY <2>5, Zenon DEF Bot!Unmount
    <2>6. CASE \E s \in {"twap", "vwap"} : Bot!SetStrategy(s) BY <2>6, Zenon DEF Bot!SetStrategy
    <2>7. CASE \E n \in SliceCounts : Bot!SetSlices(n) BY <2>7, Zenon DEF Bot!SetSlices
    <2>8. CASE \E s \in Symbols : Bot!SelectSymbol(s) BY <2>8, Zenon DEF Bot!SelectSymbol
    <2> QED BY <2>1, <2>2, <2>3, <2>4, <2>5, <2>6, <2>7, <2>8 DEF Bot!Next
  <1> QED BY <1>1 DEF BotBooleans

\* The bot starts with no run and no interval.
LEMMA BotInit == Bot!Init => BotInv
  <1> SUFFICES ASSUME Bot!Init PROVE BotInv OBVIOUS
  <1>1. BotBooleans BY Zenon DEF Bot!Init, BotBooleans
  <1>2. BotTyped BY BotAssumption DEF Bot!Init, BotTyped, Bot!NoOrder
  <1>3. BotNumbers BY DEF Bot!Init, BotNumbers
  <1>4. IntervalOfTheRun /\ Bot!NeverTooMany BY DEF Bot!Init, IntervalOfTheRun, Bot!NeverTooMany
  <1> QED BY <1>1, <1>2, <1>3, <1>4 DEF BotInv, BotSafe

\* A firing interval, whichever it is, keeps the invariant, and sends only in a run.
LEMMA BotTick ==
  ASSUME BotSafe, NEW iv \in intervals, Bot!Tick(iv) PROVE BotSafe' /\ Bot!SliceNeedsRun
  <1> USE DEF BotSafe, BotTyped, BotNumbers, Bot!NeverTooMany, IntervalOfTheRun, Bot!Tick, Bot!inputs
  <1>1. CASE Bot!Finished(iv.closure)
    BY <1>1 DEF Bot!stopExecution, Bot!Others, Bot!SliceNeedsRun
  <1>2. CASE ~Bot!Finished(iv.closure)
    <2>1. /\ iv.closure.slices # 0 /\ sliceIdx + 1 <= planned /\ running /\ mounted
      BY <1>2 DEF Bot!Finished
    <2>2. order'.symbol \in Symbols /\ prices' \subseteq Symbols
      BY <1>2 DEF Bot!Slice, Bot!Message
    <2>3. running' /\ mounted' BY <1>2, <2>1
    <2> QED BY <1>2, <2>1, <2>2, <2>3 DEF Bot!Slice, Bot!SliceNeedsRun
  <1> QED BY <1>1, <1>2

\* A start finds no interval that can still send, and becomes the one that can.
LEMMA BotStart ==
  ASSUME BotSafe, Bot!startExecution PROVE BotSafe' /\ Bot!SliceNeedsRun
  <1> USE DEF BotSafe, BotTyped, BotNumbers, Bot!NeverTooMany, IntervalOfTheRun, Bot!startExecution,
              Bot!inputs, Bot!Act, Bot!Others, Bot!Closure, Bot!SliceNeedsRun
  <1>1. slices \in Nat BY BotAssumption
  <1>2. \A iv \in intervals : iv.closure.slices = 0 OBVIOUS
  <1>3. \A iv \in intervals' :
          \/ iv \in intervals
          \/ iv = [id |-> started + 1, closure |-> [slices |-> slices, strategy |-> strategy, symbol |-> symbol]]
    OBVIOUS
  <1>4. \A iv \in intervals' : /\ iv.id \in 1 .. started'
                               /\ iv.closure.slices \in Nat /\ iv.closure.symbol \in Symbols
    BY <1>1, <1>3
  <1>5. CASE slices = 0
    BY <1>1, <1>2, <1>3, <1>4, <1>5
  <1>6. CASE slices # 0
    BY <1>1, <1>2, <1>3, <1>4, <1>6
  <1> QED BY <1>5, <1>6

\* What else the user does, and the panel's removal.
LEMMA BotOther ==
  ASSUME BotSafe,
         \/ Bot!StopClick \/ Bot!Connection \/ Bot!Unmount
         \/ \E s \in {"twap", "vwap"} : Bot!SetStrategy(s)
         \/ \E n \in SliceCounts : Bot!SetSlices(n)
         \/ \E s \in Symbols : Bot!SelectSymbol(s)
  PROVE  BotSafe' /\ Bot!SliceNeedsRun
  <1> USE DEF BotSafe, BotTyped, BotNumbers, Bot!NeverTooMany, IntervalOfTheRun, Bot!inputs, Bot!Act,
              Bot!SliceNeedsRun
  <1>1. CASE Bot!StopClick BY <1>1 DEF Bot!StopClick, Bot!stopExecution, Bot!Others
  <1>2. CASE Bot!Connection BY <1>2 DEF Bot!Connection
  <1>3. CASE Bot!Unmount BY <1>3 DEF Bot!Unmount, Bot!UnmountedIntervals, Bot!Others
  <1>4. ASSUME NEW s \in {"twap", "vwap"}, Bot!SetStrategy(s) PROVE BotSafe' /\ Bot!SliceNeedsRun
    BY <1>4 DEF Bot!SetStrategy
  <1>5. ASSUME NEW n \in SliceCounts, Bot!SetSlices(n) PROVE BotSafe' /\ Bot!SliceNeedsRun
    BY <1>5 DEF Bot!SetSlices
  <1>6. ASSUME NEW s \in Symbols, Bot!SelectSymbol(s) PROVE BotSafe' /\ Bot!SliceNeedsRun
    BY <1>6 DEF Bot!SelectSymbol
  <1> QED BY <1>1, <1>2, <1>3, <1>4, <1>5, <1>6

LEMMA BotStep == ASSUME BotInv, Bot!Next PROVE BotInv' /\ Bot!SliceNeedsRun
  <1>1. BotBooleans' BY BotBooleansKept DEF BotInv
  <1>2. BotSafe' /\ Bot!SliceNeedsRun BY BotTick, BotStart, BotOther DEF Bot!Next, BotInv
  <1> QED BY <1>1, <1>2 DEF BotInv

\* The numbers of the intervals, as the type invariant has them.
LEMMA BotIsTyped == BotInv => Bot!TypeOK /\ Bot!NeverTooMany
  <1> SUFFICES ASSUME BotInv PROVE Bot!TypeOK /\ Bot!NeverTooMany OBVIOUS
  <1>1. {iv.id : iv \in intervals} \subseteq 1 .. started BY DEF BotInv, BotSafe, BotNumbers
  <1>2. strategy \in {"twap", "vwap"} /\ slices \in SliceCounts /\ symbol \in Symbols
    BY DEF BotInv, BotSafe, BotTyped
  <1> QED BY <1>1, <1>2, Zenon DEF BotInv, BotSafe, BotTyped, BotBooleans, Bot!TypeOK

-----------------------------------------------------------------------------
(* The order form. *)

\* Appending to a list.
LEMMA AppendFacts ==
  ASSUME NEW M, NEW s \in Seq(M), NEW x \in M
  PROVE  /\ Append(s, x) \in Seq(M) /\ Len(s) \in Nat /\ Len(Append(s, x)) = Len(s) + 1
         /\ Append(s, x)[Len(s) + 1] = x
         /\ \A i \in 1..Len(s) : Append(s, x)[i] = s[i]
OBVIOUS

OrderRecord == [type : Form!Types, qty : Nat, has : SUBSET Fields, shown : Leverages, wanted : BOOLEAN]
Told == {"filled", "resting", "rejected"}

FormFields ==
  /\ orderType \in Form!Types /\ filled \subseteq Fields /\ quantity \in Nat /\ leverage \in Leverages
  /\ price \in Prices /\ balance \in Balances /\ trailing \in BOOLEAN
  /\ orderType = "TRAILING_STOP" => trailing

FormOrders == orders \in Seq(OrderRecord) /\ Len(orders) <= MaxSubmits /\ Form!TrailingOnlyWithFlag

(***************************************************************************)
(* Only the newest order may still be open, and exactly while the form     *)
(* shows "submitting"; every other one has had its answer, or given up.    *)
(* Of the timers that clear a message none is left over.                   *)
(***************************************************************************)
OnlyTheNewestIsOpen ==
  /\ promise \in [Form!Ids -> {"none", "queued", "timed", "done"}]
  /\ \A i \in Form!Ids : /\ promise[i] = "none" <=> i > Len(orders)
                         /\ i < Len(orders) => promise[i] = "done"
  /\ submitting <=> Len(orders) # 0 /\ promise[Len(orders)] # "done"
  /\ clears \in Nat /\ clears + (IF submitting THEN 1 ELSE 0) <= Len(orders)

(***************************************************************************)
(* The exchange gives a result once, to an order on its way up: an order   *)
(* in the queue has none and is not on the wire, an answer on its way down *)
(* has one, and what the form shows is the result of the order it names.   *)
(***************************************************************************)
ResultsAreFinal ==
  /\ result \in [Form!Ids -> {"none", "FILLED", "PENDING", "REJECTED", "error"}]
  /\ up \subseteq 1 .. Len(orders) /\ down \subseteq 1 .. Len(orders)
  /\ \A i \in Form!Ids : promise[i] \in {"none", "queued"} => result[i] = "none" /\ i \notin up
  /\ \A i \in up : result[i] = "none"
  /\ \A i \in down : result[i] \in {"FILLED", "PENDING", "REJECTED"}
  /\ lastMsg.text \in Told =>
       /\ lastMsg.id \in Form!Ids /\ result[lastMsg.id] \in {"FILLED", "PENDING", "REJECTED"}
       /\ Form!Texts[result[lastMsg.id]] = lastMsg.text

FormInv == FormFields /\ FormOrders /\ OnlyTheNewestIsOpen /\ ResultsAreFinal

LEMMA FormInit == Form!Init => FormInv
  <1> SUFFICES ASSUME Form!Init PROVE FormInv OBVIOUS
  <1>1. trailing \in BOOLEAN /\ trailing BY Zenon DEF Form!Init
  <1>2. FormFields
    <2>1. orderType \in Form!Types BY DEF Form!Init, Form!Types
    <2>2. quantity \in Nat BY FormAssumption DEF Form!Init
    <2> QED BY <1>1, <2>1, <2>2 DEF Form!Init, FormFields
  <1>3. orders = << >> /\ submitting = FALSE BY Zenon DEF Form!Init
  <1>4. FormOrders BY <1>3, FormAssumption DEF FormOrders, Form!TrailingOnlyWithFlag
  <1>5. OnlyTheNewestIsOpen BY FormAssumption, <1>3 DEF Form!Init, OnlyTheNewestIsOpen, Form!Ids
  <1>6. ResultsAreFinal BY FormAssumption, <1>3 DEF Form!Init, ResultsAreFinal, Form!Ids, Form!NoMsg, Told
  <1> QED BY <1>2, <1>4, <1>5, <1>6 DEF FormInv

\* The user's typing, and what moves by itself, touches no order.
LEMMA FormTyping ==
  ASSUME FormInv,
         \/ \E t \in Form!Types : Form!SetType(t)
         \/ \E f \in Fields : Form!Edit(f)
         \/ \E q \in Quantities : Form!SetQuantity(q)
         \/ \E pct \in Percents : Form!setQtyFromBalance(pct)
         \/ \E l \in Leverages : Form!SetLeverage(l)
         \/ Form!FlagChanges
         \/ \E p \in Prices : Form!PriceMoves(p)
         \/ \E b \in Balances : Form!BalanceMoves(b)
         \/ Form!TradingSwitched \/ Form!TradingSeen \/ Form!CloseSeen
  PROVE  FormInv'
  <1> USE DEF FormInv, Form!form, Form!props, Form!flight, Form!Act
  <1> DEFINE Rest == FormOrders /\ OnlyTheNewestIsOpen /\ ResultsAreFinal
  <1>1. ASSUME UNCHANGED <<submitting, lastMsg, clears, orders, promise, up, down, result>> PROVE Rest'
    BY <1>1 DEF FormOrders, OnlyTheNewestIsOpen, ResultsAreFinal, Form!TrailingOnlyWithFlag
  <1>2. ASSUME NEW t \in Form!Types, Form!SetType(t) PROVE FormInv'
    BY <1>1, <1>2 DEF Form!SetType, FormFields
  <1>3. ASSUME NEW f \in Fields, Form!Edit(f) PROVE FormInv'
    BY <1>1, <1>3 DEF Form!Edit, FormFields
  <1>4. ASSUME NEW q \in Quantities, Form!SetQuantity(q) PROVE FormInv'
    BY <1>1, <1>4, FormAssumption DEF Form!SetQuantity, FormFields
  <1>5. ASSUME NEW pct \in Percents, Form!setQtyFromBalance(pct) PROVE FormInv'
    <2>1. quantity' \in Nat
      <3> DEFINE a == Form!availBalance * pct * Lots  b == 100 * price
      <3>1. Form!availBalance \in Nat BY FormAssumption DEF FormFields, Form!availBalance
      <3>2. pct \in Nat /\ Lots \in Nat BY FormAssumption
      <3>3. Form!availBalance * pct \in Nat BY <3>1, <3>2, Z3
      <3>4. a \in Nat BY <3>2, <3>3, Z3
      <3>5. b \in Nat /\ b > 0 BY FormAssumption DEF FormFields
      <3> HIDE DEF a, b
      <3>6. (2 * a + b) \div (2 * b) \in Nat BY <3>4, <3>5, Z3
      <3>7. quantity' = Form!Rounded(a, b) BY <1>5 DEF Form!setQtyFromBalance, a, b
      <3> QED BY <3>6, <3>7 DEF Form!Rounded
    <2> QED BY <1>1, <1>5, <2>1 DEF Form!setQtyFromBalance, FormFields
  <1>6. ASSUME NEW l \in Leverages, Form!SetLeverage(l) PROVE FormInv'
    BY <1>1, <1>6 DEF Form!SetLeverage, FormFields
  <1>7. CASE Form!FlagChanges
    <2>1. trailing' \in BOOLEAN BY <1>7, Zenon DEF Form!FlagChanges
    <2>2. orderType' \in Form!Types /\ (orderType' = "TRAILING_STOP" => trailing')
      BY <1>7 DEF Form!FlagChanges, Form!TypeWithoutFlag, Form!Types, FormFields
    <2> QED BY <1>1, <1>7, <2>1, <2>2 DEF Form!FlagChanges, FormFields
  <1>8. ASSUME NEW p \in Prices, Form!PriceMoves(p) PROVE FormInv'
    BY <1>1, <1>8 DEF Form!PriceMoves, FormFields
  <1>9. ASSUME NEW b \in Balances, Form!BalanceMoves(b) PROVE FormInv'
    BY <1>1, <1>9 DEF Form!BalanceMoves, FormFields
  <1>10. CASE Form!TradingSwitched \/ Form!TradingSeen \/ Form!CloseSeen
    BY <1>1, <1>10 DEF Form!TradingSwitched, Form!TradingSeen, Form!CloseSeen, FormFields
  <1> QED BY <1>2, <1>3, <1>4, <1>5, <1>6, <1>7, <1>8, <1>9, <1>10

\* A submission finds every earlier order answered or given up.
LEMMA FormSubmits ==
  ASSUME FormInv, Form!handleSubmit PROVE FormInv'
  <1> DEFINE id == Len(orders) + 1
  <1>1. /\ ~submitting /\ Len(orders) < MaxSubmits /\ orders' = Append(orders, Form!Order)
        /\ promise' = [promise EXCEPT ![id] = IF isOpen THEN "timed" ELSE "queued"]
        /\ up' = (IF isOpen THEN up \cup {id} ELSE up)
        /\ UNCHANGED <<orderType, filled, quantity, leverage, trailing, price, balance, lastMsg, clears,
                       down, result>>
    BY DEF Form!handleSubmit, Form!canSubmit, Form!form, Form!props
  <1>2. submitting' BY DEF Form!handleSubmit
  <1>3. Form!Order \in OrderRecord
    BY DEF FormInv, FormFields, Form!Order, OrderRecord
  <1>4. /\ orders \in Seq(OrderRecord) /\ orders' \in Seq(OrderRecord)
        /\ Len(orders) \in Nat /\ Len(orders') = Len(orders) + 1
        /\ orders'[id] = Form!Order /\ \A i \in 1 .. Len(orders) : orders'[i] = orders[i]
    BY <1>1, <1>3, AppendFacts DEF FormInv, FormOrders
  <1>5. FormFields' BY <1>1 DEF FormInv, FormFields
  <1>6. FormOrders'
    <2>1. Len(orders') <= MaxSubmits BY <1>1, <1>4, FormAssumption
    <2>2. Form!TrailingOnlyWithFlag'
      <3> SUFFICES ASSUME NEW i \in DOMAIN orders', orders'[i].type = "TRAILING_STOP"
                   PROVE  orders'[i].wanted
        BY DEF Form!TrailingOnlyWithFlag
      <3>1. i \in 1 .. Len(orders) \/ i = id BY <1>4
      <3>2. CASE i = id BY <1>4, <3>2 DEF Form!Order, FormInv, FormFields
      <3>3. CASE i \in 1 .. Len(orders)
        BY <1>4, <3>3 DEF FormInv, FormOrders, Form!TrailingOnlyWithFlag
      <3> QED BY <3>1, <3>2, <3>3
    <2> QED BY <1>4, <2>1, <2>2 DEF FormOrders
  <1>7. OnlyTheNewestIsOpen'
    BY <1>1, <1>2, <1>4, FormAssumption DEF FormInv, OnlyTheNewestIsOpen, Form!Ids
  <1>8. id \in Form!Ids /\ result[id] = "none" /\ Len(orders) \in Nat
    BY <1>1, <1>4, FormAssumption DEF FormInv, ResultsAreFinal, OnlyTheNewestIsOpen, Form!Ids
  <1>9. ResultsAreFinal'
    <2>1. up' \subseteq 1 .. Len(orders') /\ down' \subseteq 1 .. Len(orders')
      <3>1. 1 .. Len(orders) \subseteq 1 .. Len(orders') /\ id \in 1 .. Len(orders') BY <1>4
      <3>2. up' \subseteq up \cup {id} /\ down' = down BY <1>1
      <3>3. up \subseteq 1 .. Len(orders) /\ down \subseteq 1 .. Len(orders)
        BY DEF FormInv, ResultsAreFinal
      <3> QED BY <3>1, <3>2, <3>3
    <2>2. \A i \in Form!Ids : promise'[i] \in {"none", "queued"} => result'[i] = "none" /\ i \notin up'
      <3> SUFFICES ASSUME NEW i \in Form!Ids, promise'[i] \in {"none", "queued"}
                   PROVE  result'[i] = "none" /\ i \notin up'
        OBVIOUS
      <3>1. CASE i = id BY <1>1, <1>8, <3>1 DEF FormInv, ResultsAreFinal, OnlyTheNewestIsOpen
      <3>2. CASE i # id BY <1>1, <3>2 DEF FormInv, ResultsAreFinal, OnlyTheNewestIsOpen
      <3> QED BY <3>1, <3>2
    <2>3. \A i \in up' : result'[i] = "none" BY <1>1, <1>8 DEF FormInv, ResultsAreFinal
    <2> QED BY <1>1, <2>1, <2>2, <2>3 DEF FormInv, ResultsAreFinal
  <1> QED BY <1>5, <1>6, <1>7, <1>9 DEF FormInv

\* A timer clears the message.
LEMMA FormClears ==
  ASSUME FormInv, Form!ClearMsg PROVE FormInv'
  <1>1. /\ clears > 0 /\ clears' = clears - 1 /\ lastMsg' = [text |-> "none", id |-> 0]
        /\ UNCHANGED <<orderType, filled, quantity, leverage, trailing, price, balance, submitting,
                       orders, promise, up, down, result>>
    BY DEF Form!ClearMsg, Form!form, Form!props, Form!flight, Form!NoMsg
  <1>2. FormFields' /\ FormOrders'
    BY <1>1 DEF FormInv, FormFields, FormOrders, Form!TrailingOnlyWithFlag
  <1>3. OnlyTheNewestIsOpen' BY <1>1 DEF FormInv, FormOrders, OnlyTheNewestIsOpen
  <1>4. ResultsAreFinal' BY <1>1 DEF FormInv, ResultsAreFinal, Told
  <1> QED BY <1>2, <1>3, <1>4 DEF FormInv

\* The exchange decides on an order that came up, and answers if it can.
LEMMA FormServer ==
  ASSUME FormInv, NEW id \in Form!Ids, Form!ServerHandles(id) PROVE FormInv'
  <1>1. PICK r \in Form!Outcomes(orders[id]) :
          result' = [result EXCEPT ![id] = r]
          /\ down' = IF r = "error" \/ ~isOpen THEN down ELSE down \cup {id}
    BY DEF Form!ServerHandles
  <1>2. /\ id \in up /\ up' = up \ {id}
        /\ UNCHANGED <<orderType, filled, quantity, leverage, trailing, price, balance, submitting,
                       lastMsg, clears, orders, promise>>
    BY DEF Form!ServerHandles, Form!form, Form!props
  <1>3. r \in {"FILLED", "PENDING", "REJECTED", "error"} BY DEF Form!Outcomes
  <1>4. FormFields' /\ FormOrders' /\ OnlyTheNewestIsOpen'
    BY <1>2 DEF FormInv, FormFields, FormOrders, OnlyTheNewestIsOpen, Form!TrailingOnlyWithFlag
  <1>5. ResultsAreFinal'
    <2>1. result' \in [Form!Ids -> {"none", "FILLED", "PENDING", "REJECTED", "error"}]
      BY <1>1, <1>3 DEF FormInv, ResultsAreFinal
    <2>2. /\ result[id] = "none" /\ result'[id] = r /\ promise[id] \notin {"none", "queued"}
          /\ \A i \in Form!Ids : i # id => result'[i] = result[i]
      BY <1>1, <1>2, <1>3 DEF FormInv, ResultsAreFinal
    <2>3. up' \subseteq 1 .. Len(orders') /\ down' \subseteq 1 .. Len(orders')
      BY <1>1, <1>2 DEF FormInv, ResultsAreFinal
    <2>4. \A i \in Form!Ids : promise'[i] \in {"none", "queued"} => result'[i] = "none" /\ i \notin up'
      BY <1>2, <2>2 DEF FormInv, ResultsAreFinal
    <2>5. up' \subseteq Form!Ids /\ down \subseteq Form!Ids
      BY <1>2, FormAssumption DEF FormInv, FormOrders, ResultsAreFinal, Form!Ids
    <2>6. \A i \in up' : result'[i] = "none" BY <1>2, <2>2, <2>5 DEF FormInv, ResultsAreFinal
    <2>7. \A i \in down' : result'[i] \in {"FILLED", "PENDING", "REJECTED"}
      BY <1>1, <1>3, <2>2, <2>5 DEF FormInv, ResultsAreFinal
    <2>8. lastMsg.text \in Told => lastMsg.id # id /\ result'[lastMsg.id] = result[lastMsg.id]
      BY <2>2 DEF FormInv, ResultsAreFinal
    <2> QED BY <1>2, <2>1, <2>3, <2>4, <2>6, <2>7, <2>8 DEF FormInv, ResultsAreFinal
  <1> QED BY <1>4, <1>5 DEF FormInv

\* What handleSubmit does after its await, for an order that is still open.
LEMMA FormAnswered ==
  ASSUME FormInv, NEW id \in Form!Ids, NEW st, promise[id] \in {"queued", "timed"},
         Form!Answered(id, st),
         st = "none" \/ (st \in {"FILLED", "PENDING", "REJECTED"} /\ result[id] = st),
         UNCHANGED <<orderType, filled, quantity, leverage, trailing, price, balance, orders, up, result>>,
         down' \subseteq down,
         st = "none" => promise[id] = "timed"
  PROVE  FormInv'
  <1>1. /\ promise' = [promise EXCEPT ![id] = "done"] /\ ~submitting' /\ clears' = clears + 1
        /\ lastMsg' = [text |-> Form!Texts[st], id |-> id]
    BY DEF Form!Answered
  <1>2. Len(orders) \in Nat /\ id = Len(orders) /\ submitting
    BY DEF FormInv, FormOrders, OnlyTheNewestIsOpen, Form!Ids
  <1>3. FormFields' /\ FormOrders'
    BY DEF FormInv, FormFields, FormOrders, Form!TrailingOnlyWithFlag
  <1>4. OnlyTheNewestIsOpen'
    BY <1>1, <1>2 DEF FormInv, OnlyTheNewestIsOpen, Form!Ids
  <1>5. ResultsAreFinal'
    BY <1>1, <1>2 DEF FormInv, ResultsAreFinal, Told, Form!Texts
  <1> QED BY <1>3, <1>4, <1>5 DEF FormInv

\* An answer settles its own order if that is still open, and nothing else.
LEMMA FormAck ==
  ASSUME FormInv, NEW id \in Form!Ids, Form!AckArrives(id) PROVE FormInv'
  <1>1. /\ id \in down /\ down' = down \ {id}
        /\ UNCHANGED <<orderType, filled, quantity, leverage, trailing, price, balance, orders, up, result>>
    BY DEF Form!AckArrives, Form!form, Form!props
  <1>2. CASE promise[id] \in {"queued", "timed"}
    <2>1. Form!Answered(id, result[id])
      BY <1>2, FormAssumption DEF Form!AckArrives, Form!Resolved, Form!Ids
    <2>2. result[id] \in {"FILLED", "PENDING", "REJECTED"}
      BY <1>1 DEF FormInv, ResultsAreFinal
    <2> QED BY <1>1, <1>2, <2>1, <2>2, FormAnswered
  <1>3. CASE promise[id] \notin {"queued", "timed"}
    <2>1. UNCHANGED <<promise, lastMsg, submitting, clears>>
      BY <1>3 DEF Form!AckArrives, Form!Resolved
    <2> QED
      BY <1>1, <2>1 DEF FormInv, FormFields, FormOrders, OnlyTheNewestIsOpen, ResultsAreFinal,
                        Form!TrailingOnlyWithFlag
  <1> QED BY <1>2, <1>3

\* The timer of an order that was sent runs off.
LEMMA FormTimeout ==
  ASSUME FormInv, NEW id \in Form!Ids, Form!AckTimeout(id) PROVE FormInv'
  <1>1. /\ promise[id] = "timed" /\ Form!Answered(id, "none")
        /\ UNCHANGED <<orderType, filled, quantity, leverage, trailing, price, balance, orders, up, down,
                       result>>
    BY DEF Form!AckTimeout, Form!form, Form!props
  <1> QED BY <1>1, FormAnswered

\* The socket dies, with answers and some of the orders on it.
LEMMA FormDrop ==
  ASSUME FormInv, Form!Drop PROVE FormInv'
  <1>1. /\ up' \subseteq up /\ down' = {}
        /\ UNCHANGED <<orderType, filled, quantity, leverage, trailing, price, balance, submitting,
                       lastMsg, clears, orders, promise, result>>
    BY DEF Form!Drop, Form!form
  <1> QED
    BY <1>1 DEF FormInv, FormFields, FormOrders, OnlyTheNewestIsOpen, ResultsAreFinal,
                Form!TrailingOnlyWithFlag

\* The queue goes out on the new socket.
LEMMA FormReopen ==
  ASSUME FormInv, Form!Reopen PROVE FormInv'
  <1>1. /\ up' = up \cup {i \in Form!Ids : promise[i] = "queued"}
        /\ promise' = [i \in Form!Ids |-> IF promise[i] = "queued" THEN "timed" ELSE promise[i]]
        /\ UNCHANGED <<orderType, filled, quantity, leverage, trailing, price, balance, submitting,
                       lastMsg, clears, orders, down, result>>
    BY DEF Form!Reopen, Form!form, Form!TimedOnOpen
  <1>2. FormFields' /\ FormOrders'
    BY <1>1 DEF FormInv, FormFields, FormOrders, Form!TrailingOnlyWithFlag
  <1>3. OnlyTheNewestIsOpen'
    BY <1>1 DEF FormInv, FormOrders, OnlyTheNewestIsOpen, Form!Ids
  <1>4. Len(orders) \in Nat BY DEF FormInv, FormOrders
  <1>5. ResultsAreFinal'
    <2>1. \A i \in Form!Ids : promise[i] = "queued" => i \in 1 .. Len(orders) /\ result[i] = "none"
      BY <1>4 DEF FormInv, OnlyTheNewestIsOpen, ResultsAreFinal, Form!Ids
    <2>2. up' \subseteq 1 .. Len(orders') /\ down' \subseteq 1 .. Len(orders')
      BY <1>1, <2>1 DEF FormInv, ResultsAreFinal
    <2>3. \A i \in Form!Ids : promise'[i] \in {"none", "queued"} => promise'[i] = "none" /\ promise[i] = "none"
      BY <1>1
    <2>4. \A i \in Form!Ids : promise'[i] \in {"none", "queued"} => result'[i] = "none" /\ i \notin up'
      BY <1>1, <2>3 DEF FormInv, ResultsAreFinal
    <2>5. \A i \in up' : result'[i] = "none" BY <1>1, <2>1 DEF FormInv, ResultsAreFinal
    <2> QED BY <1>1, <2>2, <2>4, <2>5 DEF FormInv, ResultsAreFinal
  <1> QED BY <1>2, <1>3, <1>5 DEF FormInv

LEMMA FormStep == ASSUME FormInv, Form!Next PROVE FormInv'
  BY FormTyping, FormSubmits, FormClears, FormServer, FormAck, FormTimeout, FormDrop, FormReopen
  DEF Form!Next

\* What the invariant says of the form in its own words.
LEMMA FormIsSound ==
  FormInv => Form!TypeOK /\ Form!OneOrderUnderWay /\ Form!AnswerIsItsOwn /\ Form!TrailingOnlyWithFlag
  <1> SUFFICES ASSUME FormInv
               PROVE  Form!TypeOK /\ Form!OneOrderUnderWay /\ Form!AnswerIsItsOwn
                      /\ Form!TrailingOnlyWithFlag
    OBVIOUS
  <1>1. Len(orders) \in Nat /\ Len(orders) <= MaxSubmits /\ Form!TrailingOnlyWithFlag
    BY DEF FormInv, FormOrders
  <1>2. \A i \in Form!Ids : promise[i] \in {"queued", "timed"} <=> i = Len(orders) /\ submitting
    BY <1>1, FormAssumption DEF FormInv, OnlyTheNewestIsOpen, Form!Ids
  <1>3. submitting => Len(orders) \in Form!Ids
    BY <1>1, FormAssumption DEF FormInv, OnlyTheNewestIsOpen, Form!Ids
  <1>4. Form!Open = {i \in Form!Ids : i = Len(orders) /\ submitting} BY <1>2 DEF Form!Open
  <1>5. submitting <=> Form!Open # {} BY <1>3, <1>4
  <1>6. Form!OneOrderUnderWay BY <1>4 DEF Form!OneOrderUnderWay
  <1>7. Form!AnswerIsItsOwn BY DEF Form!AnswerIsItsOwn, FormInv, ResultsAreFinal, Told
  <1>8. clears \in 0 .. MaxSubmits BY <1>1, FormAssumption DEF FormInv, OnlyTheNewestIsOpen
  <1>9. /\ orderType \in Form!Types /\ filled \subseteq Fields /\ quantity \in Nat /\ leverage \in Leverages
        /\ price \in Prices /\ balance \in Balances
    BY DEF FormInv, FormFields
  <1>10. up \subseteq 1 .. Len(orders) /\ down \subseteq 1 .. Len(orders)
    BY DEF FormInv, ResultsAreFinal
  <1>11. Form!TypeOK BY <1>1, <1>5, <1>8, <1>9, <1>10 DEF Form!TypeOK
  <1> QED BY <1>1, <1>6, <1>7, <1>11

-----------------------------------------------------------------------------
(* The journal. *)

Entries == [note : Journal!Notes, tags : SUBSET Tags]
OneJournal == [Journal!Keys -> Entries]

JournalTyped ==
  /\ closed \in 0 .. MaxTrades /\ journalMounted \subseteq Journal!Views
  /\ storage \in OneJournal /\ data \in [Journal!Views -> OneJournal]
  /\ draft \in [Journal!Views -> Entries] /\ editing \in [Journal!Views -> 0 .. closed]
  /\ saved \in OneJournal /\ unseen \in [Journal!Views -> SUBSET Journal!Keys]

(***************************************************************************)
(* A view's whole copy may become the journal: of every key that is not    *)
(* lost the storage has what was saved, and so has the copy of a view that *)
(* was not on the page when the key was saved elsewhere.                   *)
(***************************************************************************)
CopiesAreGood ==
  \A v \in journalMounted : \A k \in Journal!Keys \ (lost \cup unseen[v]) : data[v][k].note = saved[k].note

JournalInv == JournalTyped /\ Journal!SavedIsStored /\ CopiesAreGood

LEMMA JournalInit == Journal!Init => JournalInv
  <1> SUFFICES ASSUME Journal!Init PROVE JournalInv OBVIOUS
  <1>1. [note |-> {}, tags |-> {}] \in Entries BY DEF Entries, Journal!Notes
  <1>2. Journal!Empty \in OneJournal BY <1>1 DEF Journal!Empty, OneJournal, Journal!NoEntry
  <1>3. JournalTyped
    BY <1>1, <1>2, JournalAssumption DEF Journal!Init, JournalTyped, Journal!NoEntry
  <1>4. Journal!SavedIsStored BY DEF Journal!Init, Journal!SavedIsStored
  <1>5. CopiesAreGood BY DEF Journal!Init, CopiesAreGood
  <1> QED BY <1>3, <1>4, <1>5 DEF JournalInv

LEMMA KeyIsKey == \A v \in Journal!Views, t \in Journal!Trades : Journal!Key(v, t) \in Journal!Keys
  BY DEF Journal!Key, Journal!Keys

\* A note is stored as it was saved: one without text is empty, and so is no entry.
LEMMA StoredKeepsNote ==
  ASSUME NEW e \in Entries
  PROVE  Journal!Stored(e) \in Entries /\ Journal!Stored(e).note = e.note
  BY DEF Entries, Journal!Stored, Journal!NoEntry, Journal!Notes

\* A save changes one entry of the view's copy, and the copy becomes the journal unless
\* the write fails.
LEMMA JournalSaves ==
  ASSUME JournalInv, NEW v \in journalMounted, NEW t \in Journal!Trades, NEW e \in Entries,
         NEW written \in BOOLEAN, Journal!Save(v, t, e, written), UNCHANGED <<closed, journalMounted>>
  PROVE  /\ storage' \in OneJournal /\ data' \in [Journal!Views -> OneJournal] /\ saved' \in OneJournal
         /\ unseen' \in [Journal!Views -> SUBSET Journal!Keys]
         /\ Journal!SavedIsStored' /\ CopiesAreGood'
  <1> DEFINE k == Journal!Key(v, t)
             d == [data[v] EXCEPT ![k] = Journal!Stored(e)]
  <1>1. /\ v \in Journal!Views /\ data[v] \in OneJournal /\ storage \in OneJournal /\ saved \in OneJournal
        /\ data \in [Journal!Views -> OneJournal] /\ unseen \in [Journal!Views -> SUBSET Journal!Keys]
        /\ journalMounted \subseteq Journal!Views
    BY DEF JournalInv, JournalTyped
  <1>2. k \in Journal!Keys BY <1>1, KeyIsKey
  <1>3. /\ data' = [data EXCEPT ![v] = d] /\ storage' = (IF written THEN d ELSE storage)
        /\ saved' = [saved EXCEPT ![k] = e]
        /\ unseen' = [w \in Journal!Views |-> IF w = v THEN unseen[w] \ {k}
                                              ELSE IF w \in journalMounted THEN unseen[w] \cup {k} ELSE unseen[w]]
        /\ lost' = (IF written THEN (lost \cup unseen[v]) \ {k} ELSE lost \cup {k})
    BY DEF Journal!Save
  <1>4. d \in OneJournal /\ d[k].note = e.note /\ \A j \in Journal!Keys : j # k => d[j] = data[v][j]
    BY <1>1, <1>2, StoredKeepsNote DEF OneJournal
  <1> HIDE DEF k, d
  <1>5. /\ storage' \in OneJournal /\ data' \in [Journal!Views -> OneJournal] /\ saved' \in OneJournal
        /\ unseen' \in [Journal!Views -> SUBSET Journal!Keys]
    <2>1. storage' \in OneJournal /\ data' \in [Journal!Views -> OneJournal] BY <1>1, <1>3, <1>4
    <2>2. saved' \in OneJournal BY <1>1, <1>2, <1>3 DEF OneJournal
    <2>3. unseen' \in [Journal!Views -> SUBSET Journal!Keys] BY <1>1, <1>2, <1>3
    <2> QED BY <2>1, <2>2, <2>3
  <1>6. saved'[k] = e /\ \A j \in Journal!Keys : j # k => saved'[j] = saved[j]
    BY <1>1, <1>2, <1>3 DEF OneJournal
  <1>7. ASSUME NEW j \in Journal!Keys, j \notin lost' PROVE storage'[j].note = saved'[j].note
    <2>1. CASE ~written
      <3>1. storage' = storage /\ j # k /\ j \notin lost BY <1>3, <1>7, <2>1
      <3>2. storage[j].note = saved[j].note BY <3>1 DEF JournalInv, Journal!SavedIsStored
      <3> QED BY <1>6, <3>1, <3>2
    <2>2. CASE written /\ j = k BY <1>3, <1>4, <1>6, <2>2
    <2>3. CASE written /\ j # k
      <3>1. storage' = d /\ j \notin lost \cup unseen[v] BY <1>3, <1>7, <2>3
      <3>2. data[v][j].note = saved[j].note BY <3>1 DEF JournalInv, CopiesAreGood
      <3> QED BY <1>4, <1>6, <2>3, <3>1, <3>2
    <2> QED BY <2>1, <2>2, <2>3
  <1>8. ASSUME NEW w \in journalMounted, NEW j \in Journal!Keys, j \notin lost' \cup unseen'[w]
        PROVE  data'[w][j].note = saved'[j].note
    <2>1. CASE w = v
      <3>1. data'[w] = d BY <1>1, <1>3, <2>1
      <3>2. CASE j = k BY <1>4, <1>6, <3>1, <3>2
      <3>3. CASE j # k
        <4>1. j \notin lost \cup unseen[v] BY <1>1, <1>3, <1>8, <2>1, <3>3
        <4>2. data[v][j].note = saved[j].note BY <4>1 DEF JournalInv, CopiesAreGood
        <4> QED BY <1>4, <1>6, <3>1, <3>3, <4>2
      <3> QED BY <3>2, <3>3
    <2>2. CASE w # v
      <3>1. data'[w] = data[w] /\ unseen'[w] = unseen[w] \cup {k} BY <1>1, <1>3, <2>2
      <3>2. j # k /\ j \notin lost \cup unseen[w] BY <1>3, <1>8, <3>1
      <3>3. data[w][j].note = saved[j].note BY <3>2 DEF JournalInv, CopiesAreGood
      <3> QED BY <1>6, <3>1, <3>2, <3>3
    <2> QED BY <2>1, <2>2
  <1>9. Journal!SavedIsStored' BY <1>7 DEF Journal!SavedIsStored, Journal!Keys, Journal!Trades
  <1>10. CopiesAreGood' BY <1>8 DEF CopiesAreGood, Journal!Keys, Journal!Trades
  <1> QED BY <1>5, <1>9, <1>10

\* The Save button of a view.
LEMMA JournalSaveClick ==
  ASSUME JournalInv, NEW v \in Journal!Views, Journal!SaveClick(v) PROVE JournalInv'
  <1> DEFINE t == editing[v]  e == Journal!Written(v)
  <1>1. /\ v \in journalMounted /\ t # 0 /\ editing' = [editing EXCEPT ![v] = 0]
        /\ draft' = IF v = "journal" THEN [draft EXCEPT ![v] = Journal!NoEntry] ELSE draft
        /\ UNCHANGED <<closed, journalMounted>>
    BY DEF Journal!SaveClick, Journal!Editor
  <1>7. PICK written \in BOOLEAN : Journal!Save(v, t, e, written) BY DEF Journal!SaveClick
  <1>2. t \in Journal!Trades
    BY <1>1, JournalAssumption DEF JournalInv, JournalTyped, Journal!Trades
  <1>3. e \in Entries
    <2>1. draft[v] \in Entries /\ data[v] \in OneJournal BY DEF JournalInv, JournalTyped
    <2>2. Journal!Entry(v, t) \in Entries
      BY <1>2, <2>1, KeyIsKey DEF Journal!Entry, OneJournal
    <2>3. [draft[v] EXCEPT !.tags = Journal!Entry(v, t).tags] \in Entries
      BY <2>1, <2>2 DEF Entries
    <2> QED BY <2>1, <2>3 DEF Journal!Written
  <1>4. /\ storage' \in OneJournal /\ data' \in [Journal!Views -> OneJournal] /\ saved' \in OneJournal
        /\ unseen' \in [Journal!Views -> SUBSET Journal!Keys] /\ Journal!SavedIsStored' /\ CopiesAreGood'
    BY <1>1, <1>2, <1>3, <1>7, JournalSaves
  <1>5. draft' \in [Journal!Views -> Entries]
    BY <1>1 DEF JournalInv, JournalTyped, Journal!NoEntry, Entries, Journal!Notes
  <1>6. editing' \in [Journal!Views -> 0 .. closed'] BY <1>1 DEF JournalInv, JournalTyped
  <1> QED BY <1>1, <1>4, <1>5, <1>6 DEF JournalInv, JournalTyped

\* The Delete button of the history.
LEMMA JournalDeleteClick ==
  ASSUME JournalInv, NEW v \in Journal!Views, Journal!DeleteClick(v) PROVE JournalInv'
  <1> DEFINE t == editing[v]
  <1>1. /\ v \in journalMounted /\ t # 0 /\ editing' = [editing EXCEPT ![v] = 0]
        /\ draft' = [draft EXCEPT ![v] = Journal!NoEntry]
        /\ UNCHANGED <<closed, journalMounted>>
    BY DEF Journal!DeleteClick, Journal!Editor
  <1>7. PICK written \in BOOLEAN : Journal!Save(v, t, Journal!NoEntry, written) BY DEF Journal!DeleteClick
  <1>2. t \in Journal!Trades
    BY <1>1, JournalAssumption DEF JournalInv, JournalTyped, Journal!Trades
  <1>3. Journal!NoEntry \in Entries BY DEF Journal!NoEntry, Entries, Journal!Notes
  <1>4. /\ storage' \in OneJournal /\ data' \in [Journal!Views -> OneJournal] /\ saved' \in OneJournal
        /\ unseen' \in [Journal!Views -> SUBSET Journal!Keys] /\ Journal!SavedIsStored' /\ CopiesAreGood'
    BY <1>1, <1>2, <1>3, <1>7, JournalSaves
  <1>5. draft' \in [Journal!Views -> Entries] BY <1>1, <1>3 DEF JournalInv, JournalTyped
  <1>6. editing' \in [Journal!Views -> 0 .. closed'] BY <1>1 DEF JournalInv, JournalTyped
  <1> QED BY <1>1, <1>4, <1>5, <1>6 DEF JournalInv, JournalTyped

\* A view appears, with a copy of what is stored.
LEMMA JournalMounts ==
  ASSUME JournalInv, NEW v \in Journal!Views, Journal!Mount(v) PROVE JournalInv'
  <1>1. /\ journalMounted' = journalMounted \cup {v} /\ data' = [data EXCEPT ![v] = storage]
        /\ editing' = [editing EXCEPT ![v] = 0] /\ draft' = [draft EXCEPT ![v] = Journal!NoEntry]
        /\ unseen' = [unseen EXCEPT ![v] = {}] /\ UNCHANGED <<closed, storage, saved, lost>>
    BY DEF Journal!Mount
  <1>2. Journal!NoEntry \in Entries BY DEF Journal!NoEntry, Entries, Journal!Notes
  <1>3. JournalTyped' BY <1>1, <1>2 DEF JournalInv, JournalTyped
  <1>4. Journal!SavedIsStored' BY <1>1 DEF JournalInv, Journal!SavedIsStored, Journal!Keys, Journal!Trades
  <1>5. CopiesAreGood'
    <2>1. SUFFICES ASSUME NEW w \in journalMounted', NEW k \in Journal!Keys, k \notin lost \cup unseen'[w]
                   PROVE  data'[w][k].note = saved[k].note
      BY <1>1 DEF CopiesAreGood, Journal!Keys, Journal!Trades
    <2>2. CASE w = v
      <3>1. data'[w] = storage BY <1>1, <2>2 DEF JournalInv, JournalTyped
      <3> QED BY <2>1, <3>1 DEF JournalInv, Journal!SavedIsStored
    <2>3. CASE w # v
      <3>1. w \in journalMounted /\ data'[w] = data[w] /\ unseen'[w] = unseen[w]
        BY <1>1, <2>3 DEF JournalInv, JournalTyped
      <3> QED BY <2>1, <3>1 DEF JournalInv, CopiesAreGood
    <2> QED BY <2>2, <2>3
  <1> QED BY <1>3, <1>4, <1>5 DEF JournalInv

\* What is typed or selected stays in the editor until it is saved.
LEMMA JournalEdits ==
  ASSUME JournalInv,
         \/ \E v \in Journal!Views : \/ \E t \in Journal!Trades : Journal!ToggleEditor(v, t)
                                     \/ \E n \in Journal!Notes : Journal!TypeNote(v, n)
         \/ \E g \in Tags : Journal!toggleTag(g)
  PROVE  JournalInv'
  <1>2. UNCHANGED <<closed, journalMounted, storage, data, saved, unseen, lost>>
    BY DEF Journal!ToggleEditor, Journal!TypeNote, Journal!toggleTag, Journal!notes
  <1>1. Journal!SavedIsStored' /\ CopiesAreGood'
    BY <1>2 DEF JournalInv, CopiesAreGood, Journal!SavedIsStored, Journal!Keys, Journal!Trades
  <1>3. draft' \in [Journal!Views -> Entries] /\ editing' \in [Journal!Views -> 0 .. closed]
    <2>1. ASSUME NEW v \in Journal!Views, NEW t \in Journal!Trades, Journal!ToggleEditor(v, t)
          PROVE  draft' \in [Journal!Views -> Entries] /\ editing' \in [Journal!Views -> 0 .. closed]
      <3>1. v \in journalMounted /\ t \in 1 .. closed
        BY <2>1 DEF Journal!ToggleEditor, Journal!Listed, Journal!filteredTrades, Journal!allTrades
      <3>2. Journal!Entry(v, t) \in Entries
        BY <3>1, KeyIsKey DEF JournalInv, JournalTyped, Journal!Entry, OneJournal
      <3> QED BY <2>1, <3>1, <3>2 DEF Journal!ToggleEditor, JournalInv, JournalTyped
    <2>2. ASSUME NEW v \in Journal!Views, NEW n \in Journal!Notes, Journal!TypeNote(v, n)
          PROVE  draft' \in [Journal!Views -> Entries] /\ editing' \in [Journal!Views -> 0 .. closed]
      BY <2>2 DEF Journal!TypeNote, JournalInv, JournalTyped, Entries
    <2>3. ASSUME NEW g \in Tags, Journal!toggleTag(g)
          PROVE  draft' \in [Journal!Views -> Entries] /\ editing' \in [Journal!Views -> 0 .. closed]
      <3>1. "journal" \in Journal!Views BY DEF Journal!Views
      <3>2. draft["journal"].tags \subseteq Tags /\ draft["journal"] \in Entries
        BY <3>1 DEF JournalInv, JournalTyped, Entries
      <3> DEFINE ts == IF g \in draft["journal"].tags THEN draft["journal"].tags \ {g}
                       ELSE draft["journal"].tags \cup {g}
      <3>3. draft' = [draft EXCEPT !["journal"].tags = ts] /\ UNCHANGED editing
        BY <2>3 DEF Journal!toggleTag
      <3>4. ts \subseteq Tags BY <3>2
      <3> HIDE DEF ts
      <3>5. [draft["journal"] EXCEPT !.tags = ts] \in Entries BY <3>2, <3>4 DEF Entries
      <3> QED BY <3>1, <3>3, <3>5 DEF JournalInv, JournalTyped
    <2> QED BY <2>1, <2>2, <2>3
  <1> QED BY <1>1, <1>2, <1>3 DEF JournalInv, JournalTyped

\* Trades close, views leave, filters are set.
LEMMA JournalOther ==
  ASSUME JournalInv,
         \/ Journal!TradeCloses \/ \E v \in Journal!Views : Journal!Unmount(v)
         \/ \E g \in Tags \cup {"none"}, w \in {"all", "win", "loss"} : Journal!SetFilter(g, w)
  PROVE  JournalInv'
  <1>1. /\ journalMounted' \subseteq journalMounted /\ UNCHANGED <<data, storage, editing, draft, saved, unseen, lost>>
        /\ closed' = closed \/ (closed < MaxTrades /\ closed' = closed + 1)
    BY DEF Journal!TradeCloses, Journal!Unmount, Journal!SetFilter, Journal!notes
  <1>2. Journal!SavedIsStored' /\ CopiesAreGood'
    BY <1>1 DEF JournalInv, CopiesAreGood, Journal!SavedIsStored, Journal!Keys, Journal!Trades
  <1>3. closed' \in 0 .. MaxTrades /\ 0 .. closed \subseteq 0 .. closed'
    BY <1>1, JournalAssumption DEF JournalInv, JournalTyped
  <1>4. editing' \in [Journal!Views -> 0 .. closed']
    <2>1. DOMAIN editing = Journal!Views /\ \A v \in Journal!Views : editing[v] \in 0 .. closed'
      BY <1>3 DEF JournalInv, JournalTyped
    <2> QED BY <1>1, <2>1 DEF JournalInv, JournalTyped
  <1> QED BY <1>1, <1>2, <1>3, <1>4 DEF JournalInv, JournalTyped

LEMMA JournalStep == ASSUME JournalInv, Journal!Next PROVE JournalInv'
  BY JournalSaveClick, JournalDeleteClick, JournalMounts, JournalEdits, JournalOther DEF Journal!Next

\* What the invariant says of the journal in its own words.
LEMMA JournalIsSound ==
  JournalInv => /\ Journal!TypeOK /\ Journal!SavedIsStored /\ Journal!SavedIsShown
                /\ Journal!CsvIsTable
  <1> SUFFICES ASSUME JournalInv
               PROVE  Journal!TypeOK /\ Journal!SavedIsStored /\ Journal!SavedIsShown /\ Journal!CsvIsTable
    OBVIOUS
  <1>1. Journal!TypeOK
    BY DEF JournalInv, JournalTyped, Journal!TypeOK, OneJournal, Entries
  <1>2. Journal!SavedIsShown
    BY KeyIsKey DEF JournalInv, JournalTyped, CopiesAreGood, Journal!SavedIsShown, Journal!Entry
  <1>3. Journal!CsvIsTable BY DEF Journal!CsvIsTable, Journal!ExportRow, Journal!Escaped
  <1> QED BY <1>1, <1>2, <1>3 DEF JournalInv

-----------------------------------------------------------------------------
(* Saved backtests.  TwoTabs and OneTab differ in the tabs, the bounds and   *)
(* whether a write may fail; T are the tabs of either.                       *)

BacktestIds == 1 .. MaxSaves
Kept == {s \in Seq(BacktestIds) : Len(s) <= Keep}

ListsTyped(T) ==
  /\ store \in Kept /\ btSaved \in [T -> Kept] /\ rows \in [T -> Kept]
  /\ event \in [T -> BOOLEAN] /\ unsaved \in [T -> BOOLEAN] /\ saves \in 0 .. MaxSaves

ChoicesTyped(T, N, M) ==
  /\ ticked \in [T -> SUBSET BacktestIds] /\ rowsTicked \in [T -> SUBSET (BacktestIds \X N)]
  /\ compare \in [T -> [loading : BOOLEAN, timers : 0 .. M, inFlight : BOOLEAN]]

Shown(T) == \A t \in T : ~event[t] => rows[t] = store /\ (~unsaved[t] => btSaved[t] = store)

SavedInv(T, N, M) == ListsTyped(T) /\ ChoicesTyped(T, N, M) /\ Shown(T)

\* A part of a list.
LEMMA PartOfList ==
  ASSUME NEW S, NEW s \in Seq(S), NEW m \in Nat \ {0}, NEW n \in Nat, n <= Len(s)
  PROVE  /\ SubSeq(s, m, n) \in Seq(S) /\ Len(s) \in Nat
         /\ Len(SubSeq(s, m, n)) = (IF m <= n THEN n - m + 1 ELSE 0)
         /\ \A k \in m .. n : SubSeq(s, m, n)[k - m + 1] = s[k]
         /\ \A k \in 1 .. Len(SubSeq(s, m, n)) : k + m - 1 \in 1 .. Len(s) /\ SubSeq(s, m, n)[k] = s[k + m - 1]
  <1>1. SubSeq(s, m, n) \in Seq(S) /\ Len(s) \in Nat OBVIOUS
  <1>2. Len(SubSeq(s, m, n)) = (IF m <= n THEN n - m + 1 ELSE 0) OBVIOUS
  <1>3. \A k \in m .. n : SubSeq(s, m, n)[k - m + 1] = s[k] OBVIOUS
  <1>4. \A k \in 1 .. Len(SubSeq(s, m, n)) : k + m - 1 \in 1 .. Len(s) /\ SubSeq(s, m, n)[k] = s[k + m - 1]
    BY <1>2
  <1> QED BY <1>1, <1>2, <1>3, <1>4

\* Cutting a list to the last Keep.
LEMMA KeepLastFacts ==
  ASSUME NEW s \in Seq(BacktestIds)
  PROVE  TwoTabs!KeepLast(s) \in Kept /\ OneTab!KeepLast(s) = TwoTabs!KeepLast(s)
  <1> DEFINE m == IF Len(s) > Keep THEN Len(s) - Keep + 1 ELSE 1
  <1>1. m \in Nat \ {0} /\ Len(s) \in Nat BY TabsAssumption
  <1>2. SubSeq(s, m, Len(s)) \in Seq(BacktestIds)
        /\ Len(SubSeq(s, m, Len(s))) = (IF m <= Len(s) THEN Len(s) - m + 1 ELSE 0)
    BY <1>1, PartOfList
  <1>3. Len(SubSeq(s, m, Len(s))) <= Keep BY <1>1, <1>2, TabsAssumption
  <1> QED BY <1>2, <1>3 DEF TwoTabs!KeepLast, OneTab!KeepLast, Kept

\* Two lists in one.
LEMMA JoinedPlaces ==
  ASSUME NEW S, NEW s \in Seq(S), NEW t \in Seq(S)
  PROVE  /\ s \o t \in Seq(S) /\ Len(s \o t) = Len(s) + Len(t) /\ Len(s) \in Nat /\ Len(t) \in Nat
         /\ \A i \in 1 .. Len(s) : (s \o t)[i] = s[i]
         /\ \A i \in 1 .. Len(t) : (s \o t)[Len(s) + i] = t[i]
         /\ \A i \in 1 .. Len(s \o t) : i \in 1 .. Len(s) \/ i - Len(s) \in 1 .. Len(t)
  <1>1. s \o t \in Seq(S) /\ Len(s \o t) = Len(s) + Len(t) /\ Len(s) \in Nat /\ Len(t) \in Nat OBVIOUS
  <1>2. \A i \in 1 .. Len(s) : (s \o t)[i] = s[i] OBVIOUS
  <1>3. ASSUME NEW i \in 1 .. Len(t) PROVE (s \o t)[Len(s) + i] = t[i]
    <2>1. Len(s) + i \in 1 .. Len(s) + Len(t) /\ ~(Len(s) + i <= Len(s)) /\ Len(s) + i - Len(s) = i BY <1>1
    <2> QED BY <1>1, <2>1
  <1> QED BY <1>1, <1>2, <1>3

\* A list without its element at k: those before it, then those after it.
LEMMA RemoveAtPlaces ==
  ASSUME NEW S, NEW s \in Seq(S), NEW k \in 1 .. Len(s)
  PROVE  /\ RemoveAt(s, k) \in Seq(S) /\ Len(RemoveAt(s, k)) = Len(s) - 1
         /\ \A i \in 1 .. Len(s) - 1 : RemoveAt(s, k)[i] = s[IF i < k THEN i ELSE i + 1]
  <1> DEFINE a == SubSeq(s, 1, k - 1)  b == SubSeq(s, k + 1, Len(s))
  <1>1. Len(s) \in Nat /\ k \in Nat OBVIOUS
  <1>2. a \in Seq(S) /\ Len(a) = k - 1 /\ \A i \in 1 .. k - 1 : a[i] = s[i] BY <1>1
  <1>3. b \in Seq(S) /\ Len(b) = Len(s) - k /\ \A i \in 1 .. Len(s) - k : b[i] = s[i + k]
    <2>1. b \in Seq(S) /\ Len(b) = Len(s) - k BY <1>1
    <2>2. ASSUME NEW i \in 1 .. Len(s) - k PROVE b[i] = s[i + k]
      <3>1. i \in 1 .. Len(b) /\ (k + 1) + i - 1 = i + k BY <1>1, <2>1
      <3> QED BY <1>1, <2>1, <3>1
    <2> QED BY <2>1, <2>2
  <1>4. RemoveAt(s, k) = a \o b BY DEF RemoveAt
  <1> HIDE DEF a, b
  <1>5. a \o b \in Seq(S) /\ Len(a \o b) = Len(s) - 1
    <2>1. a \o b \in Seq(S) /\ Len(a \o b) = Len(a) + Len(b) BY <1>2, <1>3, ConcatProperties
    <2> QED BY <1>1, <1>2, <1>3, <2>1
  <1>6. ASSUME NEW i \in 1 .. Len(s) - 1 PROVE (a \o b)[i] = s[IF i < k THEN i ELSE i + 1]
    <2>1. CASE i < k
      <3>1. i \in 1 .. Len(a) BY <1>1, <1>2, <2>1
      <3>2. (a \o b)[i] = a[i] BY <1>2, <1>3, <3>1
      <3> QED BY <1>1, <1>2, <2>1, <3>2
    <2>2. CASE ~(i < k)
      <3>1. i - (k - 1) \in 1 .. Len(s) - k /\ (i - (k - 1)) + k = i + 1
        BY <1>1, <1>2, <1>3, <2>2
      <3>2. \A j \in 1 .. Len(b) : (a \o b)[Len(a) + j] = b[j]
        <4>1. a \in Seq(S) /\ b \in Seq(S) BY <1>2, <1>3
        <4> QED BY ONLY <4>1, JoinedPlaces
      <3>3. i - (k - 1) \in 1 .. Len(b) /\ Len(a) + (i - (k - 1)) = i BY <1>1, <1>2, <1>3, <3>1
      <3>4. (a \o b)[i] = b[i - (k - 1)] BY <3>2, <3>3
      <3> QED BY <1>3, <2>2, <3>1, <3>4
    <2> QED BY <2>1, <2>2
  <1> QED BY <1>4, <1>5, <1>6

\* Taking one element out of a list leaves all others.
LEMMA RemoveAtFacts ==
  ASSUME NEW S, NEW s \in Seq(S), NEW k \in 1 .. Len(s)
  PROVE  /\ RemoveAt(s, k) \in Seq(S) /\ Len(RemoveAt(s, k)) = Len(s) - 1
         /\ \A i \in 1 .. Len(s) : i # k => \E j \in 1 .. Len(s) - 1 : RemoveAt(s, k)[j] = s[i]
  <1>1. /\ RemoveAt(s, k) \in Seq(S) /\ Len(RemoveAt(s, k)) = Len(s) - 1
        /\ \A i \in 1 .. Len(s) - 1 : RemoveAt(s, k)[i] = s[IF i < k THEN i ELSE i + 1]
    BY RemoveAtPlaces
  <1> DEFINE r == RemoveAt(s, k)
  <1> HIDE DEF r
  <1>2. ASSUME NEW i \in 1 .. Len(s), i # k PROVE \E j \in 1 .. Len(s) - 1 : r[j] = s[i]
    <2>1. CASE i < k
      <3>1. i \in 1 .. Len(s) - 1 BY <2>1
      <3> QED BY <1>1, <2>1, <3>1 DEF r
    <2>2. CASE i > k
      <3>1. i - 1 \in 1 .. Len(s) - 1 /\ ~(i - 1 < k) /\ (i - 1) + 1 = i BY <2>2
      <3>2. r[i - 1] = s[(i - 1) + 1] BY <1>1, <3>1 DEF r
      <3> QED BY <3>1, <3>2
    <2> QED BY <1>2, <2>1, <2>2
  <1> QED BY <1>1, <1>2 DEF r

\* So does the filter by id.
LEMMA WithoutFacts ==
  ASSUME NEW s \in Kept, NEW id
  PROVE  /\ TwoTabs!Without(s, id) \in Kept /\ OneTab!Without(s, id) = TwoTabs!Without(s, id)
         /\ \A x \in ToSet(s) : x # id => x \in ToSet(TwoTabs!Without(s, id))
  <1> DEFINE w == TwoTabs!Without(s, id)
  <1>1. OneTab!Without(s, id) = w
    BY DEF TwoTabs!Without, TwoTabs!ToSet, TwoTabs!RemoveAt, OneTab!Without, OneTab!ToSet, OneTab!RemoveAt
  <1>2. s \in Seq(BacktestIds) /\ Len(s) \in Nat /\ Len(s) <= Keep /\ DOMAIN s = 1 .. Len(s) BY DEF Kept
  <1>3. CASE id \notin ToSet(s)
    <2>1. w = s BY <1>3 DEF TwoTabs!Without, TwoTabs!ToSet, ToSet
    <2> HIDE DEF w
    <2> QED BY <1>1, <2>1 DEF w
  <1>4. CASE id \in ToSet(s)
    <2>1. PICK k \in 1 .. Len(s) : w = RemoveAt(s, k) /\ s[k] = id
      BY <1>2, <1>4 DEF TwoTabs!Without, TwoTabs!ToSet, ToSet, TwoTabs!RemoveAt, RemoveAt
    <2> HIDE DEF w
    <2>2. /\ w \in Seq(BacktestIds) /\ Len(w) = Len(s) - 1
          /\ \A i \in 1 .. Len(s) : i # k => \E j \in 1 .. Len(s) - 1 : w[j] = s[i]
      <3>1. /\ RemoveAt(s, k) \in Seq(BacktestIds) /\ Len(RemoveAt(s, k)) = Len(s) - 1
            /\ \A i \in 1 .. Len(s) : i # k => \E j \in 1 .. Len(s) - 1 : RemoveAt(s, k)[j] = s[i]
        BY <1>2, RemoveAtFacts, Zenon
      <3> QED BY <2>1, <3>1
    <2>3. w \in Kept BY <1>2, <2>2, TabsAssumption DEF Kept
    <2>4. ASSUME NEW x \in ToSet(s), x # id PROVE x \in ToSet(w)
      <3>1. PICK i \in 1 .. Len(s) : s[i] = x BY <1>2 DEF ToSet
      <3>2. PICK j \in 1 .. Len(s) - 1 : w[j] = x BY <2>1, <2>2, <2>4, <3>1
      <3>3. DOMAIN w = 1 .. Len(s) - 1 BY <2>2
      <3> QED BY <3>2, <3>3 DEF ToSet
    <2> QED BY <1>1, <2>3, <2>4 DEF w
  <1> QED BY <1>3, <1>4

(***************************************************************************)
(* What happens to the lists in one step: a tab writes one and tells its   *)
(* own panels at once and the other tabs by an event, or fails to write    *)
(* it; a tab hears of a write, or its comparison reads the list again.     *)
(***************************************************************************)
Wrote(T, t, list) ==
  /\ store' = list /\ event' = [u \in T |-> event[u] \/ (u # t /\ list # store)]
  /\ btSaved' = [btSaved EXCEPT ![t] = list] /\ rows' = [rows EXCEPT ![t] = list]
  /\ unsaved' = [unsaved EXCEPT ![t] = FALSE]

NotWritten(t, list) ==
  /\ btSaved' = [btSaved EXCEPT ![t] = list] /\ unsaved' = [unsaved EXCEPT ![t] = TRUE]
  /\ UNCHANGED <<store, event, rows>>

Heard(t) ==
  /\ event' = [event EXCEPT ![t] = FALSE] /\ unsaved' = [unsaved EXCEPT ![t] = FALSE]
  /\ btSaved' = [btSaved EXCEPT ![t] = store] /\ rows' = [rows EXCEPT ![t] = store]
  /\ UNCHANGED store

Refocused(t) == rows' = [rows EXCEPT ![t] = store] /\ UNCHANGED <<store, btSaved, event, unsaved>>

ListStep(T) ==
  /\ saves' \in 0 .. MaxSaves
  /\ \/ \E t \in T, list \in Kept : Wrote(T, t, list)
     \/ \E t \in T, list \in Kept : NotWritten(t, list)
     \/ \E t \in T : Heard(t)
     \/ \E t \in T : Refocused(t)
     \/ UNCHANGED <<store, btSaved, rows, event, unsaved>>

\* In each of these the lists stay lists, and a tab without an event shows the stored one.
LEMMA ListStepShows ==
  ASSUME NEW T, ListsTyped(T), Shown(T), ListStep(T)
  PROVE  ListsTyped(T)' /\ Shown(T)'
  <1>0. saves' \in 0 .. MaxSaves BY DEF ListStep
  <1>1. ASSUME NEW t \in T, NEW list \in Kept, Wrote(T, t, list) PROVE ListsTyped(T)' /\ Shown(T)'
    <2>1. /\ store' = list /\ event' = [u \in T |-> event[u] \/ (u # t /\ list # store)]
          /\ btSaved' = [btSaved EXCEPT ![t] = list] /\ rows' = [rows EXCEPT ![t] = list]
          /\ unsaved' = [unsaved EXCEPT ![t] = FALSE]
      BY <1>1 DEF Wrote
    <2>2. ListsTyped(T)' BY <1>0, <2>1 DEF ListsTyped
    <2>3. ASSUME NEW u \in T, ~event'[u]
          PROVE  rows'[u] = store' /\ (~unsaved'[u] => btSaved'[u] = store')
      <3>1. CASE u = t BY <2>1, <3>1 DEF ListsTyped
      <3>2. CASE u # t
        <4>1. ~event[u] /\ list = store BY <2>1, <2>3, <3>2
        <4>2. rows'[u] = rows[u] /\ btSaved'[u] = btSaved[u] /\ unsaved'[u] = unsaved[u]
          BY <2>1, <3>2 DEF ListsTyped
        <4> QED BY <2>1, <4>1, <4>2 DEF Shown
      <3> QED BY <3>1, <3>2
    <2> QED BY <2>2, <2>3 DEF Shown
  <1>2. ASSUME NEW t \in T, NEW list \in Kept, NotWritten(t, list) PROVE ListsTyped(T)' /\ Shown(T)'
    BY <1>0, <1>2 DEF NotWritten, ListsTyped, Shown
  <1>3. ASSUME NEW t \in T, Heard(t) PROVE ListsTyped(T)' /\ Shown(T)'
    BY <1>0, <1>3 DEF Heard, ListsTyped, Shown
  <1>4. ASSUME NEW t \in T, Refocused(t) PROVE ListsTyped(T)' /\ Shown(T)'
    BY <1>0, <1>4 DEF Refocused, ListsTyped, Shown
  <1>5. CASE UNCHANGED <<store, btSaved, rows, event, unsaved>>
    BY <1>0, <1>5 DEF ListsTyped, Shown
  <1> QED BY <1>1, <1>2, <1>3, <1>4, <1>5 DEF ListStep

\* What is chosen in a tab are ids and rows of its lists.
LEMMA ChoicesOfLists ==
  ASSUME NEW T, ListsTyped(T), NEW t \in T
  PROVE  /\ btSaved[t] \in Kept /\ rows[t] \in Kept /\ store \in Kept
         /\ ToSet(btSaved[t]) \subseteq BacktestIds /\ ToSet(rows[t]) \subseteq BacktestIds
  <1>1. btSaved[t] \in Kept /\ rows[t] \in Kept /\ store \in Kept BY DEF ListsTyped
  <1>2. \A s \in Kept : ToSet(s) \subseteq BacktestIds BY DEF Kept, ToSet
  <1> QED BY <1>1, <1>2

\* Every action of TwoTabs changes the lists in one of these ways, and chooses from them.
LEMMA TwoTabsStep ==
  ASSUME SavedInv(Tabs, TabNames, TabTimers), TwoTabs!Next PROVE SavedInv(Tabs, TabNames, TabTimers)'
  <1>1. PICK t \in Tabs :
          \/ TwoTabs!SaveBacktest(t) \/ TwoTabs!RunComparison(t) \/ TwoTabs!CompareTimeout(t) \/ TwoTabs!CompareAnswer(t)
          \/ TwoTabs!ToggleAllRows(t) \/ TwoTabs!ClearAll(t) \/ TwoTabs!StorageEvent(t) \/ TwoTabs!Focus(t)
          \/ \E id \in TwoTabs!Ids : TwoTabs!DeleteSaved(t, id) \/ TwoTabs!ToggleSelectForCompare(t, id)
          \/ \E r \in TwoTabs!Ids \X TabNames : TwoTabs!ToggleRow(t, r) \/ TwoTabs!RemoveResult(t, r)
    BY DEF TwoTabs!Next
  <1>2. /\ btSaved[t] \in Kept /\ store \in Kept /\ saves \in 0 .. MaxSaves
        /\ ToSet(btSaved[t]) \subseteq BacktestIds /\ ToSet(rows[t]) \subseteq BacktestIds
    BY ChoicesOfLists DEF SavedInv, ListsTyped
  <1>3. \A list : /\ TwoTabs!Write(t, list) => Wrote(Tabs, t, list)
                  /\ TwoTabs!WriteFails(t, list) => NotWritten(t, list)
    BY DEF TwoTabs!Write, TwoTabs!WriteFails, Wrote, NotWritten
  <1>4. TwoTabs!RowsOf(t) \subseteq BacktestIds \X TabNames
    BY <1>2 DEF TwoTabs!RowsOf, TwoTabs!ToSet, ToSet
  <1>5. ListsTyped(Tabs) /\ Shown(Tabs) /\ ChoicesTyped(Tabs, TabNames, TabTimers) BY DEF SavedInv
  <1>6. ASSUME ListStep(Tabs), ChoicesTyped(Tabs, TabNames, TabTimers)' PROVE SavedInv(Tabs, TabNames, TabTimers)'
    BY <1>5, <1>6, ListStepShows DEF SavedInv
  <1>7. CASE TwoTabs!SaveBacktest(t)
    <2> DEFINE all == Append(btSaved[t], saves + 1)  next == TwoTabs!KeepLast(all)
    <2>1. /\ saves' = saves + 1 /\ saves < MaxSaves /\ UNCHANGED <<ticked, rowsTicked, compare>>
          /\ TwoTabs!Write(t, next) \/ TwoTabs!WriteFails(t, next)
      BY <1>7 DEF TwoTabs!SaveBacktest
    <2>2. all \in Seq(BacktestIds)
      BY <1>2, <2>1, TabsAssumption DEF Kept, BacktestIds
    <2>3. next \in Kept BY <2>2, KeepLastFacts
    <2> HIDE DEF next
    <2>4. ListStep(Tabs) BY <1>2, <1>3, <2>1, <2>3, TabsAssumption DEF ListStep
    <2> QED BY <1>5, <1>6, <2>1, <2>4 DEF ChoicesTyped
  <1>8. ASSUME NEW id \in TwoTabs!Ids, TwoTabs!DeleteSaved(t, id) PROVE SavedInv(Tabs, TabNames, TabTimers)'
    <2> DEFINE next == TwoTabs!Without(btSaved[t], id)
    <2>1. /\ UNCHANGED <<ticked, rowsTicked, compare, saves>>
          /\ TwoTabs!Write(t, next) \/ TwoTabs!WriteFails(t, next)
      BY <1>8 DEF TwoTabs!DeleteSaved
    <2>2. next \in Kept BY <1>2, WithoutFacts
    <2> HIDE DEF next
    <2>3. ListStep(Tabs) BY <1>2, <1>3, <2>1, <2>2 DEF ListStep
    <2> QED BY <1>5, <1>6, <2>1, <2>3 DEF ChoicesTyped
  <1>9. ASSUME NEW r \in TwoTabs!Ids \X TabNames, TwoTabs!RemoveResult(t, r) PROVE SavedInv(Tabs, TabNames, TabTimers)'
    <2> DEFINE next == TwoTabs!Without(store, r[1])
    <2>1. /\ UNCHANGED <<ticked, compare, saves>> /\ TwoTabs!Write(t, next)
          /\ rowsTicked' = [rowsTicked EXCEPT ![t] = @ \ {r}]
      BY <1>9 DEF TwoTabs!RemoveResult
    <2>2. next \in Kept BY <1>2, WithoutFacts
    <2> HIDE DEF next
    <2>3. ListStep(Tabs) BY <1>2, <1>3, <2>1, <2>2 DEF ListStep
    <2> QED BY <1>5, <1>6, <2>1, <2>3 DEF ChoicesTyped
  <1>10. CASE TwoTabs!ClearAll(t)
    <2>1. /\ UNCHANGED <<ticked, compare, saves>> /\ TwoTabs!Write(t, << >>)
          /\ rowsTicked' = [rowsTicked EXCEPT ![t] = {}]
      BY <1>10 DEF TwoTabs!ClearAll
    <2>2. << >> \in Kept BY TabsAssumption DEF Kept
    <2>3. ListStep(Tabs) BY <1>2, <1>3, <2>1, <2>2 DEF ListStep
    <2> QED BY <1>5, <1>6, <2>1, <2>3 DEF ChoicesTyped
  <1>11. CASE TwoTabs!StorageEvent(t) \/ TwoTabs!Focus(t)
    <2>1. ListStep(Tabs) /\ UNCHANGED <<ticked, rowsTicked, compare>>
      BY <1>2, <1>11 DEF TwoTabs!StorageEvent, TwoTabs!Focus, ListStep, Heard, Refocused
    <2> QED BY <1>5, <1>6, <2>1 DEF ChoicesTyped
  <1>12. CASE TwoTabs!RunComparison(t) \/ TwoTabs!CompareTimeout(t) \/ TwoTabs!CompareAnswer(t)
    <2>1. ListStep(Tabs) /\ UNCHANGED <<ticked, rowsTicked>>
      BY <1>2, <1>12 DEF TwoTabs!RunComparison, TwoTabs!CompareTimeout, TwoTabs!CompareAnswer, ListStep
    <2> DEFINE Comparison == [loading : BOOLEAN, timers : 0 .. TabTimers, inFlight : BOOLEAN]
    <2>2. compare \in [Tabs -> Comparison] /\ compare[t] \in Comparison /\ TabTimers \in Nat
      BY <1>5, TabsAssumption DEF ChoicesTyped
    <2>3. compare' \in [Tabs -> Comparison]
      <3>1. CASE TwoTabs!RunComparison(t)
        <4> DEFINE c == [loading |-> TRUE, timers |-> compare[t].timers + 1, inFlight |-> TRUE]
        <4>1. compare' = [compare EXCEPT ![t] = c] BY <2>2, <3>1 DEF TwoTabs!RunComparison
        <4>2. c \in Comparison BY <2>2, <3>1 DEF TwoTabs!RunComparison
        <4> HIDE DEF c
        <4> QED BY <2>2, <4>1, <4>2
      <3>2. CASE TwoTabs!CompareTimeout(t)
        <4> DEFINE c == [loading |-> FALSE, timers |-> compare[t].timers - 1, inFlight |-> compare[t].inFlight]
        <4>1. compare' = [compare EXCEPT ![t] = c] BY <2>2, <3>2 DEF TwoTabs!CompareTimeout
        <4>2. c \in Comparison BY <2>2, <3>2 DEF TwoTabs!CompareTimeout
        <4> HIDE DEF c
        <4> QED BY <2>2, <4>1, <4>2
      <3>3. CASE TwoTabs!CompareAnswer(t)
        <4> DEFINE c == [loading |-> FALSE, timers |-> compare[t].timers, inFlight |-> FALSE]
        <4>1. compare' = [compare EXCEPT ![t] = c] BY <2>2, <3>3 DEF TwoTabs!CompareAnswer
        <4>2. c \in Comparison BY <2>2, <3>3 DEF TwoTabs!CompareAnswer
        <4> HIDE DEF c
        <4> QED BY <2>2, <4>1, <4>2
      <3> QED BY <1>12, <3>1, <3>2, <3>3
    <2> QED BY <1>5, <1>6, <2>1, <2>3 DEF ChoicesTyped
  <1>13. ASSUME NEW id \in TwoTabs!Ids, TwoTabs!ToggleSelectForCompare(t, id) PROVE SavedInv(Tabs, TabNames, TabTimers)'
    <2>1. ListStep(Tabs) /\ UNCHANGED <<rowsTicked, compare>>
      BY <1>2, <1>13 DEF TwoTabs!ToggleSelectForCompare, ListStep
    <2>2. ticked' \in [Tabs -> SUBSET BacktestIds]
      BY <1>5, <1>13 DEF TwoTabs!ToggleSelectForCompare, ChoicesTyped, TwoTabs!Ids, BacktestIds
    <2> QED BY <1>5, <1>6, <2>1, <2>2 DEF ChoicesTyped
  <1>14. CASE TwoTabs!ToggleAllRows(t) \/ \E r \in TwoTabs!Ids \X TabNames : TwoTabs!ToggleRow(t, r)
    <2>1. ListStep(Tabs) /\ UNCHANGED <<ticked, compare>>
      BY <1>2, <1>14 DEF TwoTabs!ToggleAllRows, TwoTabs!ToggleRow, ListStep
    <2>2. rowsTicked[t] \subseteq BacktestIds \X TabNames BY <1>5 DEF ChoicesTyped
    <2>3. ASSUME NEW r \in TwoTabs!Ids \X TabNames, TwoTabs!ToggleRow(t, r)
          PROVE  rowsTicked' \in [Tabs -> SUBSET (BacktestIds \X TabNames)]
      <3> DEFINE some == IF r \in rowsTicked[t] THEN rowsTicked[t] \ {r}
                         ELSE IF TwoTabs!Cardinality(rowsTicked[t]) < TabRows THEN rowsTicked[t] \cup {r}
                         ELSE rowsTicked[t]
      <3>1. rowsTicked' = [rowsTicked EXCEPT ![t] = some] BY <2>3 DEF TwoTabs!ToggleRow
      <3>2. r \in BacktestIds \X TabNames BY <1>4, <2>3 DEF TwoTabs!ToggleRow
      <3>3. some \in SUBSET (BacktestIds \X TabNames) BY <2>2, <3>2
      <3> HIDE DEF some
      <3> QED BY <1>5, <3>1, <3>3 DEF ChoicesTyped
    <2>4. rowsTicked' \in [Tabs -> SUBSET (BacktestIds \X TabNames)]
      <3>1. CASE TwoTabs!ToggleAllRows(t)
        <4> DEFINE some == IF TwoTabs!Cardinality(rowsTicked[t]) = TwoTabs!Cardinality(TwoTabs!RowsOf(t))
                           THEN {} ELSE TwoTabs!RowsOf(t)
        <4>1. rowsTicked' = [rowsTicked EXCEPT ![t] = some] BY <3>1 DEF TwoTabs!ToggleAllRows
        <4>2. some \in SUBSET (BacktestIds \X TabNames) BY <1>4
        <4> HIDE DEF some
        <4> QED BY <1>5, <4>1, <4>2 DEF ChoicesTyped
      <3> QED BY <1>14, <2>3, <3>1
    <2> QED BY <1>5, <1>6, <2>1, <2>4 DEF ChoicesTyped
  <1> QED BY <1>1, <1>7, <1>8, <1>9, <1>10, <1>11, <1>12, <1>13, <1>14

\* Every action of OneTab changes the lists in one of these ways, and chooses from them.
LEMMA OneTabStep ==
  ASSUME SavedInv({Tab}, Names, MaxTimers), OneTab!Next PROVE SavedInv({Tab}, Names, MaxTimers)'
  <1>1. PICK t \in {Tab} :
          \/ OneTab!SaveBacktest(t) \/ OneTab!RunComparison(t) \/ OneTab!CompareTimeout(t) \/ OneTab!CompareAnswer(t)
          \/ OneTab!ToggleAllRows(t) \/ OneTab!ClearAll(t) \/ OneTab!StorageEvent(t) \/ OneTab!Focus(t)
          \/ \E id \in OneTab!Ids : OneTab!DeleteSaved(t, id) \/ OneTab!ToggleSelectForCompare(t, id)
          \/ \E r \in OneTab!Ids \X Names : OneTab!ToggleRow(t, r) \/ OneTab!RemoveResult(t, r)
    BY DEF OneTab!Next
  <1>2. /\ btSaved[t] \in Kept /\ store \in Kept /\ saves \in 0 .. MaxSaves
        /\ ToSet(btSaved[t]) \subseteq BacktestIds /\ ToSet(rows[t]) \subseteq BacktestIds
    BY ChoicesOfLists DEF SavedInv, ListsTyped
  <1>3. \A list : /\ OneTab!Write(t, list) => Wrote({Tab}, t, list)
                  /\ OneTab!WriteFails(t, list) => NotWritten(t, list)
    BY DEF OneTab!Write, OneTab!WriteFails, Wrote, NotWritten
  <1>4. OneTab!RowsOf(t) \subseteq BacktestIds \X Names
    BY <1>2 DEF OneTab!RowsOf, OneTab!ToSet, ToSet
  <1>5. ListsTyped({Tab}) /\ Shown({Tab}) /\ ChoicesTyped({Tab}, Names, MaxTimers) BY DEF SavedInv
  <1>6. ASSUME ListStep({Tab}), ChoicesTyped({Tab}, Names, MaxTimers)' PROVE SavedInv({Tab}, Names, MaxTimers)'
    BY <1>5, <1>6, ListStepShows DEF SavedInv
  <1>7. CASE OneTab!SaveBacktest(t)
    <2> DEFINE all == Append(btSaved[t], saves + 1)  next == OneTab!KeepLast(all)
    <2>1. /\ saves' = saves + 1 /\ saves < MaxSaves /\ UNCHANGED <<ticked, rowsTicked, compare>>
          /\ OneTab!Write(t, next) \/ OneTab!WriteFails(t, next)
      BY <1>7 DEF OneTab!SaveBacktest
    <2>2. all \in Seq(BacktestIds)
      BY <1>2, <2>1, TabsAssumption DEF Kept, BacktestIds
    <2>3. next \in Kept BY <2>2, KeepLastFacts
    <2> HIDE DEF next
    <2>4. ListStep({Tab}) BY <1>2, <1>3, <2>1, <2>3, TabsAssumption DEF ListStep
    <2> QED BY <1>5, <1>6, <2>1, <2>4 DEF ChoicesTyped
  <1>8. ASSUME NEW id \in OneTab!Ids, OneTab!DeleteSaved(t, id) PROVE SavedInv({Tab}, Names, MaxTimers)'
    <2> DEFINE next == OneTab!Without(btSaved[t], id)
    <2>1. /\ UNCHANGED <<ticked, rowsTicked, compare, saves>>
          /\ OneTab!Write(t, next) \/ OneTab!WriteFails(t, next)
      BY <1>8 DEF OneTab!DeleteSaved
    <2>2. next \in Kept BY <1>2, WithoutFacts
    <2> HIDE DEF next
    <2>3. ListStep({Tab}) BY <1>2, <1>3, <2>1, <2>2 DEF ListStep
    <2> QED BY <1>5, <1>6, <2>1, <2>3 DEF ChoicesTyped
  <1>9. ASSUME NEW r \in OneTab!Ids \X Names, OneTab!RemoveResult(t, r) PROVE SavedInv({Tab}, Names, MaxTimers)'
    <2> DEFINE next == OneTab!Without(store, r[1])
    <2>1. /\ UNCHANGED <<ticked, compare, saves>> /\ OneTab!Write(t, next)
          /\ rowsTicked' = [rowsTicked EXCEPT ![t] = @ \ {r}]
      BY <1>9 DEF OneTab!RemoveResult
    <2>2. next \in Kept BY <1>2, WithoutFacts
    <2> HIDE DEF next
    <2>3. ListStep({Tab}) BY <1>2, <1>3, <2>1, <2>2 DEF ListStep
    <2> QED BY <1>5, <1>6, <2>1, <2>3 DEF ChoicesTyped
  <1>10. CASE OneTab!ClearAll(t)
    <2>1. /\ UNCHANGED <<ticked, compare, saves>> /\ OneTab!Write(t, << >>)
          /\ rowsTicked' = [rowsTicked EXCEPT ![t] = {}]
      BY <1>10 DEF OneTab!ClearAll
    <2>2. << >> \in Kept BY TabsAssumption DEF Kept
    <2>3. ListStep({Tab}) BY <1>2, <1>3, <2>1, <2>2 DEF ListStep
    <2> QED BY <1>5, <1>6, <2>1, <2>3 DEF ChoicesTyped
  <1>11. CASE OneTab!StorageEvent(t) \/ OneTab!Focus(t)
    <2>1. ListStep({Tab}) /\ UNCHANGED <<ticked, rowsTicked, compare>>
      BY <1>2, <1>11 DEF OneTab!StorageEvent, OneTab!Focus, ListStep, Heard, Refocused
    <2> QED BY <1>5, <1>6, <2>1 DEF ChoicesTyped
  <1>12. CASE OneTab!RunComparison(t) \/ OneTab!CompareTimeout(t) \/ OneTab!CompareAnswer(t)
    <2>1. ListStep({Tab}) /\ UNCHANGED <<ticked, rowsTicked>>
      BY <1>2, <1>12 DEF OneTab!RunComparison, OneTab!CompareTimeout, OneTab!CompareAnswer, ListStep
    <2> DEFINE Comparison == [loading : BOOLEAN, timers : 0 .. MaxTimers, inFlight : BOOLEAN]
    <2>2. compare \in [{Tab} -> Comparison] /\ compare[t] \in Comparison /\ MaxTimers \in Nat
      BY <1>5, TabsAssumption DEF ChoicesTyped
    <2>3. compare' \in [{Tab} -> Comparison]
      <3>1. CASE OneTab!RunComparison(t)
        <4> DEFINE c == [loading |-> TRUE, timers |-> compare[t].timers + 1, inFlight |-> TRUE]
        <4>1. compare' = [compare EXCEPT ![t] = c] BY <2>2, <3>1 DEF OneTab!RunComparison
        <4>2. c \in Comparison BY <2>2, <3>1 DEF OneTab!RunComparison
        <4> HIDE DEF c
        <4> QED BY <2>2, <4>1, <4>2
      <3>2. CASE OneTab!CompareTimeout(t)
        <4> DEFINE c == [loading |-> FALSE, timers |-> compare[t].timers - 1, inFlight |-> compare[t].inFlight]
        <4>1. compare' = [compare EXCEPT ![t] = c] BY <2>2, <3>2 DEF OneTab!CompareTimeout
        <4>2. c \in Comparison BY <2>2, <3>2 DEF OneTab!CompareTimeout
        <4> HIDE DEF c
        <4> QED BY <2>2, <4>1, <4>2
      <3>3. CASE OneTab!CompareAnswer(t)
        <4> DEFINE c == [loading |-> FALSE, timers |-> compare[t].timers, inFlight |-> FALSE]
        <4>1. compare' = [compare EXCEPT ![t] = c] BY <2>2, <3>3 DEF OneTab!CompareAnswer
        <4>2. c \in Comparison BY <2>2, <3>3 DEF OneTab!CompareAnswer
        <4> HIDE DEF c
        <4> QED BY <2>2, <4>1, <4>2
      <3> QED BY <1>12, <3>1, <3>2, <3>3
    <2> QED BY <1>5, <1>6, <2>1, <2>3 DEF ChoicesTyped
  <1>13. ASSUME NEW id \in OneTab!Ids, OneTab!ToggleSelectForCompare(t, id) PROVE SavedInv({Tab}, Names, MaxTimers)'
    <2>1. ListStep({Tab}) /\ UNCHANGED <<rowsTicked, compare>>
      BY <1>2, <1>13 DEF OneTab!ToggleSelectForCompare, ListStep
    <2>2. ticked' \in [{Tab} -> SUBSET BacktestIds]
      BY <1>5, <1>13 DEF OneTab!ToggleSelectForCompare, ChoicesTyped, OneTab!Ids, BacktestIds
    <2> QED BY <1>5, <1>6, <2>1, <2>2 DEF ChoicesTyped
  <1>14. CASE OneTab!ToggleAllRows(t) \/ \E r \in OneTab!Ids \X Names : OneTab!ToggleRow(t, r)
    <2>1. ListStep({Tab}) /\ UNCHANGED <<ticked, compare>>
      BY <1>2, <1>14 DEF OneTab!ToggleAllRows, OneTab!ToggleRow, ListStep
    <2>2. rowsTicked[t] \subseteq BacktestIds \X Names BY <1>5 DEF ChoicesTyped
    <2>3. ASSUME NEW r \in OneTab!Ids \X Names, OneTab!ToggleRow(t, r)
          PROVE  rowsTicked' \in [{Tab} -> SUBSET (BacktestIds \X Names)]
      <3> DEFINE some == IF r \in rowsTicked[t] THEN rowsTicked[t] \ {r}
                         ELSE IF OneTab!Cardinality(rowsTicked[t]) < MaxRows THEN rowsTicked[t] \cup {r}
                         ELSE rowsTicked[t]
      <3>1. rowsTicked' = [rowsTicked EXCEPT ![t] = some] BY <2>3 DEF OneTab!ToggleRow
      <3>2. r \in BacktestIds \X Names BY <1>4, <2>3 DEF OneTab!ToggleRow
      <3>3. some \in SUBSET (BacktestIds \X Names) BY <2>2, <3>2
      <3> HIDE DEF some
      <3> QED BY <1>5, <3>1, <3>3 DEF ChoicesTyped
    <2>4. rowsTicked' \in [{Tab} -> SUBSET (BacktestIds \X Names)]
      <3>1. CASE OneTab!ToggleAllRows(t)
        <4> DEFINE some == IF OneTab!Cardinality(rowsTicked[t]) = OneTab!Cardinality(OneTab!RowsOf(t))
                           THEN {} ELSE OneTab!RowsOf(t)
        <4>1. rowsTicked' = [rowsTicked EXCEPT ![t] = some] BY <3>1 DEF OneTab!ToggleAllRows
        <4>2. some \in SUBSET (BacktestIds \X Names) BY <1>4
        <4> HIDE DEF some
        <4> QED BY <1>5, <4>1, <4>2 DEF ChoicesTyped
      <3> QED BY <1>14, <2>3, <3>1
    <2> QED BY <1>5, <1>6, <2>1, <2>4 DEF ChoicesTyped
  <1> QED BY <1>1, <1>7, <1>8, <1>9, <1>10, <1>11, <1>12, <1>13, <1>14

\* TwoTabs: empty lists at first, and the invariant in its own words.
LEMMA TwoTabsInit == TwoTabs!Init => SavedInv(Tabs, TabNames, TabTimers)
  <1> SUFFICES ASSUME TwoTabs!Init PROVE SavedInv(Tabs, TabNames, TabTimers) OBVIOUS
  <1>1. << >> \in Kept BY TabsAssumption DEF Kept
  <1>2. ListsTyped(Tabs) BY <1>1, TabsAssumption DEF TwoTabs!Init, ListsTyped
  <1>3. ChoicesTyped(Tabs, TabNames, TabTimers) BY TabsAssumption DEF TwoTabs!Init, ChoicesTyped
  <1>4. Shown(Tabs) BY DEF TwoTabs!Init, Shown
  <1> QED BY <1>2, <1>3, <1>4 DEF SavedInv

LEMMA TwoTabsIsSound == SavedInv(Tabs, TabNames, TabTimers) => TwoTabs!TypeOK /\ TwoTabs!TabsShowTheStore
  <1> SUFFICES ASSUME SavedInv(Tabs, TabNames, TabTimers) PROVE TwoTabs!TypeOK /\ TwoTabs!TabsShowTheStore OBVIOUS
  <1>1. TwoTabs!TabsShowTheStore BY DEF SavedInv, Shown, TwoTabs!TabsShowTheStore
  <1>2. store \in Seq(TwoTabs!Ids) /\ Len(store) <= Keep
    BY DEF SavedInv, ListsTyped, Kept, TwoTabs!Ids, BacktestIds
  <1>3. \A t \in Tabs : TwoTabs!ToSet(btSaved[t]) \subseteq TwoTabs!Ids /\ TwoTabs!ToSet(rows[t]) \subseteq TwoTabs!Ids
    BY ChoicesOfLists DEF SavedInv, TwoTabs!Ids, BacktestIds, TwoTabs!ToSet, ToSet
  <1>4. /\ \A t \in Tabs : ticked[t] \subseteq TwoTabs!Ids /\ rowsTicked[t] \subseteq TwoTabs!Ids \X TabNames
        /\ compare \in [Tabs -> [loading : BOOLEAN, timers : 0 .. TabTimers, inFlight : BOOLEAN]]
    BY DEF SavedInv, ChoicesTyped, TwoTabs!Ids, BacktestIds
  <1> QED BY <1>1, <1>2, <1>3, <1>4 DEF TwoTabs!TypeOK

\* OneTab: empty lists at first, and the invariant in its own words.
LEMMA OneTabInit == OneTab!Init => SavedInv({Tab}, Names, MaxTimers)
  <1> SUFFICES ASSUME OneTab!Init PROVE SavedInv({Tab}, Names, MaxTimers) OBVIOUS
  <1>1. << >> \in Kept BY TabsAssumption DEF Kept
  <1>2. ListsTyped({Tab}) BY <1>1, TabsAssumption DEF OneTab!Init, ListsTyped
  <1>3. ChoicesTyped({Tab}, Names, MaxTimers) BY TabsAssumption DEF OneTab!Init, ChoicesTyped
  <1>4. Shown({Tab}) BY DEF OneTab!Init, Shown
  <1> QED BY <1>2, <1>3, <1>4 DEF SavedInv

LEMMA OneTabIsSound == SavedInv({Tab}, Names, MaxTimers) => OneTab!TypeOK /\ OneTab!TabsShowTheStore
  <1> SUFFICES ASSUME SavedInv({Tab}, Names, MaxTimers) PROVE OneTab!TypeOK /\ OneTab!TabsShowTheStore OBVIOUS
  <1>1. OneTab!TabsShowTheStore BY DEF SavedInv, Shown, OneTab!TabsShowTheStore
  <1>2. store \in Seq(OneTab!Ids) /\ Len(store) <= Keep
    BY DEF SavedInv, ListsTyped, Kept, OneTab!Ids, BacktestIds
  <1>3. \A t \in {Tab} : OneTab!ToSet(btSaved[t]) \subseteq OneTab!Ids /\ OneTab!ToSet(rows[t]) \subseteq OneTab!Ids
    BY ChoicesOfLists DEF SavedInv, OneTab!Ids, BacktestIds, OneTab!ToSet, ToSet
  <1>4. /\ \A t \in {Tab} : ticked[t] \subseteq OneTab!Ids /\ rowsTicked[t] \subseteq OneTab!Ids \X Names
        /\ compare \in [{Tab} -> [loading : BOOLEAN, timers : 0 .. MaxTimers, inFlight : BOOLEAN]]
    BY DEF SavedInv, ChoicesTyped, OneTab!Ids, BacktestIds
  <1> QED BY <1>1, <1>2, <1>3, <1>4 DEF OneTab!TypeOK

(***************************************************************************)
(* With one tab, a backtest that is not gone is in the stored list and in  *)
(* the list of the runner: one that only one of them had would be lost by  *)
(* the next write of the other.                                            *)
(***************************************************************************)
InBothOrGone ==
  \A id \in 1 .. saves : id \in gone \/ (id \in ToSet(store) /\ id \in ToSet(btSaved[Tab]))

LEMMA AppendedElements ==
  ASSUME NEW s \in Seq(BacktestIds), NEW x \in BacktestIds
  PROVE  \A y : y = x \/ y \in ToSet(s) => y \in ToSet(Append(s, x))
  <1>1. Append(s, x)[Len(s) + 1] = x /\ \A k \in 1 .. Len(s) : Append(s, x)[k] = s[k] OBVIOUS
  <1>2. DOMAIN Append(s, x) = 1 .. Len(s) + 1 /\ DOMAIN s = 1 .. Len(s) /\ Len(s) \in Nat OBVIOUS
  <1>3. Len(s) + 1 \in DOMAIN Append(s, x) /\ DOMAIN s \subseteq DOMAIN Append(s, x) BY <1>2
  <1> QED BY <1>1, <1>2, <1>3 DEF ToSet

\* Nothing is lost but what is deleted, cleared, pushed out or never written.
LEMMA NothingLost ==
  ASSUME SavedInv({Tab}, Names, MaxTimers), InBothOrGone, OneTab!Next PROVE InBothOrGone'
  <1>1. PICK t \in {Tab} :
          \/ OneTab!SaveBacktest(t) \/ OneTab!RunComparison(t) \/ OneTab!CompareTimeout(t)
          \/ OneTab!CompareAnswer(t)
          \/ OneTab!ToggleAllRows(t) \/ OneTab!ClearAll(t) \/ OneTab!StorageEvent(t) \/ OneTab!Focus(t)
          \/ \E id \in OneTab!Ids : OneTab!DeleteSaved(t, id) \/ OneTab!ToggleSelectForCompare(t, id)
          \/ \E r \in OneTab!Ids \X Names : OneTab!ToggleRow(t, r) \/ OneTab!RemoveResult(t, r)
    BY DEF OneTab!Next
  <1>2. /\ t = Tab /\ btSaved \in [{Tab} -> Kept] /\ btSaved[Tab] \in Kept /\ store \in Kept
        /\ saves \in 0 .. MaxSaves
    BY DEF SavedInv, ListsTyped
  <1>3. \A s : OneTab!ToSet(s) = ToSet(s) BY DEF OneTab!ToSet, ToSet
  <1>4. ASSUME NEW list, OneTab!Write(t, list)
        PROVE  store' = list /\ btSaved'[Tab] = list
    BY <1>2, <1>4 DEF OneTab!Write
  <1>5. ASSUME NEW list, OneTab!WriteFails(t, list)
        PROVE  store' = store /\ btSaved'[Tab] = list
    BY <1>2, <1>5 DEF OneTab!WriteFails
  <1>6. CASE OneTab!SaveBacktest(t)
    <2> DEFINE all == Append(btSaved[t], saves + 1)  next == OneTab!KeepLast(all)
    <2>1. /\ saves' = saves + 1 /\ saves < MaxSaves
          /\ \/ OneTab!Write(t, next) /\ gone' = gone \cup (ToSet(all) \ ToSet(next))
             \/ OneTab!WriteFails(t, next) /\ gone' = gone \cup (ToSet(all) \ ToSet(next)) \cup {saves + 1}
      BY <1>3, <1>6 DEF OneTab!SaveBacktest
    <2>2. \A y : y = saves + 1 \/ y \in ToSet(btSaved[Tab]) => y \in ToSet(all)
      BY <1>2, <2>1, AppendedElements, TabsAssumption DEF Kept, BacktestIds
    <2> HIDE DEF all, next
    <2>3. \A id \in 1 .. saves' : id \in 1 .. saves \/ id = saves + 1
      BY <1>2, <2>1, TabsAssumption
    <2>4. CASE OneTab!Write(t, next) /\ gone' = gone \cup (ToSet(all) \ ToSet(next))
      BY <1>4, <2>2, <2>3, <2>4 DEF InBothOrGone
    <2>5. CASE OneTab!WriteFails(t, next) /\ gone' = gone \cup (ToSet(all) \ ToSet(next)) \cup {saves + 1}
      BY <1>5, <2>2, <2>3, <2>5 DEF InBothOrGone
    <2> QED BY <2>1, <2>4, <2>5
  <1>7. ASSUME NEW id \in OneTab!Ids, OneTab!DeleteSaved(t, id) PROVE InBothOrGone'
    <2> DEFINE next == OneTab!Without(btSaved[t], id)
    <2>1. /\ saves' = saves /\ gone' = gone \cup {id}
          /\ OneTab!Write(t, next) \/ OneTab!WriteFails(t, next)
      BY <1>7 DEF OneTab!DeleteSaved
    <2>2. \A x \in ToSet(btSaved[Tab]) : x # id => x \in ToSet(next) BY <1>2, WithoutFacts
    <2> HIDE DEF next
    <2> QED BY <1>4, <1>5, <2>1, <2>2 DEF InBothOrGone
  <1>8. ASSUME NEW r \in OneTab!Ids \X Names, OneTab!RemoveResult(t, r) PROVE InBothOrGone'
    <2> DEFINE next == OneTab!Without(store, r[1])
    <2>1. saves' = saves /\ gone' = gone \cup {r[1]} /\ OneTab!Write(t, next)
      BY <1>8 DEF OneTab!RemoveResult
    <2>2. \A x \in ToSet(store) : x # r[1] => x \in ToSet(next) BY <1>2, WithoutFacts
    <2> HIDE DEF next
    <2> QED BY <1>4, <2>1, <2>2 DEF InBothOrGone
  <1>9. CASE OneTab!ClearAll(t)
    <2>1. saves' = saves /\ ToSet(store) \subseteq gone' /\ gone \subseteq gone'
      BY <1>3, <1>9 DEF OneTab!ClearAll
    <2> QED BY <2>1 DEF InBothOrGone
  <1>10. CASE OneTab!StorageEvent(t)
    BY <1>2, <1>10 DEF OneTab!StorageEvent, InBothOrGone
  <1>11. CASE OneTab!Focus(t) BY <1>11 DEF OneTab!Focus, InBothOrGone
  <1>12. CASE \/ OneTab!RunComparison(t) \/ OneTab!CompareTimeout(t) \/ OneTab!CompareAnswer(t)
              \/ OneTab!ToggleAllRows(t) \/ \E id \in OneTab!Ids : OneTab!ToggleSelectForCompare(t, id)
              \/ \E r \in OneTab!Ids \X Names : OneTab!ToggleRow(t, r)
    <2>1. UNCHANGED <<store, btSaved, saves, gone>>
      BY <1>12 DEF OneTab!RunComparison, OneTab!CompareTimeout, OneTab!CompareAnswer, OneTab!ToggleAllRows,
                   OneTab!ToggleSelectForCompare, OneTab!ToggleRow
    <2> QED BY <2>1 DEF InBothOrGone
  <1> QED BY <1>1, <1>6, <1>7, <1>8, <1>9, <1>10, <1>11, <1>12

-----------------------------------------------------------------------------
(* Lists of the notices: places in order, lists without one element.         *)

\* A finite set of naturals has an increasing list.
LEMMA IncreasingList ==
  ASSUME NEW T, T \subseteq Nat, IsFiniteSet(T)
  PROVE  \E list \in [1 .. Cardinality(T) -> T] :
           \A i, j \in DOMAIN list : i < j => list[i] < list[j]
  <1> DEFINE n == Cardinality(T)
             Below(t) == {u \in T : u <= t}
             pos == [t \in T |-> Cardinality(Below(t))]
  <1>1. n \in Nat BY FS_CardinalityType
  <1>2. ASSUME NEW t \in T
        PROVE  IsFiniteSet(Below(t)) /\ pos[t] \in 1..n
    <2>1. Below(t) \in SUBSET T OBVIOUS
    <2>2. IsFiniteSet(Below(t)) /\ Cardinality(Below(t)) <= n BY <2>1, FS_Subset
    <2>3. Cardinality(Below(t)) \in Nat /\ Cardinality(Below(t)) # 0
      <3>1. t \in Below(t) OBVIOUS
      <3> QED BY <2>2, <3>1, FS_CardinalityType, FS_EmptySet
    <2> QED BY <1>1, <2>2, <2>3
  <1>3. ASSUME NEW t \in T, NEW u \in T, t < u PROVE pos[t] < pos[u]
    <2>1. Below(t) \in SUBSET Below(u)
      <3>1. t \in Nat /\ u \in Nat /\ \A w \in T : w \in Nat OBVIOUS
      <3>2. \A w \in T : w <= t => w <= u BY <1>3, <3>1
      <3> QED BY <3>2
    <2>2. Below(t) # Below(u)
      <3>1. u \in Below(u) /\ u \notin Below(t) BY <1>3
      <3> QED BY <3>1
    <2>3. pos[t] <= pos[u] /\ pos[t] # pos[u] BY <1>2, <2>1, <2>2, FS_Subset
    <2> QED BY <1>2, <2>3
  <1>4. pos \in [T -> 1..n] BY <1>2
  <1>5. \A t, u \in T : pos[t] = pos[u] => t = u
    <2>1. SUFFICES ASSUME NEW t \in T, NEW u \in T, pos[t] = pos[u], t # u PROVE FALSE OBVIOUS
    <2>2. t < u \/ u < t BY <2>1
    <2>3. pos[t] \in Int /\ pos[u] \in Int BY <1>1, <1>2
    <2> QED BY <1>3, <2>1, <2>2, <2>3
  <1>6. pos \in Injection(T, 1..n) BY <1>4, <1>5 DEF Injection, IsInjective
  <1>7. IsFiniteSet(1..n) /\ Cardinality(1..n) = n BY <1>1, FS_Interval
  <1>8. pos \in Surjection(T, 1..n) BY <1>6, <1>7, FS_Injection
  <1>9. \A i \in 1..n : \E t \in T : pos[t] = i BY <1>8 DEF Surjection
  <1> DEFINE f == [i \in 1..n |-> CHOOSE t \in T : pos[t] = i]
  <1>10. \A i \in 1..n : f[i] \in T /\ pos[f[i]] = i BY <1>9
  <1>11. f \in [1..n -> T] BY <1>10
  <1> HIDE DEF f, pos
  <1>12. ASSUME NEW i \in 1..n, NEW j \in 1..n, i < j PROVE f[i] < f[j]
    <2>1. f[i] \in T /\ f[j] \in T /\ pos[f[i]] = i /\ pos[f[j]] = j BY <1>10
    <2>2. f[i] \in Nat /\ f[j] \in Nat /\ i \in Nat /\ j \in Nat
      <3>1. i \in Nat /\ j \in Nat BY <1>1
      <3>2. f[i] \in Nat /\ f[j] \in Nat BY <2>1
      <3> QED BY <3>1, <3>2
    <2>3. f[i] # f[j] BY <2>1, <2>2, <1>12
    <2>4. ~(f[j] < f[i]) BY <1>3, <1>12, <2>1, <2>2
    <2> QED BY <2>2, <2>3, <2>4
  <1> QED BY <1>11, <1>12

\* Both modules list a set of places in order: every place comes once.
LEMMA SortedFacts ==
  ASSUME NEW n \in Nat, NEW K, K \subseteq 1 .. n
  PROVE  /\ IsFiniteSet(K) /\ Cardinality(K) \in Nat
         /\ Alerts!Sorted(K) \in [1 .. Cardinality(K) -> K] /\ Fills!Sorted(K) = Alerts!Sorted(K)
         /\ \A i, j \in 1 .. Cardinality(K) : Alerts!Sorted(K)[i] = Alerts!Sorted(K)[j] => i = j
         /\ \A x \in K : \E i \in 1 .. Cardinality(K) : Alerts!Sorted(K)[i] = x
  <1> DEFINE f == Alerts!Sorted(K)  c == Cardinality(K)
  <1>1. IsFiniteSet(K) /\ K \subseteq Nat
    <2>1. IsFiniteSet(1 .. n) /\ K \in SUBSET (1 .. n) BY FS_Interval
    <2>2. IsFiniteSet(K) BY <2>1, FS_Subset
    <2>3. K \subseteq Nat OBVIOUS
    <2> QED BY <2>2, <2>3
  <1>2. c \in Nat BY <1>1, FS_CardinalityType
  <1>3. Fills!Sorted(K) = f
    BY DEF Fills!Sorted, Alerts!Sorted, Fills!Cardinality, Alerts!Cardinality
  <1>4. f \in [1 .. c -> K] /\ \A i, j \in DOMAIN f : i < j => f[i] < f[j]
    <2>1. f = CHOOSE list \in [1 .. c -> K] : \A i, j \in DOMAIN list : i < j => list[i] < list[j]
      BY DEF Alerts!Sorted, Alerts!Cardinality, Cardinality
    <2>2. \E list \in [1 .. c -> K] : \A i, j \in DOMAIN list : i < j => list[i] < list[j]
      BY <1>1, IncreasingList
    <2> HIDE DEF f
    <2> QED BY <2>1, <2>2
  <1> HIDE DEF f
  <1>5. ASSUME NEW i \in 1 .. c, NEW j \in 1 .. c, f[i] = f[j] PROVE i = j
    <2>1. f[i] \in K /\ i \in DOMAIN f /\ j \in DOMAIN f BY <1>4
    <2>2. f[i] \in Nat BY <1>1, <2>1
    <2>3. i \in Int /\ j \in Int BY <1>2
    <2>4. ~(f[i] < f[j]) /\ ~(f[j] < f[i]) BY <1>5, <2>2
    <2> QED BY <1>4, <2>1, <2>3, <2>4
  <1>6. f \in Surjection(1 .. c, K)
    <2>1. IsFiniteSet(1 .. c) /\ Cardinality(1 .. c) = c BY <1>2, FS_Interval
    <2>2. f \in Injection(1 .. c, K) BY <1>4, <1>5 DEF Injection, IsInjective
    <2> QED BY <1>1, <2>1, <2>2, FS_Injection
  <1>7. \A x \in K : \E i \in 1 .. c : f[i] = x BY <1>6 DEF Surjection
  <1> QED BY <1>1, <1>2, <1>3, <1>4, <1>5, <1>7 DEF f

-----------------------------------------------------------------------------
(* Price alerts. *)

AlertIds == 1 .. MaxAlerts
ScreenToast == {t \in Alerts!Toast : t.kind = "alert" => t.n \in AlertIds}
Announcement == [id : AlertIds, turn : Nat, right : BOOLEAN]

AlertsTyped ==
  /\ alertSymbol \in Symbols /\ alertPrice \in [Symbols -> 0 .. MaxPrice]
  /\ alerts \in Seq(Alerts!Alert) /\ made \in 0 .. MaxAlerts /\ others \in Nat
  /\ triggered \subseteq AlertIds /\ queued \subseteq AlertIds /\ fired \subseteq Announcement
  /\ runs \in 0 .. MaxRuns /\ turn \in Nat
  /\ toasts \in Seq(ScreenToast) /\ Len(toasts) <= MaxToasts
  /\ seen \subseteq Alerts!Toast /\ alertSent \subseteq AlertIds

(***************************************************************************)
(* The alerts of a list have numbers of their own; those that are noted    *)
(* (or whose note waits) are those that were announced, an announced       *)
(* number is not given again, and it was announced for one hit.            *)
(***************************************************************************)
Listed(list, m, past, said) ==
  /\ \A i, j \in DOMAIN list : list[i].id = list[j].id => i = j
  /\ \A i \in DOMAIN list : list[i].id <= m /\ (list[i].id \in past <=> \E k \in said : k.id = list[i].id)
  /\ \A x \in past : \E i \in DOMAIN list : list[i].id = x
  /\ \A k \in said : k.id <= m
  /\ \A j, k \in said : j.id = k.id => j.turn = k.turn

\* What waits was announced for the last hit; nothing waits once React has settled.
Waits == (runs = 0 => queued = {}) /\ \A k \in fired : k.id \in queued => k.turn = turn

NoneOverlooked ==
  \A i \in DOMAIN alerts :
    alerts[i].id \in triggered \cup queued \/ ~Alerts!Hit(alerts[i], alertPrice[alertSymbol])

AlertsInv ==
  AlertsTyped /\ Listed(alerts, made, triggered \cup queued, fired) /\ Waits /\ NoneOverlooked

LEMMA AlertsInit == Alerts!Init => AlertsInv
  <1> SUFFICES ASSUME Alerts!Init PROVE AlertsInv OBVIOUS
  <1>1. alerts = << >> /\ fired = {} /\ toasts = << >> /\ triggered = {} /\ made = 0
        /\ queued = {} /\ runs = 0 /\ turn = 0 /\ others = 0 /\ seen = {} /\ alertSent = {} /\ alertSymbol \in Symbols
        /\ alertPrice = [s \in Symbols |-> 0]
    BY Zenon DEF Alerts!Init
  <1>2. AlertsTyped BY <1>1, AlertsAssumption DEF AlertsTyped
  <1> QED BY <1>1, <1>2 DEF AlertsInv, Listed, Waits, NoneOverlooked

\* The alerts of a list that a price hits, each once.
LEMMA HitsFacts ==
  ASSUME NEW list \in Seq(Alerts!Alert), NEW p, NEW past,
         \A i, j \in DOMAIN list : list[i].id = list[j].id => i = j
  PROVE  LET hit == Alerts!Hits(list, p, past)
         IN /\ hit \in Seq(Alerts!Alert)
            /\ \A k \in DOMAIN hit : /\ \E i \in DOMAIN list : hit[k] = list[i]
                                     /\ hit[k].id \notin past
            /\ \A k, l \in DOMAIN hit : hit[k].id = hit[l].id => k = l
            /\ \A i \in DOMAIN list : list[i].id \in past \/ ~Alerts!Hit(list[i], p)
                                        \/ \E k \in DOMAIN hit : hit[k] = list[i]
            /\ Alerts!HitAt(list, p, past) = {} => DOMAIN hit = {}
  <1> DEFINE hit == Alerts!Hits(list, p, past)
             K == Alerts!HitAt(list, p, past)
             at == Alerts!Sorted(K)
  <1>1. Len(list) \in Nat /\ DOMAIN list = 1 .. Len(list) OBVIOUS
  <1>2. K \subseteq 1 .. Len(list) /\ \A i \in DOMAIN list : i \in K <=> list[i].id \notin past /\ Alerts!Hit(list[i], p)
    BY <1>1 DEF Alerts!HitAt
  <1>3. hit = [k \in DOMAIN at |-> list[at[k]]] BY DEF Alerts!Hits
  <1> HIDE DEF K, hit
  <1>4. /\ Cardinality(K) \in Nat /\ at \in [1 .. Cardinality(K) -> K]
        /\ \A i, j \in 1 .. Cardinality(K) : at[i] = at[j] => i = j
        /\ \A x \in K : \E i \in 1 .. Cardinality(K) : at[i] = x
    BY <1>1, <1>2, SortedFacts
  <1> HIDE DEF at
  <1>5. DOMAIN hit = 1 .. Cardinality(K) /\ \A k \in DOMAIN hit : hit[k] = list[at[k]] /\ at[k] \in K
    BY <1>3, <1>4
  <1>6. hit \in Seq(Alerts!Alert)
    <2>0. \A i \in 1 .. Len(list) : list[i] \in Alerts!Alert OBVIOUS
    <2>1. \A k \in 1 .. Cardinality(K) : list[at[k]] \in Alerts!Alert BY <1>2, <1>4, <2>0
    <2>2. hit = [k \in 1 .. Cardinality(K) |-> list[at[k]]] BY <1>3, <1>4
    <2> QED BY <1>4, <2>1, <2>2
  <1>7. \A k \in DOMAIN hit : (\E i \in DOMAIN list : hit[k] = list[i]) /\ hit[k].id \notin past
    BY <1>1, <1>2, <1>5
  <1>8. \A k, l \in DOMAIN hit : hit[k].id = hit[l].id => k = l
    <2>1. SUFFICES ASSUME NEW k \in DOMAIN hit, NEW l \in DOMAIN hit, hit[k].id = hit[l].id
                   PROVE  k = l
      OBVIOUS
    <2>2. at[k] \in DOMAIN list /\ at[l] \in DOMAIN list BY <1>1, <1>2, <1>5
    <2>3. hit[k] = list[at[k]] /\ hit[l] = list[at[l]] BY <1>5
    <2>4. at[k] = at[l] BY <2>1, <2>2, <2>3
    <2> QED BY <1>4, <1>5, <2>4
  <1>9. ASSUME NEW i \in DOMAIN list, list[i].id \notin past, Alerts!Hit(list[i], p)
        PROVE  \E k \in DOMAIN hit : hit[k] = list[i]
    <2>1. i \in K BY <1>2, <1>9
    <2>2. PICK k \in 1 .. Cardinality(K) : at[k] = i BY <1>4, <2>1
    <2> QED BY <1>5, <2>2
  <1>10. ASSUME K = {} PROVE DOMAIN hit = {}
    <2>1. SUFFICES ASSUME NEW k \in DOMAIN hit PROVE FALSE OBVIOUS
    <2> QED BY <1>5, <1>10, <2>1
  <1> QED BY <1>6, <1>7, <1>8, <1>9, <1>10 DEF hit, K

\* At most MaxToasts stay, all of them old or new.
LEMMA AddToastsFacts ==
  ASSUME NEW list \in Seq(ScreenToast), NEW new \in Seq(ScreenToast)
  PROVE  Alerts!AddToasts(list, new) \in Seq(ScreenToast) /\ Len(Alerts!AddToasts(list, new)) <= MaxToasts
  <1> DEFINE all == list \o new
             m == IF Len(all) <= MaxToasts THEN 1 ELSE Len(all) - MaxToasts + 1
  <1>1. all \in Seq(ScreenToast) /\ Len(all) \in Nat OBVIOUS
  <1>2. Alerts!AddToasts(list, new) = SubSeq(all, m, Len(all)) BY DEF Alerts!AddToasts
  <1> HIDE DEF all
  <1>3. m \in Nat \ {0} BY <1>1, AlertsAssumption
  <1>4. SubSeq(all, m, Len(all)) \in Seq(ScreenToast)
        /\ Len(SubSeq(all, m, Len(all))) = (IF m <= Len(all) THEN Len(all) - m + 1 ELSE 0)
    BY <1>1, <1>3, PartOfList
  <1> QED BY <1>1, <1>2, <1>4, AlertsAssumption

\* The webhook panel looks at toasts and reports alerts.
LEMMA DispatchTyped ==
  ASSUME AlertsTyped, NEW list \in Seq(ScreenToast), NEW open, Alerts!Dispatch(list, open)
  PROVE  seen' \subseteq Alerts!Toast /\ alertSent' \subseteq AlertIds
  <1>1. Alerts!ToSet(list) \subseteq ScreenToast BY DEF Alerts!ToSet
  <1>2. \A t \in ScreenToast : t \in Alerts!Toast /\ (t.kind = "alert" => t.n \in AlertIds)
    BY DEF ScreenToast
  <1>3. seen' = seen \/ seen' = seen \cup Alerts!ToSet(list) BY DEF Alerts!Dispatch
  <1>4. alertSent' \subseteq alertSent \cup {t.n : t \in {u \in Alerts!ToSet(list) \ seen : u.kind = "alert"}}
    BY DEF Alerts!Dispatch
  <1> QED BY <1>1, <1>2, <1>3, <1>4 DEF AlertsTyped

\* A run of the effect on a list that was sound before it: the alerts that it announces
\* were not announced before, or are those of the hit that is being announced.
LEMMA AnnounceKeeps ==
  ASSUME AlertsInv, NEW list \in Seq(Alerts!Alert), NEW s \in Symbols, NEW pr \in [Symbols -> 0 .. MaxPrice],
         NEW m \in 0 .. MaxAlerts, NEW past \in SUBSET AlertIds, NEW now \in Nat,
         Listed(list, m, past \cup queued, fired), Alerts!Announce(list, s, pr, past, now), others' = others,
         alerts' = list, alertSymbol' = s, alertPrice' = pr, made' = m, triggered' = past,
         runs' \in 0 .. MaxRuns, runs' = 0 => queued' = {}, \A k \in fired : k.id \in queued => k.turn = now
  PROVE  AlertsInv'
  <1> DEFINE hit == Alerts!Hits(list, pr[s], past)
             news == [i \in DOMAIN hit |-> [kind |-> "alert", n |-> hit[i].id]]
             told == {[id |-> a.id, turn |-> now, right |-> Alerts!Hit(a, pr[a.symbol])] : a \in Alerts!ToSet(hit)}
             left == Alerts!AddToasts(toasts, news)
  <1>1. \A i, j \in DOMAIN list : list[i].id = list[j].id => i = j BY DEF Listed
  <1>2. /\ queued' = queued \cup {a.id : a \in Alerts!ToSet(hit)} /\ fired' = fired \cup told
        /\ turn' = now /\ toasts' = left /\ Alerts!Dispatch(left, hook)
    BY DEF Alerts!Announce
  <1>3. /\ hit \in Seq(Alerts!Alert)
        /\ \A k \in DOMAIN hit : (\E i \in DOMAIN list : hit[k] = list[i]) /\ hit[k].id \notin past
        /\ \A i \in DOMAIN list : list[i].id \in past \/ ~Alerts!Hit(list[i], pr[s])
                                    \/ \E k \in DOMAIN hit : hit[k] = list[i]
    BY <1>1, HitsFacts
  <1> HIDE DEF hit
  <1>4. /\ DOMAIN hit = 1 .. Len(hit) /\ Len(hit) \in Nat
        /\ \A k \in 1 .. Len(hit) : hit[k] \in Alerts!Alert /\ hit[k].id \in AlertIds
    <2>1. \A a \in Alerts!Alert : a.id \in AlertIds BY DEF Alerts!Alert, Alerts!Ids, AlertIds
    <2> QED BY <1>3, <2>1
  <1>5. news \in Seq(ScreenToast)
    <2>1. \A k \in 1 .. Len(hit) : [kind |-> "alert", n |-> hit[k].id] \in ScreenToast
      BY <1>4 DEF ScreenToast, Alerts!Toast, AlertIds
    <2>2. news = [k \in 1 .. Len(hit) |-> [kind |-> "alert", n |-> hit[k].id]] BY <1>4
    <2> HIDE DEF news
    <2> QED BY <1>4, <2>1, <2>2
  <1>6. /\ \A f \in told : f \in Announcement /\ f.turn = now /\ \E k \in 1 .. Len(hit) : f.id = hit[k].id
        /\ \A k \in 1 .. Len(hit) : \E f \in told : f.id = hit[k].id
    <2>1. \A a \in Alerts!ToSet(hit) : \E k \in 1 .. Len(hit) : a = hit[k] BY <1>4 DEF Alerts!ToSet
    <2>2. ASSUME NEW f \in told
          PROVE  f \in Announcement /\ f.turn = now /\ \E k \in 1 .. Len(hit) : f.id = hit[k].id
      <3>1. PICK a \in Alerts!ToSet(hit) : f = [id |-> a.id, turn |-> now, right |-> Alerts!Hit(a, pr[a.symbol])]
        BY <2>2
      <3>2. PICK k \in 1 .. Len(hit) : a = hit[k] BY <2>1
      <3>3. Alerts!Hit(a, pr[a.symbol]) \in BOOLEAN BY Zenon DEF Alerts!Hit
      <3>4. a.id \in AlertIds BY <1>4, <3>2
      <3>5. f \in Announcement BY <3>1, <3>3, <3>4, Zenon DEF Announcement
      <3> QED BY <3>1, <3>2, <3>5
    <2>3. ASSUME NEW k \in 1 .. Len(hit) PROVE \E f \in told : f.id = hit[k].id
      <3>1. hit[k] \in Alerts!ToSet(hit) BY <1>4 DEF Alerts!ToSet
      <3> DEFINE f == [id |-> hit[k].id, turn |-> now, right |-> Alerts!Hit(hit[k], pr[hit[k].symbol])]
      <3>2. f \in told /\ f.id = hit[k].id BY <3>1
      <3> QED BY <3>2
    <2> QED BY <2>2, <2>3
  <1> HIDE DEF news, told
  <1>7. toasts \in Seq(ScreenToast) /\ fired \subseteq Announcement /\ queued \subseteq AlertIds
    BY DEF AlertsInv, AlertsTyped
  <1>8. left \in Seq(ScreenToast) /\ Len(left) <= MaxToasts BY <1>5, <1>7, AddToastsFacts
  <1> HIDE DEF left
  <1>9. {a.id : a \in Alerts!ToSet(hit)} \subseteq AlertIds
        /\ \A x : x \in {a.id : a \in Alerts!ToSet(hit)} <=> \E k \in 1 .. Len(hit) : hit[k].id = x
    BY <1>4 DEF Alerts!ToSet
  <1>10. \A x : x \in queued' <=> x \in queued \/ \E k \in 1 .. Len(hit) : hit[k].id = x
    BY <1>2, <1>9
  <1>11. AlertsTyped'
    <2>1. seen' \subseteq Alerts!Toast /\ alertSent' \subseteq AlertIds
      BY <1>2, <1>8, DispatchTyped DEF AlertsInv
    <2>2. queued' \subseteq AlertIds BY <1>2, <1>7, <1>9
    <2>3. fired' \subseteq Announcement BY <1>2, <1>6, <1>7
    <2> QED BY <1>2, <1>8, <2>1, <2>2, <2>3 DEF AlertsInv, AlertsTyped
  \* An alert that is announced now was announced before for this hit only.
  <1>12. \A k \in 1 .. Len(hit) : hit[k].id <= m /\ \A f \in fired : f.id = hit[k].id => f.turn = now
    <2>1. SUFFICES ASSUME NEW k \in 1 .. Len(hit)
                   PROVE  hit[k].id <= m /\ \A f \in fired : f.id = hit[k].id => f.turn = now
      OBVIOUS
    <2>2. PICK i \in DOMAIN list : hit[k] = list[i] BY <1>3, <1>4
    <2>3. list[i].id \notin past /\ list[i].id <= m BY <1>3, <1>4, <2>2 DEF Listed
    <2>4. ASSUME NEW f \in fired, f.id = list[i].id PROVE f.turn = now
      <3>1. list[i].id \in past \cup queued BY <2>4 DEF Listed
      <3> QED BY <2>3, <2>4, <3>1
    <2> QED BY <2>2, <2>3, <2>4
  <1>13. Listed(alerts, made, triggered \cup queued, fired)'
    <2>1. ASSUME NEW i \in DOMAIN list
          PROVE  list[i].id \in past \cup queued' <=> \E f \in fired' : f.id = list[i].id
      <3>1. list[i].id \in past \cup queued <=> \E f \in fired : f.id = list[i].id BY DEF Listed
      <3>2. (\E f \in told : f.id = list[i].id) <=> \E k \in 1 .. Len(hit) : hit[k].id = list[i].id BY <1>6
      <3> QED BY <1>2, <1>10, <3>1, <3>2
    <2>2. ASSUME NEW x \in past \cup queued' PROVE \E i \in DOMAIN list : list[i].id = x
      <3>1. CASE x \in past \cup queued BY <3>1 DEF Listed
      <3>2. CASE x \notin past \cup queued
        <4>1. PICK k \in 1 .. Len(hit) : hit[k].id = x BY <1>10, <2>2, <3>2
        <4>2. PICK i \in DOMAIN list : hit[k] = list[i] BY <1>3, <1>4, <4>1
        <4> QED BY <4>1, <4>2
      <3> QED BY <3>1, <3>2
    <2>3. \A f \in fired' : f.id <= m BY <1>2, <1>6, <1>12 DEF Listed
    <2>4. ASSUME NEW f \in fired', NEW g \in fired', f.id = g.id PROVE f.turn = g.turn
      <3>1. CASE f \in fired /\ g \in fired BY <2>4, <3>1 DEF Listed
      <3>2. CASE f \in told /\ g \in told BY <1>6, <3>2
      <3>3. CASE f \in told /\ g \in fired BY <1>6, <1>12, <2>4, <3>3
      <3>4. CASE f \in fired /\ g \in told BY <1>6, <1>12, <2>4, <3>4
      <3> QED BY <1>2, <3>1, <3>2, <3>3, <3>4
    <2>5. \A i \in DOMAIN list : list[i].id <= m BY DEF Listed
    <2> QED BY <1>1, <2>1, <2>2, <2>3, <2>4, <2>5 DEF Listed
  <1>14. Waits'
    <2>1. ASSUME NEW f \in fired', f.id \in queued' PROVE f.turn = now
      <3>1. CASE f \in told BY <1>6, <3>1
      <3>2. CASE f \in fired BY <1>10, <1>12, <2>1, <3>2
      <3> QED BY <1>2, <3>1, <3>2
    <2> QED BY <1>2, <2>1 DEF Waits
  <1>15. NoneOverlooked'
    <2>1. SUFFICES ASSUME NEW i \in DOMAIN list
                   PROVE  list[i].id \in past \cup queued' \/ ~Alerts!Hit(list[i], pr[s])
      BY DEF NoneOverlooked, Alerts!Hit
    <2>2. ASSUME NEW k \in DOMAIN hit, hit[k] = list[i] PROVE list[i].id \in queued'
      BY <1>4, <1>10, <2>2
    <2> QED BY <1>3, <2>2
  <1> QED BY <1>11, <1>13, <1>14, <1>15 DEF AlertsInv

\* An event's first run of the effect.
LEMMA CheckKeeps ==
  ASSUME AlertsInv, NEW list \in Seq(Alerts!Alert), NEW s \in Symbols, NEW pr \in [Symbols -> 0 .. MaxPrice],
         NEW m \in 0 .. MaxAlerts, NEW past \in SUBSET AlertIds,
         Listed(list, m, past, fired), Alerts!Check(list, s, pr, past), others' = others,
         alerts' = list, alertSymbol' = s, alertPrice' = pr, made' = m
  PROVE  AlertsInv'
  <1> DEFINE some == Alerts!HitAt(list, pr[s], past) # {}
             now == IF some THEN turn + 1 ELSE turn
             hit == Alerts!Hits(list, pr[s], past)
  <1>1. /\ runs = 0 /\ runs' = (IF some THEN 1 ELSE 0) /\ triggered' = past
        /\ Alerts!Announce(list, s, pr, past, now)
    BY DEF Alerts!Check
  <1>2. queued = {} /\ past \cup queued = past BY <1>1 DEF AlertsInv, Waits
  <1>3. now \in Nat BY DEF AlertsInv, AlertsTyped
  <1>4. runs' \in 0 .. MaxRuns BY <1>1, AlertsAssumption
  <1>5. ASSUME runs' = 0 PROVE queued' = {}
    <2>1. Alerts!HitAt(list, pr[s], past) = {} BY <1>1, <1>5
    <2>2. \A i, j \in DOMAIN list : list[i].id = list[j].id => i = j BY DEF Listed
    <2>3. DOMAIN hit = {} BY <2>1, <2>2, HitsFacts
    <2>4. queued' = queued \cup {a.id : a \in Alerts!ToSet(hit)} BY <1>1 DEF Alerts!Announce
    <2> HIDE DEF hit
    <2>5. Alerts!ToSet(hit) = {} BY <2>3 DEF Alerts!ToSet
    <2> QED BY <1>2, <2>4, <2>5
  <1> HIDE DEF now
  <1> QED BY <1>1, <1>2, <1>3, <1>4, <1>5, AnnounceKeeps

\* The runs that follow, and how they end.
LEMMA AlertsSettle ==
  ASSUME AlertsInv, Alerts!Rerun \/ Alerts!Apply \/ Alerts!GivesUp PROVE AlertsInv'
  <1>1. AlertsTyped /\ Listed(alerts, made, triggered \cup queued, fired) /\ Waits /\ NoneOverlooked
    BY DEF AlertsInv
  <1>2. CASE Alerts!Rerun
    <2>1. /\ runs \in 1 .. MaxRuns - 1 /\ runs' = runs + 1 /\ triggered' = triggered /\ others' = others
          /\ Alerts!Announce(alerts, alertSymbol, alertPrice, triggered, turn)
          /\ alerts' = alerts /\ alertSymbol' = alertSymbol /\ alertPrice' = alertPrice /\ made' = made
      BY <1>2 DEF Alerts!Rerun
    <2>2. runs' \in 0 .. MaxRuns /\ runs' # 0 BY <2>1, AlertsAssumption
    <2>3. \A k \in fired : k.id \in queued => k.turn = turn BY <1>1 DEF Waits
    <2>4. /\ alertSymbol \in Symbols /\ alertPrice \in [Symbols -> 0 .. MaxPrice] /\ turn \in Nat
          /\ triggered \in SUBSET AlertIds /\ made \in 0 .. MaxAlerts /\ alerts \in Seq(Alerts!Alert)
      BY <1>1 DEF AlertsTyped
    <2> QED BY <1>1, <2>1, <2>2, <2>3, <2>4, AnnounceKeeps
  <1>3. CASE Alerts!Apply
    <2>1. /\ runs' = 0 /\ triggered' = triggered \cup queued /\ queued' = {}
          /\ UNCHANGED <<alertSymbol, alertPrice, alerts, made, turn, fired, toasts, others, seen, alertSent>>
      BY <1>3 DEF Alerts!Apply
    <2>2. AlertsTyped' BY <1>1, <2>1, AlertsAssumption DEF AlertsTyped
    <2>3. Listed(alerts, made, triggered \cup queued, fired)'
      <3>1. (triggered \cup queued)' = triggered \cup queued BY <2>1
      <3> QED BY <1>1, <2>1, <3>1 DEF Listed
    <2>4. Waits' /\ NoneOverlooked' BY <1>1, <2>1 DEF Waits, NoneOverlooked, Alerts!Hit
    <2> QED BY <2>2, <2>3, <2>4 DEF AlertsInv
  <1>4. CASE Alerts!GivesUp
    <2>1. /\ runs' = 0 /\ alerts' = << >> /\ triggered' = {} /\ queued' = {}
          /\ UNCHANGED <<alertSymbol, alertPrice, made, turn, fired, toasts, others, seen, alertSent>>
      BY <1>4 DEF Alerts!GivesUp
    <2>2. AlertsTyped'
      <3>1. << >> \in Seq(Alerts!Alert) OBVIOUS
      <3> QED BY <1>1, <2>1, <3>1, AlertsAssumption DEF AlertsTyped
    <2>3. (triggered \cup queued)' = {} BY <2>1
    <2>4. Listed(alerts, made, triggered \cup queued, fired)' BY <1>1, <2>1, <2>3 DEF Listed
    <2>5. Waits' /\ NoneOverlooked' BY <2>1 DEF Waits, NoneOverlooked
    <2> QED BY <2>2, <2>4, <2>5 DEF AlertsInv
  <1> QED BY <1>2, <1>3, <1>4

\* Between two events nothing waits.
LEMMA SettledList ==
  ASSUME AlertsInv, runs = 0 PROVE queued = {} /\ Listed(alerts, made, triggered, fired)
  <1>1. queued = {} /\ triggered \cup queued = triggered BY DEF AlertsInv, Waits
  <1>2. Listed(alerts, made, triggered \cup queued, fired) BY DEF AlertsInv
  <1> QED BY <1>1, <1>2

LEMMA AlertsAdd ==
  ASSUME AlertsInv, NEW above \in BOOLEAN, NEW t \in 1 .. MaxPrice, Alerts!AddAlert(above, t)
  PROVE  AlertsInv'
  <1> DEFINE a == [id |-> made + 1, symbol |-> alertSymbol, above |-> above, threshold |-> t]
             list == Append(alerts, a)
  <1>1. /\ made < MaxAlerts /\ made' = made + 1 /\ alerts' = list /\ others' = others
        /\ Alerts!Check(list, alertSymbol, alertPrice, triggered)
        /\ alertSymbol' = alertSymbol /\ alertPrice' = alertPrice /\ runs = 0
    BY DEF Alerts!AddAlert, Alerts!Check
  <1>2. /\ alertSymbol \in Symbols /\ alertPrice \in [Symbols -> 0 .. MaxPrice] /\ triggered \in SUBSET AlertIds
        /\ made \in Nat /\ made + 1 \in 0 .. MaxAlerts /\ alerts \in Seq(Alerts!Alert)
        /\ fired \subseteq Announcement
    BY <1>1, AlertsAssumption DEF AlertsInv, AlertsTyped
  <1>3. a \in Alerts!Alert /\ a.id = made + 1
    <2>1. made + 1 \in Alerts!Ids BY <1>2, AlertsAssumption DEF Alerts!Ids
    <2> QED BY <1>2, <2>1, Zenon DEF Alerts!Alert
  <1> HIDE DEF a
  <1>4. /\ list \in Seq(Alerts!Alert) /\ DOMAIN list = 1 .. Len(alerts) + 1 /\ Len(alerts) \in Nat
        /\ DOMAIN alerts = 1 .. Len(alerts)
        /\ \A i \in 1 .. Len(alerts) : list[i] = alerts[i]
        /\ list[Len(alerts) + 1] = a
    BY <1>2, <1>3
  <1> HIDE DEF list
  <1>5. Listed(list, made + 1, triggered, fired)
    <2>1. Listed(alerts, made, triggered, fired) BY <1>1, SettledList
    <2>2. \A i \in 1 .. Len(alerts) : list[i].id \in Nat /\ list[i].id <= made
      <3>1. \A i \in 1 .. Len(alerts) : alerts[i] \in Alerts!Alert BY <1>2
      <3>2. \A x \in Alerts!Alert : x.id \in Nat BY AlertsAssumption DEF Alerts!Alert, Alerts!Ids
      <3> QED BY <1>4, <2>1, <3>1, <3>2 DEF Listed
    <2>3. \A k \in fired : k.id \in Nat /\ k.id <= made
      <3>2. \A x \in Announcement : x.id \in Nat BY AlertsAssumption DEF Announcement, AlertIds
      <3> QED BY <1>2, <2>1, <3>2 DEF Listed
    <2>4. \A i \in DOMAIN list : i \in 1 .. Len(alerts) \/ (i = Len(alerts) + 1 /\ list[i].id = made + 1)
      BY <1>3, <1>4
    <2>5. \A i, j \in DOMAIN list : list[i].id = list[j].id => i = j
      <3>1. SUFFICES ASSUME NEW i \in DOMAIN list, NEW j \in DOMAIN list, list[i].id = list[j].id PROVE i = j
        OBVIOUS
      <3>2. CASE i \in 1 .. Len(alerts) /\ j \in 1 .. Len(alerts) BY <1>4, <2>1, <3>1, <3>2 DEF Listed
      <3>3. CASE i \notin 1 .. Len(alerts) \/ j \notin 1 .. Len(alerts) BY <1>2, <2>2, <2>4, <3>1, <3>3
      <3> QED BY <3>2, <3>3
    <2>6. \A x \in triggered : x \in Nat /\ x <= made
      <3>1. SUFFICES ASSUME NEW x \in triggered PROVE x \in Nat /\ x <= made OBVIOUS
      <3>2. PICK i \in 1 .. Len(alerts) : alerts[i].id = x BY <1>4, <2>1 DEF Listed
      <3> QED BY <1>4, <2>2, <3>2
    <2>7. ASSUME NEW i \in DOMAIN list
          PROVE  /\ list[i].id <= made + 1
                 /\ list[i].id \in triggered <=> \E k \in fired : k.id = list[i].id
      <3>1. CASE i \in 1 .. Len(alerts) BY <1>2, <1>4, <2>1, <2>2, <3>1 DEF Listed
      <3>2. CASE list[i].id = made + 1 BY <1>2, <2>3, <2>6, <3>2
      <3> QED BY <2>4, <3>1, <3>2
    <2>8. \A x \in triggered : \E i \in DOMAIN list : list[i].id = x
      <3>1. SUFFICES ASSUME NEW x \in triggered PROVE \E i \in DOMAIN list : list[i].id = x OBVIOUS
      <3>2. PICK i \in 1 .. Len(alerts) : alerts[i].id = x BY <1>4, <2>1 DEF Listed
      <3>3. i \in DOMAIN list BY <1>4
      <3> QED BY <1>4, <3>2, <3>3
    <2>9. \A k \in fired : k.id <= made + 1 BY <1>2, <2>3
    <2>10. \A i, j \in fired : i.id = j.id => i.turn = j.turn BY <2>1 DEF Listed
    <2> QED BY <2>5, <2>7, <2>8, <2>9, <2>10 DEF Listed
  <1> QED BY <1>1, <1>2, <1>4, <1>5, CheckKeeps

LEMMA AlertsRemove ==
  ASSUME AlertsInv, NEW r \in DOMAIN alerts, Alerts!RemoveAlert(r) PROVE AlertsInv'
  <1> DEFINE list == Alerts!RemoveAt(alerts, r)
             past == triggered \ {alerts[r].id}
  <1>1. /\ alerts' = list /\ Alerts!Check(list, alertSymbol, alertPrice, past) /\ others' = others
        /\ alertSymbol' = alertSymbol /\ alertPrice' = alertPrice /\ made' = made /\ runs = 0
    BY DEF Alerts!RemoveAlert, Alerts!Check
  <1>2. /\ alertSymbol \in Symbols /\ alertPrice \in [Symbols -> 0 .. MaxPrice] /\ past \in SUBSET AlertIds
        /\ made \in 0 .. MaxAlerts /\ alerts \in Seq(Alerts!Alert) /\ fired \subseteq Announcement
    BY DEF AlertsInv, AlertsTyped
  <1>3. r \in 1 .. Len(alerts) /\ Len(alerts) \in Nat /\ DOMAIN alerts = 1 .. Len(alerts)
    <2>1. alerts \in Seq(Alerts!Alert) /\ r \in DOMAIN alerts BY <1>2
    <2> QED BY ONLY <2>1
  <1>4. /\ list \in Seq(Alerts!Alert) /\ Len(list) = Len(alerts) - 1
        /\ \A i \in 1 .. Len(alerts) - 1 : list[i] = alerts[IF i < r THEN i ELSE i + 1]
    <2>1. list = RemoveAt(alerts, r) BY Zenon DEF Alerts!RemoveAt, RemoveAt
    <2>2. /\ RemoveAt(alerts, r) \in Seq(Alerts!Alert) /\ Len(RemoveAt(alerts, r)) = Len(alerts) - 1
          /\ \A i \in 1 .. Len(alerts) - 1 : RemoveAt(alerts, r)[i] = alerts[IF i < r THEN i ELSE i + 1]
      BY ONLY <1>2, <1>3, RemoveAtPlaces, Zenon
    <2> HIDE DEF list
    <2> QED BY <2>1, <2>2
  <1> HIDE DEF list
  <1>5. DOMAIN list = 1 .. Len(alerts) - 1 BY <1>3, <1>4
  <1> DEFINE from(i) == IF i < r THEN i ELSE i + 1
  <1>6. \A i \in DOMAIN list : from(i) \in DOMAIN alerts /\ from(i) # r /\ list[i] = alerts[from(i)]
    BY <1>3, <1>4, <1>5
  <1>7. \A i, j \in DOMAIN list : from(i) = from(j) => i = j BY <1>3, <1>5
  <1>8. \A k \in DOMAIN alerts : k # r => \E i \in DOMAIN list : list[i] = alerts[k]
    <2>1. SUFFICES ASSUME NEW k \in DOMAIN alerts, k # r PROVE \E i \in DOMAIN list : list[i] = alerts[k]
      OBVIOUS
    <2>2. CASE k < r
      <3>1. k \in DOMAIN list BY <1>3, <1>5, <2>2
      <3> QED BY <1>4, <1>5, <2>2, <3>1
    <2>3. CASE k > r
      <3>1. k - 1 \in DOMAIN list /\ ~(k - 1 < r) /\ (k - 1) + 1 = k BY <1>3, <1>5, <2>3
      <3>2. list[k - 1] = alerts[k] BY <1>4, <1>5, <3>1
      <3> QED BY <3>1, <3>2
    <2> QED BY <1>3, <2>1, <2>2, <2>3
  <1> HIDE DEF from
  <1>9. Listed(alerts, made, triggered, fired) BY <1>1, SettledList
  <1>10. Listed(list, made, past, fired)
    <2>1. \A i, j \in DOMAIN list : list[i].id = list[j].id => i = j BY <1>6, <1>7, <1>9 DEF Listed
    <2>2. \A i \in DOMAIN list : list[i].id # alerts[r].id BY <1>3, <1>6, <1>9 DEF Listed
    <2>3. \A i \in DOMAIN list : /\ list[i].id <= made
                                 /\ list[i].id \in past <=> \E k \in fired : k.id = list[i].id
      BY <1>6, <1>9, <2>2 DEF Listed
    <2>4. \A x \in past : \E i \in DOMAIN list : list[i].id = x
      <3>1. SUFFICES ASSUME NEW x \in past PROVE \E i \in DOMAIN list : list[i].id = x OBVIOUS
      <3>2. PICK k \in DOMAIN alerts : alerts[k].id = x BY <1>9 DEF Listed
      <3>3. k # r BY <3>2
      <3> QED BY <1>8, <3>2, <3>3
    <2> QED BY <1>9, <2>1, <2>3, <2>4 DEF Listed
  <1> HIDE DEF past
  <1> QED BY <1>1, <1>2, <1>4, <1>10, CheckKeeps

\* A new price, another symbol: the same list is checked again.
LEMMA AlertsAgain ==
  ASSUME AlertsInv, NEW s \in Symbols,
         Alerts!SelectSymbol(s) \/ \E p \in 1 .. MaxPrice : Alerts!PriceMoves(s, p)
  PROVE  AlertsInv'
  <1>1. /\ alertSymbol \in Symbols /\ alertPrice \in [Symbols -> 0 .. MaxPrice] /\ triggered \in SUBSET AlertIds
        /\ made \in 0 .. MaxAlerts /\ alerts \in Seq(Alerts!Alert) /\ Listed(alerts, made, triggered, fired)
    <2>1. runs = 0 BY DEF Alerts!SelectSymbol, Alerts!PriceMoves, Alerts!Check
    <2> QED BY <2>1, SettledList DEF AlertsInv, AlertsTyped
  <1>2. ASSUME NEW p \in 1 .. MaxPrice, Alerts!PriceMoves(s, p) PROVE AlertsInv'
    <2> DEFINE pr == [alertPrice EXCEPT ![s] = p]
    <2>1. /\ alertPrice' = pr /\ Alerts!Check(alerts, alertSymbol, pr, triggered) /\ others' = others
          /\ alerts' = alerts /\ made' = made /\ alertSymbol' = alertSymbol
      BY <1>2 DEF Alerts!PriceMoves
    <2>2. pr \in [Symbols -> 0 .. MaxPrice] BY <1>1, AlertsAssumption
    <2> HIDE DEF pr
    <2> QED BY <1>1, <2>1, <2>2, CheckKeeps
  <1>3. CASE Alerts!SelectSymbol(s)
    <2>1. /\ alertPrice' = alertPrice /\ Alerts!Check(alerts, s, alertPrice, triggered) /\ others' = others
          /\ alerts' = alerts /\ made' = made /\ alertSymbol' = s
      BY <1>3 DEF Alerts!SelectSymbol
    <2> QED BY <1>1, <2>1, CheckKeeps
  <1> QED BY <1>2, <1>3

\* Toasts of other origin, and toasts that go, leave the alerts alone.
LEMMA AlertsToasts ==
  ASSUME AlertsInv,
         \/ Alerts!OtherToast \/ Alerts!ClearAll \/ Alerts!OpenHooks
         \/ \E i \in DOMAIN toasts : Alerts!RemoveToast(i)
  PROVE  AlertsInv'
  <1>1. toasts \in Seq(ScreenToast) /\ Len(toasts) <= MaxToasts /\ others \in Nat BY DEF AlertsInv, AlertsTyped
  <1>2. UNCHANGED <<alertSymbol, alertPrice, alerts, made, triggered, queued, runs, turn, fired>>
    BY DEF Alerts!OtherToast, Alerts!ClearAll, Alerts!OpenHooks, Alerts!RemoveToast, Alerts!noteVars
  <1>3. ASSUME toasts' \in Seq(ScreenToast), Len(toasts') <= MaxToasts, others' \in Nat,
               seen' \subseteq Alerts!Toast, alertSent' \subseteq AlertIds
        PROVE  AlertsInv'
    <2>1. AlertsTyped' BY <1>2, <1>3 DEF AlertsInv, AlertsTyped
    <2>2. Listed(alerts, made, triggered \cup queued, fired)' /\ Waits' /\ NoneOverlooked'
      BY <1>2 DEF AlertsInv, Listed, Waits, NoneOverlooked, Alerts!Hit
    <2> QED BY <2>1, <2>2 DEF AlertsInv
  <1>4. AlertsTyped BY DEF AlertsInv
  <1>5. CASE Alerts!OtherToast
    <2> DEFINE new == <<[kind |-> "other", n |-> others + 1]>>  now == Alerts!AddToasts(toasts, new)
    <2>1. others' = others + 1 /\ toasts' = now /\ Alerts!Dispatch(now, hook) BY <1>5 DEF Alerts!OtherToast
    <2>2. new \in Seq(ScreenToast) BY <1>1 DEF ScreenToast, Alerts!Toast
    <2> HIDE DEF new
    <2>3. now \in Seq(ScreenToast) /\ Len(now) <= MaxToasts BY <1>1, <2>2, AddToastsFacts
    <2> HIDE DEF now
    <2> QED BY <1>1, <1>3, <1>4, <2>1, <2>3, DispatchTyped
  <1>6. CASE Alerts!ClearAll
    <2>1. toasts' = << >> /\ UNCHANGED <<others, seen, alertSent>> BY <1>6 DEF Alerts!ClearAll
    <2>2. << >> \in Seq(ScreenToast) /\ Len(<< >>) <= MaxToasts BY AlertsAssumption
    <2> QED BY <1>1, <1>3, <1>4, <2>1, <2>2 DEF AlertsTyped
  <1>7. CASE Alerts!OpenHooks
    <2>1. /\ toasts' = toasts /\ others' = others /\ seen' = Alerts!ToSet(toasts)
          /\ alertSent' = alertSent \cup {t.n : t \in {u \in Alerts!ToSet(toasts) : u.kind = "alert"}}
      BY <1>7 DEF Alerts!OpenHooks
    <2>2. Alerts!ToSet(toasts) \subseteq ScreenToast BY <1>1 DEF Alerts!ToSet
    <2>3. seen' \subseteq Alerts!Toast /\ alertSent' \subseteq AlertIds
      BY <1>4, <2>1, <2>2 DEF AlertsTyped, ScreenToast
    <2> QED BY <1>1, <1>3, <2>1, <2>3
  <1>8. ASSUME NEW i \in DOMAIN toasts, Alerts!RemoveToast(i) PROVE AlertsInv'
    <2>1. others' = others /\ toasts' = RemoveAt(toasts, i) /\ Alerts!Dispatch(toasts', hook)
      BY <1>8 DEF Alerts!RemoveToast, Alerts!RemoveAt, RemoveAt
    <2>2. i \in 1 .. Len(toasts) /\ Len(toasts) \in Nat BY <1>1
    <2>3. toasts' \in Seq(ScreenToast) /\ Len(toasts') = Len(toasts) - 1 BY <1>1, <2>1, <2>2, RemoveAtPlaces
    <2>4. Len(toasts') <= MaxToasts BY <1>1, <2>2, <2>3, AlertsAssumption
    <2>5. seen' \subseteq Alerts!Toast /\ alertSent' \subseteq AlertIds BY <1>4, <2>1, <2>3, DispatchTyped
    <2> QED BY <1>1, <1>3, <2>1, <2>3, <2>4, <2>5
  <1> QED BY <1>5, <1>6, <1>7, <1>8

LEMMA AlertsStep == ASSUME AlertsInv, Alerts!Next PROVE AlertsInv'
  <1>1. \/ Alerts!Rerun \/ Alerts!Apply \/ Alerts!GivesUp \/ Alerts!OtherToast \/ Alerts!ClearAll \/ Alerts!OpenHooks
        \/ \E above \in BOOLEAN, t \in 1 .. MaxPrice : Alerts!AddAlert(above, t)
        \/ \E i \in DOMAIN alerts : Alerts!RemoveAlert(i)
        \/ \E s \in Symbols : Alerts!SelectSymbol(s) \/ \E p \in 1 .. MaxPrice : Alerts!PriceMoves(s, p)
        \/ \E i \in DOMAIN toasts : Alerts!RemoveToast(i)
    BY DEF Alerts!Next
  <1> QED BY <1>1, AlertsSettle, AlertsAdd, AlertsRemove, AlertsAgain, AlertsToasts

\* The invariant in the words of PriceAlerts.
LEMMA AlertsAreSound ==
  AlertsInv => Alerts!TypeOK /\ Alerts!OneHitEach /\ Alerts!ActiveIsNotHit /\ Alerts!TriggeredIsListed
  <1> SUFFICES ASSUME AlertsInv
               PROVE  Alerts!TypeOK /\ Alerts!OneHitEach /\ Alerts!ActiveIsNotHit /\ Alerts!TriggeredIsListed
    OBVIOUS
  <1> USE DEF AlertsInv, AlertsTyped
  <1>1. Alerts!OneHitEach BY DEF Alerts!OneHitEach, Listed
  <1>2. Alerts!ActiveIsNotHit BY SettledList DEF Alerts!ActiveIsNotHit, NoneOverlooked, Alerts!ToSet
  <1>3. Alerts!TriggeredIsListed
    <2>1. Listed(alerts, made, triggered \cup queued, fired) OBVIOUS
    <2>2. ASSUME NEW x \in triggered
          PROVE  x \in {a.id : a \in Alerts!ToSet(alerts)} /\ x \in {f.id : f \in fired}
      <3>1. PICK i \in DOMAIN alerts : alerts[i].id = x BY <2>1 DEF Listed
      <3>2. PICK k \in fired : k.id = x BY <2>1, <3>1 DEF Listed
      <3> QED BY <3>1, <3>2 DEF Alerts!ToSet
    <2>3. ASSUME runs = 0, NEW a \in Alerts!ToSet(alerts), NEW f \in fired, f.id = a.id
          PROVE  a.id \in triggered
      <3>1. Listed(alerts, made, triggered, fired) BY <2>3, SettledList
      <3>2. PICK i \in DOMAIN alerts : alerts[i] = a BY DEF Alerts!ToSet
      <3> QED BY <2>3, <3>1, <3>2 DEF Listed
    <2> QED BY <2>2, <2>3 DEF Alerts!TriggeredIsListed
  <1>4. Alerts!TypeOK
    <2>1. Alerts!ToSet(alerts) \subseteq Alerts!Alert /\ Alerts!ToSet(toasts) \subseteq ScreenToast
      BY DEF Alerts!ToSet
    <2>2. ScreenToast \subseteq Alerts!Toast BY DEF ScreenToast
    <2> QED BY <2>1, <2>2 DEF Alerts!TypeOK, Alerts!Ids, AlertIds
  <1> QED BY <1>1, <1>2, <1>3, <1>4

-----------------------------------------------------------------------------
(* Notices of fills. *)

OrderIds == 1 .. MaxOrders
FillEntry == [id : OrderIds, status : {"PENDING", "FILLED"}]
OneDay == [date : 1 .. MaxDays, count : Nat]

FillsTyped ==
  /\ status \in [OrderIds -> {"none", "PENDING", "FILLED"}]
  /\ fills \in Seq(FillEntry) /\ Len(fills) <= FillCap /\ toasted \subseteq OrderIds
  /\ fillSeen \in Seq(OrderIds) /\ Len(fillSeen) <= SeenCap /\ fillSent \in Seq(OrderIds)

Distinct(s) == \A i, j \in DOMAIN s : s[i] = s[j] => i = j

\* Reported orders are filled, and so is what the list calls filled.
ReportsAreFills ==
  /\ Distinct(fillSeen) /\ Distinct(fillSent)
  /\ \A i \in DOMAIN fills : fills[i].status = "FILLED" => status[fills[i].id] = "FILLED"
  /\ \A i \in DOMAIN fillSent : status[fillSent[i]] = "FILLED"
  /\ fillHook \/ fillSent = << >>

(***************************************************************************)
(* The key of entry q is remembered, and will be as long as the entry is   *)
(* there: what was remembered after it are keys of entries above it, and   *)
(* keys B of those that were there when it was reported; all keys below it *)
(* are among B.  Hence fewer than 2 * FillCap - 1 are newer.               *)
(***************************************************************************)
Recalled(keys, list, q) ==
  \E p \in DOMAIN keys, B \in SUBSET OrderIds :
    /\ keys[p] = list[q].id /\ Cardinality(B) <= FillCap - 1
    /\ \A k \in p + 1 .. Len(keys) : keys[k] \in B \/ \E j \in 1 .. q - 1 : list[j].id = keys[k]
    /\ \A j \in q + 1 .. Len(list) : list[j].id \in B \/ list[j].id = list[q].id

ReportedIsRecalled ==
  \A q \in DOMAIN fills : (\E i \in DOMAIN fillSent : fillSent[i] = fills[q].id) => Recalled(fillSeen, fills, q)

(***************************************************************************)
(* The count is that of its day, no later day has one, and the summaries   *)
(* are of earlier days.                                                    *)
(***************************************************************************)
CountIsOfItsDay ==
  /\ day \in 1 .. MaxDays /\ dayFills \in [date : 0 .. MaxDays, count : Nat]
  /\ reported \in [1 .. MaxDays -> Nat] /\ summaries \in Seq(OneDay)
  /\ dayFills.date <= day /\ (dayFills.date # 0 => dayFills.count = reported[dayFills.date])
  /\ \A d \in 1 .. MaxDays : d > dayFills.date => reported[d] = 0
  /\ \A i \in DOMAIN summaries : /\ summaries[i].date < dayFills.date
                                 /\ summaries[i].count = reported[summaries[i].date]
  /\ \A i, j \in DOMAIN summaries : summaries[i].date = summaries[j].date => i = j

FillsInv == FillsTyped /\ ReportsAreFills /\ ReportedIsRecalled /\ CountIsOfItsDay

LEMMA FillsInit == Fills!Init => FillsInv
  <1> SUFFICES ASSUME Fills!Init PROVE FillsInv OBVIOUS
  <1>1. /\ status = [o \in Fills!Orders |-> "none"] /\ fills = << >> /\ toasted = {} /\ fillSeen = << >>
        /\ fillSent = << >> /\ day = 1 /\ dayFills = [date |-> Fills!NoDay, count |-> 0]
        /\ reported = [d \in Fills!Days |-> 0] /\ summaries = << >>
    BY Zenon DEF Fills!Init
  <1>2. FillsTyped BY <1>1, FillsAssumption DEF FillsTyped, Fills!Orders, OrderIds
  <1>3. CountIsOfItsDay BY <1>1, FillsAssumption DEF CountIsOfItsDay, Fills!Days, Fills!NoDay
  <1> QED BY <1>1, <1>2, <1>3 DEF FillsInv, ReportsAreFills, ReportedIsRecalled, Distinct

-----------------------------------------------------------------------------
(* The keys. *)

\* The places where a key is met first, and those of them that are new.
LEMMA KeyPlaces ==
  ASSUME FillsTyped
  PROVE  /\ Len(fills) \in Nat /\ DOMAIN fills = 1 .. Len(fills)
         /\ \A i \in DOMAIN fills : fills[i] \in FillEntry /\ fills[i].id \in OrderIds
         /\ Fills!KeysAt \subseteq 1 .. Len(fills) /\ Fills!NewAt \subseteq Fills!KeysAt
         /\ Fills!NewFilledAt \subseteq Fills!NewAt
         /\ \A i, j \in Fills!KeysAt : fills[i].id = fills[j].id => i = j
         /\ \A i \in Fills!NewAt, k \in DOMAIN fillSeen : fills[i].id # fillSeen[k]
         /\ \A i \in Fills!NewFilledAt : fills[i].status = "FILLED"
  <1>1. Len(fills) \in Nat /\ DOMAIN fills = 1 .. Len(fills) BY DEF FillsTyped
  <1>2. \A i \in DOMAIN fills : fills[i] \in FillEntry /\ fills[i].id \in OrderIds
    <2>1. \A i \in DOMAIN fills : fills[i] \in FillEntry BY DEF FillsTyped
    <2>2. \A e \in FillEntry : e.id \in OrderIds BY DEF FillEntry
    <2> QED BY <2>1, <2>2
  <1>3. /\ Fills!KeysAt \subseteq 1 .. Len(fills) /\ Fills!NewAt \subseteq Fills!KeysAt
        /\ Fills!NewFilledAt \subseteq Fills!NewAt
    BY <1>1 DEF Fills!KeysAt, Fills!NewAt, Fills!NewFilledAt
  <1>4. ASSUME NEW i \in Fills!KeysAt, NEW j \in Fills!KeysAt, fills[i].id = fills[j].id PROVE i = j
    <2>1. i \in 1 .. Len(fills) /\ j \in 1 .. Len(fills) BY <1>3
    <2>2. /\ \A k \in 1 .. i - 1 : fills[k].id # fills[i].id
          /\ \A k \in 1 .. j - 1 : fills[k].id # fills[j].id
      BY DEF Fills!KeysAt
    <2>3. ~(j < i) /\ ~(i < j)
      <3>1. j < i => j \in 1 .. i - 1 BY <1>1, <2>1
      <3>2. i < j => i \in 1 .. j - 1 BY <1>1, <2>1
      <3> QED BY <1>4, <2>2, <3>1, <3>2
    <2> QED BY <1>1, <2>1, <2>3
  <1>5. \A i \in Fills!NewAt, k \in DOMAIN fillSeen : fills[i].id # fillSeen[k]
    BY DEF Fills!NewAt, Fills!ToSet
  <1>6. \A i \in Fills!NewFilledAt : fills[i].status = "FILLED" BY DEF Fills!NewFilledAt
  <1> QED BY <1>1, <1>2, <1>3, <1>4, <1>5, <1>6

\* The keys at some of these places, each once.
LEMMA KeysFacts ==
  ASSUME FillsTyped, NEW K \in SUBSET Fills!KeysAt
  PROVE  /\ Fills!Keys(K) \in Seq(OrderIds) /\ Len(Fills!Keys(K)) = Cardinality(K)
         /\ Cardinality(K) \in Nat /\ Cardinality(K) <= Len(fills)
         /\ DOMAIN Fills!Keys(K) = 1 .. Cardinality(K)
         /\ \A k \in 1 .. Cardinality(K) : \E i \in K : Fills!Keys(K)[k] = fills[i].id
         /\ \A i \in K : \E k \in 1 .. Cardinality(K) : Fills!Keys(K)[k] = fills[i].id
         /\ Distinct(Fills!Keys(K))
  <1> DEFINE at == Alerts!Sorted(K)  c == Cardinality(K)  keys == Fills!Keys(K)
  <1>1. /\ Len(fills) \in Nat /\ \A i \in 1 .. Len(fills) : fills[i].id \in OrderIds
        /\ K \subseteq 1 .. Len(fills) /\ \A i, j \in K : fills[i].id = fills[j].id => i = j
    BY KeyPlaces
  <1>2. /\ c \in Nat /\ at \in [1 .. c -> K] /\ Fills!Sorted(K) = at
        /\ \A i, j \in 1 .. c : at[i] = at[j] => i = j
        /\ \A x \in K : \E i \in 1 .. c : at[i] = x
    BY <1>1, SortedFacts
  <1>3. c <= Len(fills)
    <2>1. IsFiniteSet(1 .. Len(fills)) /\ Cardinality(1 .. Len(fills)) = Len(fills) BY <1>1, FS_Interval
    <2>2. K \in SUBSET (1 .. Len(fills)) BY <1>1
    <2> QED BY <2>1, <2>2, FS_Subset
  <1> HIDE DEF at
  <1>4. keys = [k \in 1 .. c |-> fills[at[k]].id]
    <2>1. keys = [k \in DOMAIN at |-> fills[at[k]].id] BY <1>2 DEF Fills!Keys
    <2>2. DOMAIN at = 1 .. c BY <1>2
    <2> QED BY <2>1, <2>2
  <1> HIDE DEF keys
  <1>5. \A k \in 1 .. c : at[k] \in K /\ fills[at[k]].id \in OrderIds BY <1>1, <1>2
  <1>6. keys \in [1 .. c -> OrderIds] BY <1>4, <1>5
  <1>7. keys \in Seq(OrderIds) /\ Len(keys) = c BY <1>2, <1>6
  <1>8. \A k \in 1 .. c : \E i \in K : keys[k] = fills[i].id BY <1>4, <1>5
  <1>9. ASSUME NEW i \in K PROVE \E k \in 1 .. c : keys[k] = fills[i].id
    <2>1. PICK k \in 1 .. c : at[k] = i BY <1>2
    <2> QED BY <1>4, <2>1
  <1>10. ASSUME NEW i \in 1 .. c, NEW j \in 1 .. c, keys[i] = keys[j] PROVE i = j
    <2>1. fills[at[i]].id = fills[at[j]].id BY <1>4, <1>10
    <2>2. at[i] \in K /\ at[j] \in K BY <1>2
    <2>3. at[i] = at[j] BY ONLY <1>1, <2>1, <2>2
    <2> QED BY <1>2, <2>3
  <1>11. DOMAIN keys = 1 .. c BY <1>6
  <1>12. Distinct(keys) BY <1>10, <1>11 DEF Distinct
  <1> QED BY <1>2, <1>3, <1>7, <1>8, <1>9, <1>11, <1>12 DEF keys

\* The cut leaves the last keys.
LEMMA CutFacts ==
  ASSUME NEW w \in Seq(OrderIds)
  PROVE  LET d == Len(w) - Len(Fills!Cut(w))
         IN /\ Fills!Cut(w) \in Seq(OrderIds) /\ Len(Fills!Cut(w)) <= SeenCap
            /\ d \in Nat /\ (d = 0 \/ Len(Fills!Cut(w)) = SeenKeep)
            /\ \A i \in 1 .. Len(Fills!Cut(w)) : i + d \in 1 .. Len(w) /\ Fills!Cut(w)[i] = w[i + d]
  <1> DEFINE cut == Fills!Cut(w)
  <1>1. Len(w) \in Nat /\ SeenKeep \in Nat /\ SeenCap \in Nat /\ SeenKeep <= SeenCap /\ SeenKeep >= 1
    BY FillsAssumption
  <1>2. CASE Len(w) > SeenCap
    <2>1. cut = SubSeq(w, Len(w) - SeenKeep + 1, Len(w)) BY <1>2 DEF Fills!Cut
    <2> HIDE DEF cut
    <2>2. Len(w) - SeenKeep + 1 \in Nat \ {0} BY <1>1, <1>2
    <2>3. /\ cut \in Seq(OrderIds)
          /\ Len(cut) = (IF Len(w) - SeenKeep + 1 <= Len(w) THEN Len(w) - (Len(w) - SeenKeep + 1) + 1 ELSE 0)
          /\ \A k \in 1 .. Len(cut) : k + (Len(w) - SeenKeep + 1) - 1 \in 1 .. Len(w)
                                      /\ cut[k] = w[k + (Len(w) - SeenKeep + 1) - 1]
      BY <1>1, <2>1, <2>2, PartOfList
    <2>4. Len(cut) = SeenKeep BY <1>1, <2>3
    <2>5. \A k \in 1 .. Len(cut) : k + (Len(w) - SeenKeep + 1) - 1 = k + (Len(w) - Len(cut)) BY <1>1, <2>4
    <2>6. \A k \in 1 .. Len(cut) : k + (Len(w) - Len(cut)) \in 1 .. Len(w) /\ cut[k] = w[k + (Len(w) - Len(cut))]
      BY <2>3, <2>5
    <2>7. Len(w) - Len(cut) \in Nat BY <1>1, <1>2, <2>4
    <2> QED BY <1>1, <2>3, <2>4, <2>6, <2>7 DEF cut
  <1>3. CASE ~(Len(w) > SeenCap)
    <2>1. cut = w BY <1>3 DEF Fills!Cut
    <2> HIDE DEF cut
    <2>2. Len(w) - Len(cut) = 0 /\ \A i \in 1 .. Len(w) : i + 0 = i BY <1>1, <2>1
    <2> QED BY <1>1, <1>3, <2>1, <2>2 DEF cut
  <1> QED BY <1>2, <1>3

\* At most as many keys as entries.
LEMMA FewKeys ==
  ASSUME NEW list \in Seq(FillEntry), NEW n \in 0 .. Len(list)
  PROVE  LET A == {list[j].id : j \in 1 .. n} IN A \subseteq OrderIds /\ IsFiniteSet(A) /\ Cardinality(A) <= n
  <1> DEFINE A == {list[j].id : j \in 1 .. n}  f == [j \in 1 .. n |-> list[j].id]
  <1>1. Len(list) \in Nat /\ n \in Nat /\ \A j \in 1 .. n : list[j] \in FillEntry OBVIOUS
  <1>2. \A e \in FillEntry : e.id \in OrderIds BY DEF FillEntry
  <1>3. A \subseteq OrderIds BY <1>1, <1>2
  <1>4. f \in Surjection(1 .. n, A) BY DEF Surjection
  <1>5. IsFiniteSet(1 .. n) /\ Cardinality(1 .. n) = n BY <1>1, FS_Interval
  <1>6. IsFiniteSet(A) /\ Cardinality(A) <= n BY <1>4, <1>5, FS_Surjection
  <1> QED BY <1>3, <1>6

\* A key that is recalled survives the cut.
LEMMA CutRecalls ==
  ASSUME NEW w \in Seq(OrderIds), Distinct(w), NEW list \in Seq(FillEntry), Len(list) <= FillCap,
         NEW q \in 1 .. Len(list), Recalled(w, list, q)
  PROVE  Recalled(Fills!Cut(w), list, q)
  <1>1. PICK p \in 1 .. Len(w), B \in SUBSET OrderIds :
          /\ w[p] = list[q].id /\ Cardinality(B) <= FillCap - 1
          /\ \A k \in p + 1 .. Len(w) : w[k] \in B \/ \E j \in 1 .. q - 1 : list[j].id = w[k]
          /\ \A j \in q + 1 .. Len(list) : list[j].id \in B \/ list[j].id = list[q].id
    <2>1. DOMAIN w = 1 .. Len(w) OBVIOUS
    <2> QED BY <2>1, Zenon DEF Recalled
  <1> DEFINE A == {list[j].id : j \in 1 .. q - 1}
             After == p + 1 .. Len(w)
             g == [k \in After |-> w[k]]
             cut == Fills!Cut(w)
             d == Len(w) - Len(cut)
  <1>2. /\ Len(w) \in Nat /\ Len(list) \in Nat /\ FillCap \in Nat /\ SeenKeep \in Nat /\ p \in Nat
        /\ q \in Nat /\ q - 1 \in 0 .. Len(list) /\ DOMAIN w = 1 .. Len(w) /\ 2 * FillCap - 1 <= SeenKeep
    BY FillsAssumption
  <1>3. IsFiniteSet(A) /\ Cardinality(A) <= q - 1 /\ Cardinality(A) \in Nat
    BY <1>2, FewKeys, FS_CardinalityType
  <1>4. IsFiniteSet(B) /\ Cardinality(B) \in Nat
    <2>1. IsFiniteSet(OrderIds) BY FS_Interval, FillsAssumption DEF OrderIds
    <2>2. IsFiniteSet(B) BY <2>1, FS_Subset
    <2> QED BY <2>2, FS_CardinalityType
  <1>5. IsFiniteSet(B \cup A) /\ Cardinality(B \cup A) \in Nat
        /\ Cardinality(B \cup A) <= Cardinality(B) + Cardinality(A)
    <2>1. IsFiniteSet(B \cup A)
          /\ Cardinality(B \cup A) = Cardinality(B) + Cardinality(A) - Cardinality(B \cap A)
      BY <1>3, <1>4, FS_Union
    <2>2. Cardinality(B \cap A) \in Nat BY <1>4, FS_Intersection, FS_CardinalityType
    <2>3. Cardinality(B \cup A) \in Nat BY <2>1, FS_CardinalityType
    <2> QED BY <1>3, <1>4, <2>1, <2>2, <2>3
  <1>6. g \in Injection(After, B \cup A)
    <2>1. \A k \in After : w[k] \in B \cup A BY <1>1
    <2>2. \A k \in After : k \in DOMAIN w BY <1>2
    <2>3. \A i, j \in After : w[i] = w[j] => i = j BY <2>2 DEF Distinct
    <2> QED BY <2>1, <2>3 DEF Injection, IsInjective
  <1>7. Cardinality(After) = Len(w) - p
    <2>1. p + 1 \in Int /\ Len(w) \in Int /\ p <= Len(w) BY <1>2
    <2>2. Cardinality(After) = IF p + 1 > Len(w) THEN 0 ELSE Len(w) - (p + 1) + 1 BY <2>1, FS_Interval
    <2> QED BY <1>2, <2>1, <2>2
  <1>8. Len(w) - p <= Cardinality(B \cup A) BY <1>5, <1>6, <1>7, FS_Injection
  <1>9. Len(w) - p <= 2 * FillCap - 2 BY <1>1, <1>2, <1>3, <1>4, <1>5, <1>8
  <1>10. /\ cut \in Seq(OrderIds) /\ d \in Nat /\ (d = 0 \/ Len(cut) = SeenKeep)
         /\ \A i \in 1 .. Len(cut) : i + d \in 1 .. Len(w) /\ cut[i] = w[i + d]
    BY CutFacts
  <1> HIDE DEF cut
  <1>11. Len(cut) \in Nat /\ DOMAIN cut = 1 .. Len(cut) BY <1>10
  <1>12. p - d \in 1 .. Len(cut)
    <2>1. p <= Len(w) /\ Len(w) = d + Len(cut) /\ d \in Nat
      <3>1. p <= Len(w) BY <1>2
      <3>2. d \in Nat BY <1>10
      <3>3. \A x, y \in Nat : x = (x - y) + y OBVIOUS
      <3>4. Len(w) = (Len(w) - Len(cut)) + Len(cut) BY ONLY <1>2, <1>11, <3>3
      <3> QED BY <3>1, <3>2, <3>4
    <2>2. p > d
      <3>1. CASE d = 0 BY <3>1
      <3>2. CASE Len(cut) = SeenKeep BY <1>2, <1>9, <2>1, <3>2
      <3> QED BY <1>10, <3>1, <3>2
    <2> QED BY <1>2, <1>11, <2>1, <2>2
  <1>13. cut[p - d] = list[q].id
    <2>1. (p - d) + d = p BY <1>2, <1>11
    <2> QED BY <1>1, <1>10, <1>12, <2>1
  <1>14. ASSUME NEW k \in (p - d) + 1 .. Len(cut)
         PROVE  cut[k] \in B \/ \E j \in 1 .. q - 1 : list[j].id = cut[k]
    <2>1. k \in 1 .. Len(cut) /\ k + d \in p + 1 .. Len(w) BY <1>2, <1>11, <1>12
    <2> QED BY <1>1, <1>10, <2>1
  <1>15. p - d \in DOMAIN cut BY <1>11, <1>12
  <1> HIDE DEF d
  <1> QED BY <1>1, <1>13, <1>14, <1>15 DEF Recalled, cut

-----------------------------------------------------------------------------
(* Messages and effects. *)

\* A message puts entries of orders that were not filled before on top.
LEMMA FillsReceived ==
  ASSUME FillsInv, NEW new \in Seq(FillEntry), Fills!Received(new),
         status' \in [OrderIds -> {"none", "PENDING", "FILLED"}],
         \A o \in OrderIds : status[o] = "FILLED" => status'[o] = "FILLED",
         \A i \in DOMAIN new : /\ status[new[i].id] # "FILLED"
                               /\ new[i].status = "FILLED" => status'[new[i].id] = "FILLED"
  PROVE  FillsInv'
  <1> DEFINE all == new \o fills
             n == IF Len(all) < FillCap THEN Len(all) ELSE FillCap
  <1>1. /\ fills' = SubSeq(all, 1, n)
        /\ UNCHANGED <<toasted, fillHook, fillSeen, fillSent, day, dayFills, reported, summaries>>
    BY DEF Fills!Received, Fills!Newest
  <1>2. fills \in Seq(FillEntry) /\ Len(fills) \in Nat /\ FillCap \in Nat /\ DOMAIN fills = 1 .. Len(fills)
        /\ DOMAIN new = 1 .. Len(new) /\ Len(new) \in Nat
    BY FillsAssumption DEF FillsInv, FillsTyped
  <1>3. /\ all \in Seq(FillEntry) /\ Len(all) = Len(new) + Len(fills)
        /\ \A i \in 1 .. Len(new) : all[i] = new[i]
        /\ \A i \in 1 .. Len(fills) : all[Len(new) + i] = fills[i]
        /\ \A i \in 1 .. Len(all) : i \in 1 .. Len(new) \/ i - Len(new) \in 1 .. Len(fills)
    BY ONLY <1>2, JoinedPlaces, new \in Seq(FillEntry)
  <1> HIDE DEF all
  <1>4. n \in Nat /\ n <= Len(all) /\ n <= FillCap BY <1>2, <1>3
  <1>5. /\ fills' \in Seq(FillEntry) /\ Len(fills') = n /\ DOMAIN fills' = 1 .. n
        /\ \A i \in 1 .. n : fills'[i] = all[i]
    <2>1. SubSeq(all, 1, n) \in Seq(FillEntry) /\ Len(SubSeq(all, 1, n)) = (IF 1 <= n THEN n - 1 + 1 ELSE 0)
          /\ \A k \in 1 .. n : SubSeq(all, 1, n)[k - 1 + 1] = all[k]
      BY <1>3, <1>4, PartOfList
    <2>2. Len(SubSeq(all, 1, n)) = n BY <1>4, <2>1
    <2>3. \A k \in 1 .. n : k - 1 + 1 = k BY <1>4
    <2> HIDE DEF n
    <2> QED BY <1>1, <2>1, <2>2, <2>3
  <1> HIDE DEF n
  \* An entry of the new list is a new one or, further down, an old one.
  <1>6. ASSUME NEW i \in 1 .. n
        PROVE  \/ i \in 1 .. Len(new) /\ fills'[i] = new[i]
               \/ i - Len(new) \in 1 .. Len(fills) /\ fills'[i] = fills[i - Len(new)]
    <2>1. i \in 1 .. Len(all) BY <1>3, <1>4, <1>2
    <2>2. Len(new) + (i - Len(new)) = i BY <1>2, <1>4
    <2> QED BY <1>3, <1>5, <2>1, <2>2
  <1>7. FillsTyped' BY <1>1, <1>4, <1>5 DEF FillsInv, FillsTyped
  <1>8. ReportsAreFills'
    <2>1. \A e \in FillEntry : e.id \in OrderIds BY DEF FillEntry
    <2>2. \A i \in 1 .. Len(fills) : fills[i].id \in OrderIds BY <1>2, <2>1
    <2>3. ASSUME NEW i \in 1 .. n, fills'[i].status = "FILLED" PROVE status'[fills'[i].id] = "FILLED"
      BY <1>2, <1>6, <2>2, <2>3 DEF FillsInv, ReportsAreFills
    <2>4. \A i \in DOMAIN fillSent : fillSent[i] \in OrderIds BY DEF FillsInv, FillsTyped
    <2> QED BY <1>1, <1>5, <2>3, <2>4 DEF FillsInv, ReportsAreFills, Distinct
  <1>9. ReportedIsRecalled'
    <2>1. SUFFICES ASSUME NEW r \in 1 .. n, NEW s \in DOMAIN fillSent, fillSent[s] = fills'[r].id
                   PROVE  Recalled(fillSeen', fills', r)
      <3>1. fillSent' = fillSent /\ DOMAIN fills' = 1 .. n BY <1>1, <1>5
      <3> QED BY <3>1, Zenon DEF ReportedIsRecalled, Recalled
    <2> DEFINE q == r - Len(new)
    <2>2. q \in 1 .. Len(fills) /\ fills'[r] = fills[q]
      <3>1. status[fills'[r].id] = "FILLED" BY <2>1 DEF FillsInv, ReportsAreFills
      <3> QED BY <1>2, <1>6, <3>1
    <2>3. Recalled(fillSeen, fills, q) BY <1>2, <2>1, <2>2 DEF FillsInv, ReportedIsRecalled
    <2>4. PICK p \in DOMAIN fillSeen, B \in SUBSET OrderIds :
            /\ fillSeen[p] = fills[q].id /\ Cardinality(B) <= FillCap - 1
            /\ \A k \in p + 1 .. Len(fillSeen) :
                 fillSeen[k] \in B \/ \E j \in 1 .. q - 1 : fills[j].id = fillSeen[k]
            /\ \A j \in q + 1 .. Len(fills) : fills[j].id \in B \/ fills[j].id = fills[q].id
      BY <2>3, Zenon DEF Recalled
    <2>5. ASSUME NEW j \in 1 .. q - 1 PROVE Len(new) + j \in 1 .. r - 1 /\ fills'[Len(new) + j] = fills[j]
      <3>1. Len(new) + j \in 1 .. r - 1 /\ Len(new) + j \in 1 .. n /\ j \in 1 .. Len(fills)
        BY <1>2, <1>4, <2>2
      <3> QED BY <1>3, <1>5, <3>1
    <2>6. ASSUME NEW j \in r + 1 .. n PROVE j - Len(new) \in q + 1 .. Len(fills) /\ fills'[j] = fills[j - Len(new)]
      <3>1. j \in 1 .. n /\ ~(j \in 1 .. Len(new)) BY <1>2, <1>4, <2>2
      <3>2. j - Len(new) \in 1 .. Len(fills) /\ fills'[j] = fills[j - Len(new)] BY <1>6, <3>1
      <3> QED BY <1>2, <1>4, <2>2, <3>2
    <2> HIDE DEF q
    <2>7. ASSUME NEW k \in p + 1 .. Len(fillSeen)
          PROVE  fillSeen[k] \in B \/ \E j \in 1 .. r - 1 : fills'[j].id = fillSeen[k]
      <3>1. CASE fillSeen[k] \in B BY <3>1
      <3>2. CASE fillSeen[k] \notin B
        <4>1. PICK j \in 1 .. q - 1 : fills[j].id = fillSeen[k] BY <2>4, <3>2
        <4>2. Len(new) + j \in 1 .. r - 1 /\ fills'[Len(new) + j].id = fillSeen[k] BY <2>5, <4>1
        <4> QED BY <4>2
      <3> QED BY <3>1, <3>2
    <2>8. ASSUME NEW j \in r + 1 .. Len(fills') PROVE fills'[j].id \in B \/ fills'[j].id = fills'[r].id
      <3>1. j - Len(new) \in q + 1 .. Len(fills) /\ fills'[j] = fills[j - Len(new)] BY <1>5, <2>6
      <3> QED BY <2>2, <2>4, <3>1
    <2>9. fillSeen' = fillSeen BY <1>1
    <2>10. fillSeen[p] = fills'[r].id /\ Cardinality(B) <= FillCap - 1 BY <2>2, <2>4
    <2>11. Recalled(fillSeen, fills', r) BY <2>7, <2>8, <2>10, Zenon DEF Recalled
    <2> QED BY <2>9, <2>11
  <1>10. CountIsOfItsDay' BY <1>1 DEF FillsInv, CountIsOfItsDay
  <1> QED BY <1>7, <1>8, <1>9, <1>10 DEF FillsInv

LEMMA FillsMessage ==
  ASSUME FillsInv, NEW o \in OrderIds, NEW st \in {"PENDING", "FILLED"}, Fills!FillMessage(o, st)
  PROVE  FillsInv'
  <1> DEFINE new == <<[id |-> o, status |-> st]>>
  <1>1. status[o] = "none" /\ status' = [status EXCEPT ![o] = st] /\ Fills!Received(new)
    BY DEF Fills!FillMessage
  <1>2. status \in [OrderIds -> {"none", "PENDING", "FILLED"}] BY DEF FillsInv, FillsTyped
  <1>3. new \in Seq(FillEntry) BY DEF FillEntry
  <1>4. \A i \in DOMAIN new : new[i].id = o /\ new[i].status = st OBVIOUS
  <1>5. status' \in [OrderIds -> {"none", "PENDING", "FILLED"}] /\ status'[o] = st BY <1>1, <1>2
  <1>6. \A x \in OrderIds : status[x] = "FILLED" => status'[x] = "FILLED" BY <1>1, <1>2
  <1> HIDE DEF new
  <1>7. \A i \in DOMAIN new : /\ status[new[i].id] # "FILLED"
                              /\ new[i].status = "FILLED" => status'[new[i].id] = "FILLED"
    BY <1>1, <1>4, <1>5
  <1> QED BY <1>1, <1>3, <1>5, <1>6, <1>7, FillsReceived

LEMMA FillsOfBatch ==
  ASSUME FillsInv, NEW S \in SUBSET OrderIds, Fills!FillsBatch(S) PROVE FillsInv'
  <1> DEFINE ids == Fills!Sorted(S)
             new == [i \in DOMAIN ids |-> [id |-> ids[i], status |-> "FILLED"]]
  <1>1. /\ \A o \in S : status[o] = "PENDING" /\ Fills!Received(new)
        /\ status' = [o \in OrderIds |-> IF o \in S THEN "FILLED" ELSE status[o]]
    BY DEF Fills!FillsBatch, Fills!Orders, OrderIds
  <1>2. Cardinality(S) \in Nat /\ ids \in [1 .. Cardinality(S) -> S]
    <2>1. MaxOrders \in Nat /\ S \subseteq 1 .. MaxOrders BY FillsAssumption DEF OrderIds
    <2> HIDE DEF ids
    <2>2. /\ Cardinality(S) \in Nat /\ Alerts!Sorted(S) \in [1 .. Cardinality(S) -> S]
          /\ Fills!Sorted(S) = Alerts!Sorted(S)
      BY ONLY <2>1, SortedFacts
    <2> QED BY <2>2 DEF ids
  <1> HIDE DEF ids
  <1>3. new = [i \in 1 .. Cardinality(S) |-> [id |-> ids[i], status |-> "FILLED"]] BY <1>2
  <1>4. \A i \in 1 .. Cardinality(S) : ids[i] \in S /\ [id |-> ids[i], status |-> "FILLED"] \in FillEntry
    BY <1>2 DEF FillEntry
  <1> HIDE DEF new
  <1>5. new \in Seq(FillEntry) BY <1>2, <1>3, <1>4
  <1>6. \A i \in DOMAIN new : new[i].id \in S BY <1>3, <1>4
  <1>7. status \in [OrderIds -> {"none", "PENDING", "FILLED"}] BY DEF FillsInv, FillsTyped
  <1>8. Fills!Received(new)
    <2>1. CASE S = {} BY <2>1 DEF Fills!FillsBatch
    <2>2. CASE S # {} BY <1>1, <2>2
    <2> QED BY <2>1, <2>2
  <1>9. /\ status' \in [OrderIds -> {"none", "PENDING", "FILLED"}]
        /\ \A o \in OrderIds : status[o] = "FILLED" => status'[o] = "FILLED"
        /\ \A o \in S : status'[o] = "FILLED" /\ status[o] # "FILLED"
    BY <1>1, <1>7
  <1> QED BY <1>5, <1>6, <1>8, <1>9, FillsReceived

\* The effect of AlertWebhook on keys and reports.
LEMMA WebhooksKeep ==
  ASSUME FillsInv, fillHook, Fills!Webhooks, UNCHANGED <<status, fills>>
  PROVE  /\ fillSeen' \in Seq(OrderIds) /\ Len(fillSeen') <= SeenCap /\ fillSent' \in Seq(OrderIds)
         /\ Distinct(fillSeen') /\ Distinct(fillSent')
         /\ \A i \in DOMAIN fillSent' : status[fillSent'[i]] = "FILLED"
         /\ \A q \in DOMAIN fills : (\E i \in DOMAIN fillSent' : fillSent'[i] = fills[q].id)
                                      => Recalled(fillSeen', fills, q)
  <1> DEFINE fresh == Fills!Keys(Fills!NewAt)  sentNow == Fills!Keys(Fills!NewFilledAt)
             w == fillSeen \o fresh  n == Len(fillSeen)
  <1>1. fillSeen' = Fills!Cut(w) /\ fillSent' = fillSent \o sentNow BY DEF Fills!Webhooks
  <1>2. FillsTyped /\ ReportsAreFills /\ ReportedIsRecalled BY DEF FillsInv
  <1>3. /\ Len(fills) \in Nat /\ DOMAIN fills = 1 .. Len(fills)
        /\ \A i \in DOMAIN fills : fills[i] \in FillEntry /\ fills[i].id \in OrderIds
        /\ Fills!KeysAt \subseteq 1 .. Len(fills) /\ Fills!NewAt \subseteq Fills!KeysAt
        /\ Fills!NewFilledAt \subseteq Fills!NewAt
        /\ \A i, j \in Fills!KeysAt : fills[i].id = fills[j].id => i = j
        /\ \A i \in Fills!NewAt, k \in DOMAIN fillSeen : fills[i].id # fillSeen[k]
        /\ \A i \in Fills!NewFilledAt : fills[i].status = "FILLED"
    BY <1>2, KeyPlaces
  <1>4. /\ fresh \in Seq(OrderIds) /\ DOMAIN fresh = 1 .. Len(fresh) /\ Len(fresh) \in Nat
        /\ \A k \in 1 .. Len(fresh) : \E i \in Fills!NewAt : fresh[k] = fills[i].id
        /\ \A i \in Fills!NewAt : \E k \in 1 .. Len(fresh) : fresh[k] = fills[i].id
        /\ Distinct(fresh)
    BY <1>2, <1>3, KeysFacts
  <1>5. /\ sentNow \in Seq(OrderIds) /\ DOMAIN sentNow = 1 .. Len(sentNow) /\ Len(sentNow) \in Nat
        /\ \A k \in 1 .. Len(sentNow) : \E i \in Fills!NewFilledAt : sentNow[k] = fills[i].id
        /\ Distinct(sentNow)
    <2>1. Fills!NewFilledAt \in SUBSET Fills!KeysAt BY <1>3
    <2> QED BY <1>2, <2>1, KeysFacts
  <1> HIDE DEF fresh, sentNow
  <1>6. /\ fillSeen \in Seq(OrderIds) /\ fillSent \in Seq(OrderIds) /\ n \in Nat
        /\ DOMAIN fillSeen = 1 .. n /\ DOMAIN fillSent = 1 .. Len(fillSent) /\ Len(fillSent) \in Nat
        /\ fills \in Seq(FillEntry) /\ Len(fills) <= FillCap
    BY <1>2 DEF FillsTyped
  <1>7. /\ w \in Seq(OrderIds) /\ Len(w) = n + Len(fresh) /\ DOMAIN w = 1 .. Len(w)
        /\ \A i \in 1 .. n : w[i] = fillSeen[i]
        /\ \A i \in 1 .. Len(fresh) : w[n + i] = fresh[i]
        /\ \A i \in 1 .. Len(w) : i \in 1 .. n \/ (i - n \in 1 .. Len(fresh) /\ w[i] = fresh[i - n])
    <2>1. /\ w \in Seq(OrderIds) /\ Len(w) = n + Len(fresh)
          /\ \A i \in 1 .. n : w[i] = fillSeen[i]
          /\ \A i \in 1 .. Len(fresh) : w[n + i] = fresh[i]
          /\ \A i \in 1 .. Len(w) : i \in 1 .. n \/ i - n \in 1 .. Len(fresh)
      BY ONLY <1>4, <1>6, JoinedPlaces
    <2> HIDE DEF w
    <2>2. \A i \in 1 .. Len(w) : n + (i - n) = i BY <1>4, <1>6, <2>1
    <2>3. DOMAIN w = 1 .. Len(w) BY <2>1
    <2> QED BY <2>1, <2>2, <2>3
  <1> HIDE DEF w
  \* A new key is not among the old ones.
  <1>8. ASSUME NEW i \in 1 .. n, NEW k \in 1 .. Len(fresh) PROVE fillSeen[i] # fresh[k]
    <2>1. PICK j \in Fills!NewAt : fresh[k] = fills[j].id BY <1>4
    <2>2. i \in DOMAIN fillSeen BY <1>6
    <2> QED BY <1>3, <2>1, <2>2
  <1>9. Distinct(w)
    <2>1. SUFFICES ASSUME NEW i \in 1 .. Len(w), NEW j \in 1 .. Len(w), w[i] = w[j] PROVE i = j
      BY <1>7 DEF Distinct
    <2>2. CASE i \in 1 .. n /\ j \in 1 .. n BY <1>2, <1>6, <1>7, <2>1, <2>2 DEF ReportsAreFills, Distinct
    <2>3. CASE i \notin 1 .. n /\ j \notin 1 .. n
      <3>0. \A a, b \in 1 .. Len(fresh) : fresh[a] = fresh[b] => a = b BY <1>4 DEF Distinct
      <3>1. /\ i - n \in 1 .. Len(fresh) /\ w[i] = fresh[i - n]
            /\ j - n \in 1 .. Len(fresh) /\ w[j] = fresh[j - n]
        BY <1>7, <2>3
      <3>2. fresh[i - n] = fresh[j - n] BY <2>1, <3>1
      <3>3. i - n = j - n BY <3>0, <3>1, <3>2
      <3> QED BY <1>4, <1>6, <1>7, <3>3
    <2>4. CASE i \in 1 .. n /\ j \notin 1 .. n BY <1>7, <1>8, <2>1, <2>4
    <2>5. CASE i \notin 1 .. n /\ j \in 1 .. n BY <1>7, <1>8, <2>1, <2>5
    <2> QED BY <2>2, <2>3, <2>4, <2>5
  \* A reported order whose key is still there is not new.
  <1>10. ASSUME NEW q \in 1 .. Len(fills), NEW s \in 1 .. Len(fillSent), fillSent[s] = fills[q].id
         PROVE  q \notin Fills!NewAt /\ Recalled(w, fills, q)
    <2>1. Recalled(fillSeen, fills, q) BY <1>2, <1>3, <1>6, <1>10 DEF ReportedIsRecalled
    <2>2. PICK p \in 1 .. n, B \in SUBSET OrderIds :
            /\ fillSeen[p] = fills[q].id /\ Cardinality(B) <= FillCap - 1
            /\ \A k \in p + 1 .. n : fillSeen[k] \in B \/ \E j \in 1 .. q - 1 : fills[j].id = fillSeen[k]
            /\ \A j \in q + 1 .. Len(fills) : fills[j].id \in B \/ fills[j].id = fills[q].id
      BY <1>6, <2>1, Zenon DEF Recalled
    <2>3. \A i \in Fills!NewAt : fills[i].id # fills[q].id BY <1>3, <1>6, <2>2
    <2>4. p \in 1 .. Len(w) /\ w[p] = fills[q].id BY <1>4, <1>6, <1>7, <2>2
    <2>5. ASSUME NEW k \in p + 1 .. Len(w) PROVE w[k] \in B \/ \E j \in 1 .. q - 1 : fills[j].id = w[k]
      <3>1. k \in 1 .. Len(w) /\ (k \in 1 .. n => k \in p + 1 .. n) BY <1>4, <1>6, <1>7
      <3>2. CASE k \in 1 .. n BY <1>7, <2>2, <3>1, <3>2
      <3>3. CASE k \notin 1 .. n
        <4>0. k - n \in 1 .. Len(fresh) /\ w[k] = fresh[k - n] BY <1>7, <3>1, <3>3
        <4>4. \E i \in Fills!NewAt : fresh[k - n] = fills[i].id BY ONLY <1>4, <4>0
        <4>5. PICK i \in Fills!NewAt : fresh[k - n] = fills[i].id BY <4>4
        <4>1. w[k] = fills[i].id BY <4>0, <4>5
        <4>2. i \in 1 .. Len(fills) /\ i # q /\ fills[i].id # fills[q].id BY <1>3, <2>3
        <4>3. i \in 1 .. q - 1 \/ i \in q + 1 .. Len(fills) BY <1>3, <4>2
        <4> QED BY <2>2, <4>1, <4>2, <4>3
      <3> QED BY <3>2, <3>3
    <2>6. p \in DOMAIN w BY <1>7, <2>4
    <2> QED BY <2>2, <2>3, <2>4, <2>5, <2>6 DEF Recalled
  \* An order reported now has all other keys of the list as its B.
  <1>11. ASSUME NEW q \in 1 .. Len(fills), NEW i \in Fills!NewFilledAt, fills[i].id = fills[q].id
         PROVE  Recalled(w, fills, q)
    <2> DEFINE All == {fills[j].id : j \in 1 .. Len(fills)}  X == fills[q].id  B == All \ {X}
    <2>1. All \subseteq OrderIds /\ IsFiniteSet(All) /\ Cardinality(All) <= Len(fills)
      <3>1. Len(fills) \in 0 .. Len(fills) BY <1>3
      <3> QED BY ONLY <1>6, <3>1, FewKeys
    <2>2. X \in All OBVIOUS
    <2>3. IsFiniteSet(B) /\ Cardinality(B) = Cardinality(All) - 1 BY <2>1, <2>2, FS_RemoveElement
    <2>4. Cardinality(B) <= FillCap - 1
      <3>1. Cardinality(All) \in Nat BY <2>1, FS_CardinalityType
      <3> QED BY <1>3, <1>6, <2>1, <2>3, <3>1, FillsAssumption
    <2>11. i \in Fills!NewAt BY <1>3
    <2>12. \E r \in 1 .. Len(fresh) : fresh[r] = fills[i].id BY ONLY <1>4, <2>11
    <2>5. PICK r \in 1 .. Len(fresh) : fresh[r] = X BY <1>11, <2>12
    <2>6. n + r \in 1 .. Len(w) /\ w[n + r] = X
      <3>1. n + r \in 1 .. n + Len(fresh) BY <1>4, <1>6, <2>5
      <3> QED BY <1>7, <2>5, <3>1
    <2>7. ASSUME NEW k \in (n + r) + 1 .. Len(w) PROVE w[k] \in B
      <3>0. Len(w) = n + Len(fresh) /\ n \in Nat /\ Len(fresh) \in Nat BY <1>4, <1>6, <1>7
      <3>1. k \in 1 .. Len(w) /\ k \notin 1 .. n /\ k # n + r
        BY ONLY <3>0, k \in (n + r) + 1 .. Len(w), r \in 1 .. Len(fresh)
      <3>2. w[k] # X BY <1>7, <1>9, <2>6, <3>1 DEF Distinct
      <3>3. k - n \in 1 .. Len(fresh) /\ w[k] = fresh[k - n] BY <1>7, <3>1
      <3>4. \E j \in Fills!NewAt : fresh[k - n] = fills[j].id BY ONLY <1>4, <3>3
      <3>5. PICK j \in Fills!NewAt : fresh[k - n] = fills[j].id BY <3>4
      <3>6. j \in 1 .. Len(fills) /\ w[k] = fills[j].id BY <1>3, <3>3, <3>5
      <3> QED BY <3>2, <3>6
    <2>8. ASSUME NEW j \in q + 1 .. Len(fills) PROVE fills[j].id \in B \/ fills[j].id = X
      <3>1. j \in 1 .. Len(fills) BY <1>3
      <3> QED BY <3>1
    <2>9. n + r \in DOMAIN w BY <1>7, <2>6
    <2>10. B \in SUBSET OrderIds BY <2>1
    <2> HIDE DEF B
    <2> QED BY <2>4, <2>6, <2>7, <2>8, <2>9, <2>10 DEF Recalled
  <1>12. /\ fillSent' \in Seq(OrderIds) /\ DOMAIN fillSent' = 1 .. Len(fillSent')
         /\ \A s \in 1 .. Len(fillSent) : s \in 1 .. Len(fillSent') /\ fillSent'[s] = fillSent[s]
         /\ \A s \in 1 .. Len(fillSent') :
              \/ s \in 1 .. Len(fillSent)
              \/ s - Len(fillSent) \in 1 .. Len(sentNow) /\ fillSent'[s] = sentNow[s - Len(fillSent)]
    <2>1. /\ fillSent \o sentNow \in Seq(OrderIds) /\ Len(fillSent \o sentNow) = Len(fillSent) + Len(sentNow)
          /\ \A i \in 1 .. Len(fillSent) : (fillSent \o sentNow)[i] = fillSent[i]
          /\ \A i \in 1 .. Len(sentNow) : (fillSent \o sentNow)[Len(fillSent) + i] = sentNow[i]
          /\ \A i \in 1 .. Len(fillSent \o sentNow) : i \in 1 .. Len(fillSent) \/ i - Len(fillSent) \in 1 .. Len(sentNow)
      BY ONLY <1>5, <1>6, JoinedPlaces
    <2>2. \A i \in 1 .. Len(fillSent \o sentNow) : Len(fillSent) + (i - Len(fillSent)) = i BY <1>5, <1>6, <2>1
    <2>3. DOMAIN (fillSent \o sentNow) = 1 .. Len(fillSent \o sentNow) BY <2>1
    <2>4. \A s \in 1 .. Len(fillSent) : s \in 1 .. Len(fillSent \o sentNow) BY <1>5, <1>6, <2>1
    <2> QED BY <1>1, <2>1, <2>2, <2>3, <2>4
  <1>13. \A k \in 1 .. Len(sentNow), s \in 1 .. Len(fillSent) : sentNow[k] # fillSent[s]
    <2>1. SUFFICES ASSUME NEW k \in 1 .. Len(sentNow), NEW s \in 1 .. Len(fillSent), sentNow[k] = fillSent[s]
                   PROVE  FALSE
      OBVIOUS
    <2>2. PICK i \in Fills!NewFilledAt : sentNow[k] = fills[i].id BY <1>5
    <2> QED BY <1>3, <1>10, <2>1, <2>2
  <1>14. Distinct(fillSent')
    <2>1. SUFFICES ASSUME NEW i \in 1 .. Len(fillSent'), NEW j \in 1 .. Len(fillSent'), fillSent'[i] = fillSent'[j]
                   PROVE  i = j
      BY <1>12 DEF Distinct
    <2>2. CASE i \in 1 .. Len(fillSent) /\ j \in 1 .. Len(fillSent)
      BY <1>2, <1>6, <1>12, <2>1, <2>2 DEF ReportsAreFills, Distinct
    <2>3. CASE i \notin 1 .. Len(fillSent) /\ j \notin 1 .. Len(fillSent)
      <3>0. \A a, b \in 1 .. Len(sentNow) : sentNow[a] = sentNow[b] => a = b BY <1>5 DEF Distinct
      <3>1. i - Len(fillSent) = j - Len(fillSent) BY <1>12, <2>1, <2>3, <3>0
      <3> QED BY <1>6, <1>12, <3>1
    <2>4. CASE i \in 1 .. Len(fillSent) /\ j \notin 1 .. Len(fillSent) BY <1>12, <1>13, <2>1, <2>4
    <2>5. CASE i \notin 1 .. Len(fillSent) /\ j \in 1 .. Len(fillSent) BY <1>12, <1>13, <2>1, <2>5
    <2> QED BY <2>2, <2>3, <2>4, <2>5
  \* What is reported is an entry of a filled order.
  <1>15. \A k \in 1 .. Len(sentNow) : \E i \in Fills!NewFilledAt :
           sentNow[k] = fills[i].id /\ status[fills[i].id] = "FILLED"
    BY <1>2, <1>3, <1>5 DEF ReportsAreFills
  <1>16. ASSUME NEW s \in DOMAIN fillSent' PROVE status[fillSent'[s]] = "FILLED"
    <2>1. CASE s \in 1 .. Len(fillSent) BY <1>2, <1>6, <1>12, <2>1 DEF ReportsAreFills
    <2>2. CASE s \notin 1 .. Len(fillSent)
      <3>1. PICK i \in Fills!NewFilledAt : fillSent'[s] = fills[i].id /\ status[fills[i].id] = "FILLED"
        BY <1>12, <1>15, <2>2
      <3> QED BY <3>1
    <2> QED BY <2>1, <2>2
  <1>17. ASSUME NEW q \in DOMAIN fills, NEW s \in DOMAIN fillSent', fillSent'[s] = fills[q].id
         PROVE  Recalled(fillSeen', fills, q)
    <2>1. Recalled(w, fills, q)
      <3>1. CASE s \in 1 .. Len(fillSent) BY <1>3, <1>10, <1>12, <1>17, <3>1
      <3>2. CASE s \notin 1 .. Len(fillSent)
        <4>1. PICK i \in Fills!NewFilledAt : fillSent'[s] = fills[i].id BY <1>12, <1>15, <3>2
        <4> QED BY <1>3, <1>11, <1>17, <4>1
      <3> QED BY <3>1, <3>2
    <2> QED BY <1>1, <1>3, <1>6, <1>7, <1>9, <2>1, CutRecalls
  <1>18. fillSeen' \in Seq(OrderIds) /\ Len(fillSeen') <= SeenCap BY <1>1, <1>7, CutFacts
  <1>19. Distinct(fillSeen')
    <2> DEFINE d == Len(w) - Len(Fills!Cut(w))
    <2>1. /\ d \in Nat /\ Fills!Cut(w) \in Seq(OrderIds)
          /\ \A i \in 1 .. Len(Fills!Cut(w)) : i + d \in 1 .. Len(w) /\ Fills!Cut(w)[i] = w[i + d]
      BY <1>7, CutFacts
    <2> HIDE DEF d
    <2>2. DOMAIN Fills!Cut(w) = 1 .. Len(Fills!Cut(w)) /\ Len(Fills!Cut(w)) \in Nat BY <2>1
    <2>3. ASSUME NEW i \in 1 .. Len(Fills!Cut(w)), NEW j \in 1 .. Len(Fills!Cut(w)),
                 Fills!Cut(w)[i] = Fills!Cut(w)[j]
          PROVE  i = j
      <3>0. \A a, b \in 1 .. Len(w) : w[a] = w[b] => a = b BY <1>7, <1>9 DEF Distinct
      <3>1. i + d = j + d BY <2>1, <2>3, <3>0
      <3> QED BY <2>1, <2>2, <3>1
    <2> QED BY <1>1, <2>2, <2>3 DEF Distinct
  <1> QED BY <1>12, <1>14, <1>16, <1>17, <1>18, <1>19

\* The effect of AlertWebhook on the count of the day.
LEMMA WebhooksCount ==
  ASSUME FillsInv, Fills!Webhooks, UNCHANGED <<day, summaries>> PROVE CountIsOfItsDay'
  <1>1. CountIsOfItsDay BY DEF FillsInv
  <1>2. CASE UNCHANGED <<dayFills, reported>> BY <1>1, <1>2 DEF CountIsOfItsDay
  <1>3. CASE fillHook
    <2> DEFINE n == Cardinality(Fills!NewFilledAt)
               c == n + (IF dayFills.date = day THEN dayFills.count ELSE 0)
    <2>1. n \in Nat
      <3>1. FillsTyped BY DEF FillsInv
      <3>2. Fills!NewFilledAt \in SUBSET Fills!KeysAt BY <3>1, KeyPlaces
      <3> QED BY <3>1, <3>2, KeysFacts
    <2>2. /\ dayFills' = IF n = 0 THEN dayFills ELSE [date |-> day, count |-> c]
          /\ reported' = [reported EXCEPT ![day] = @ + n]
      BY <1>3 DEF Fills!Webhooks, Fills!Cardinality, Cardinality
    <2> HIDE DEF n
    <2>3. /\ day \in 1 .. MaxDays /\ MaxDays \in Nat /\ reported \in [1 .. MaxDays -> Nat]
          /\ dayFills \in [date : 0 .. MaxDays, count : Nat]
          /\ dayFills.date \in 0 .. MaxDays /\ dayFills.count \in Nat
      BY <1>1, FillsAssumption DEF CountIsOfItsDay
    <2>4. CASE n = 0
      <3>1. reported' = reported /\ dayFills' = dayFills BY <2>2, <2>3, <2>4
      <3> QED BY <1>2, <3>1
    <2>5. CASE n # 0
      <3>1. /\ dayFills' = [date |-> day, count |-> c] /\ c \in Nat
            /\ reported' \in [1 .. MaxDays -> Nat] /\ reported'[day] = reported[day] + n
            /\ \A e \in 1 .. MaxDays : e # day => reported'[e] = reported[e]
        BY <2>1, <2>2, <2>3, <2>5
      <3>2. c = reported'[day]
        <4>1. CASE dayFills.date = day BY <1>1, <2>1, <2>3, <3>1, <4>1 DEF CountIsOfItsDay
        <4>2. CASE dayFills.date # day
          <5>1. day > dayFills.date BY <1>1, <2>3, <4>2 DEF CountIsOfItsDay
          <5>2. reported[day] = 0 BY <1>1, <2>3, <5>1 DEF CountIsOfItsDay
          <5> QED BY <2>1, <3>1, <4>2, <5>2
        <4> QED BY <4>1, <4>2
      <3>3. \A e \in 1 .. MaxDays : e > day => reported'[e] = 0
        BY <1>1, <2>3, <3>1 DEF CountIsOfItsDay
      <3>4. \A i \in DOMAIN summaries : /\ summaries[i].date < day
                                        /\ summaries[i].count = reported'[summaries[i].date]
        <4>1. \A i \in DOMAIN summaries : summaries[i] \in OneDay BY <1>1 DEF CountIsOfItsDay
        <4>2. \A e \in OneDay : e.date \in 1 .. MaxDays BY DEF OneDay
        <4>3. \A i \in DOMAIN summaries : summaries[i].date \in 1 .. MaxDays /\ summaries[i].date < day
          BY <1>1, <2>3, <4>1, <4>2 DEF CountIsOfItsDay
        <4> QED BY <1>1, <2>3, <3>1, <4>3 DEF CountIsOfItsDay
      <3> HIDE DEF c
      <3>5. dayFills'.date = day /\ dayFills'.count = c BY <3>1
      <3>6. dayFills' \in [date : 0 .. MaxDays, count : Nat] BY <2>3, <3>1
      <3> QED BY <1>1, <2>3, <3>1, <3>2, <3>3, <3>4, <3>5, <3>6 DEF CountIsOfItsDay
    <2> QED BY <2>4, <2>5
  <1>4. fillHook \/ UNCHANGED <<dayFills, reported>> BY DEF Fills!Webhooks
  <1> QED BY <1>2, <1>3, <1>4

LEMMA FillsRender == ASSUME FillsInv, Fills!Render PROVE FillsInv'
  <1>1. Fills!Toast /\ Fills!Webhooks /\ UNCHANGED <<status, fills, fillHook, day, summaries>>
    BY DEF Fills!Render
  <1>2. FillsTyped /\ ReportsAreFills /\ ReportedIsRecalled BY DEF FillsInv
  <1>3. toasted' \subseteq OrderIds
    <2>1. \A i \in DOMAIN fills : fills[i].id \in OrderIds BY <1>2, KeyPlaces
    <2>2. fills # << >> => 1 \in DOMAIN fills BY <1>2 DEF FillsTyped
    <2>3. toasted' = toasted \/ (fills # << >> /\ toasted' = toasted \cup {fills[1].id})
      BY <1>1, Zenon DEF Fills!Toast, Fills!Notify
    <2> QED BY <1>2, <2>1, <2>2, <2>3 DEF FillsTyped
  <1>4. CountIsOfItsDay' BY <1>1, WebhooksCount
  <1>5. CASE fillHook
    <2>1. /\ fillSeen' \in Seq(OrderIds) /\ Len(fillSeen') <= SeenCap /\ fillSent' \in Seq(OrderIds)
          /\ Distinct(fillSeen') /\ Distinct(fillSent')
          /\ \A i \in DOMAIN fillSent' : status[fillSent'[i]] = "FILLED"
          /\ \A q \in DOMAIN fills : (\E i \in DOMAIN fillSent' : fillSent'[i] = fills[q].id)
                                       => Recalled(fillSeen', fills, q)
      BY <1>1, <1>5, WebhooksKeep
    <2>2. FillsTyped' BY <1>1, <1>2, <1>3, <2>1 DEF FillsTyped
    <2>3. ReportsAreFills' BY <1>1, <1>2, <1>5, <2>1 DEF ReportsAreFills, Distinct
    <2>4. ReportedIsRecalled' BY <1>1, <2>1 DEF ReportedIsRecalled, Recalled
    <2> QED BY <1>4, <2>2, <2>3, <2>4 DEF FillsInv
  <1>6. CASE ~fillHook
    <2>1. UNCHANGED <<fillSeen, fillSent>> BY <1>1, <1>6 DEF Fills!Webhooks
    <2>2. FillsTyped' BY <1>1, <1>2, <1>3, <2>1 DEF FillsTyped
    <2>3. ReportsAreFills' /\ ReportedIsRecalled'
      BY <1>1, <1>2, <2>1 DEF ReportsAreFills, Distinct, ReportedIsRecalled, Recalled
    <2> QED BY <1>4, <2>2, <2>3 DEF FillsInv
  <1> QED BY <1>5, <1>6

\* What is not touched keeps what is said of it.
LEMMA KeysStill ==
  ASSUME FillsInv, UNCHANGED <<status, fills, toasted, fillHook, fillSeen, fillSent>>
  PROVE  FillsTyped' /\ ReportsAreFills' /\ ReportedIsRecalled'
  <1>1. FillsTyped' BY DEF FillsInv, FillsTyped
  <1>2. ReportsAreFills' BY DEF FillsInv, ReportsAreFills, Distinct
  <1>3. ReportedIsRecalled' BY DEF FillsInv, ReportedIsRecalled, Recalled
  <1> QED BY <1>1, <1>2, <1>3

\* The panel appears: nothing was reported before, and what is there is history.
LEMMA FillsOpenHooks == ASSUME FillsInv, Fills!OpenHooks PROVE FillsInv'
  <1>1. /\ ~fillHook /\ fillHook' /\ fillSeen' = Fills!Keys(Fills!KeysAt)
        /\ UNCHANGED <<status, fills, toasted, fillSent, day, dayFills, reported, summaries>>
    BY DEF Fills!OpenHooks
  <1>2. FillsTyped /\ ReportsAreFills /\ ReportedIsRecalled /\ CountIsOfItsDay BY DEF FillsInv
  <1>3. fillSent = << >> BY <1>1, <1>2 DEF ReportsAreFills
  <1>4. /\ fillSeen' \in Seq(OrderIds) /\ Len(fillSeen') \in Nat /\ Len(fillSeen') <= Len(fills)
        /\ Distinct(fillSeen')
    BY <1>1, <1>2, KeysFacts
  <1>5. Len(fillSeen') <= SeenCap
    <2>1. Len(fills) \in Nat /\ Len(fills) <= FillCap BY <1>2 DEF FillsTyped
    <2> QED BY <1>4, <2>1, FillsAssumption
  <1>6. FillsTyped' BY <1>1, <1>2, <1>4, <1>5 DEF FillsTyped
  <1>7. ReportsAreFills' BY <1>1, <1>2, <1>4 DEF ReportsAreFills, Distinct
  <1>8. ReportedIsRecalled' BY <1>1, <1>3 DEF ReportedIsRecalled
  <1>9. CountIsOfItsDay' BY <1>1, <1>2 DEF CountIsOfItsDay
  <1> QED BY <1>6, <1>7, <1>8, <1>9 DEF FillsInv

\* The timer sends the count of an earlier day, and starts one of today.
LEMMA FillsSummary == ASSUME FillsInv, Fills!DailySummary PROVE FillsInv'
  <1>1. /\ dayFills.date # 0 /\ dayFills.date # day
        /\ summaries' = Append(summaries, dayFills) /\ dayFills' = [date |-> day, count |-> 0]
        /\ UNCHANGED <<status, fills, toasted, fillHook, fillSeen, fillSent, day, reported>>
    BY DEF Fills!DailySummary, Fills!Over, Fills!NoDay
  <1>2. CountIsOfItsDay BY DEF FillsInv
  <1>3. /\ day \in 1 .. MaxDays /\ MaxDays \in Nat /\ reported \in [1 .. MaxDays -> Nat]
        /\ dayFills \in [date : 0 .. MaxDays, count : Nat] /\ dayFills.date \in 0 .. MaxDays
        /\ dayFills.count \in Nat /\ summaries \in Seq(OneDay)
    BY <1>2, FillsAssumption DEF CountIsOfItsDay
  <1>4. dayFills \in OneDay BY <1>1, <1>3 DEF OneDay
  <1>5. dayFills.date < day BY <1>1, <1>2, <1>3 DEF CountIsOfItsDay
  <1>6. /\ summaries' \in Seq(OneDay) /\ DOMAIN summaries' = 1 .. Len(summaries) + 1
        /\ DOMAIN summaries = 1 .. Len(summaries) /\ Len(summaries) \in Nat
        /\ \A i \in 1 .. Len(summaries) : summaries'[i] = summaries[i]
        /\ summaries'[Len(summaries) + 1] = dayFills
        /\ \A i \in DOMAIN summaries' : i \in 1 .. Len(summaries) \/ i = Len(summaries) + 1
    BY <1>1, <1>3, <1>4
  <1>7. \A i \in 1 .. Len(summaries) : summaries[i].date \in Nat
    <2>1. \A e \in OneDay : e.date \in Nat BY FillsAssumption DEF OneDay
    <2> QED BY <1>3, <1>6, <2>1
  <1>8. CountIsOfItsDay'
    <2>1. dayFills'.date = day /\ dayFills'.count = 0 /\ dayFills' \in [date : 0 .. MaxDays, count : Nat]
      BY <1>1, <1>3
    <2>2. reported[day] = 0 BY <1>2, <1>3, <1>5 DEF CountIsOfItsDay
    <2>3. \A d \in 1 .. MaxDays : d > day => reported[d] = 0 BY <1>2, <1>3, <1>5 DEF CountIsOfItsDay
    <2>4. \A i \in DOMAIN summaries' : /\ summaries'[i].date < day
                                       /\ summaries'[i].count = reported[summaries'[i].date]
      BY <1>1, <1>2, <1>3, <1>5, <1>6, <1>7 DEF CountIsOfItsDay
    <2>5. ASSUME NEW i \in DOMAIN summaries', NEW j \in DOMAIN summaries', summaries'[i].date = summaries'[j].date
          PROVE  i = j
      <3>1. \A k \in 1 .. Len(summaries) : summaries[k].date # dayFills.date
        <4>1. \A k \in 1 .. Len(summaries) : summaries[k].date < dayFills.date BY <1>2, <1>6 DEF CountIsOfItsDay
        <4> QED BY <1>3, <1>7, <4>1
      <3>2. CASE i \in 1 .. Len(summaries) /\ j \in 1 .. Len(summaries)
        BY <1>2, <1>6, <2>5, <3>2 DEF CountIsOfItsDay
      <3>3. CASE i \notin 1 .. Len(summaries) \/ j \notin 1 .. Len(summaries)
        BY <1>6, <2>5, <3>1, <3>3
      <3> QED BY <3>2, <3>3
    <2> QED BY <1>1, <1>3, <1>6, <2>1, <2>2, <2>3, <2>4, <2>5 DEF CountIsOfItsDay
  <1>9. FillsTyped' /\ ReportsAreFills' /\ ReportedIsRecalled'
    BY <1>1, KeysStill DEF FillsInv
  <1> QED BY <1>8, <1>9 DEF FillsInv

\* Midnight comes, or the sound is switched.
LEMMA FillsOther == ASSUME FillsInv, Fills!Midnight \/ Fills!ToggleSound PROVE FillsInv'
  <1>1. /\ UNCHANGED <<status, fills, toasted, fillHook, fillSeen, fillSent, dayFills, reported, summaries>>
        /\ day' = day \/ (day < MaxDays /\ day' = day + 1)
    BY DEF Fills!Midnight, Fills!ToggleSound
  <1>2. FillsTyped' /\ ReportsAreFills' /\ ReportedIsRecalled'
    BY <1>1, KeysStill DEF FillsInv
  <1>3. CountIsOfItsDay'
    <2>1. CountIsOfItsDay /\ day \in 1 .. MaxDays /\ MaxDays \in Nat /\ dayFills.date \in 0 .. MaxDays
      BY FillsAssumption DEF FillsInv, CountIsOfItsDay
    <2>2. day' \in 1 .. MaxDays /\ day <= day' /\ dayFills.date <= day' BY <1>1, <2>1 DEF CountIsOfItsDay
    <2> QED BY <1>1, <2>1, <2>2 DEF CountIsOfItsDay
  <1> QED BY <1>2, <1>3 DEF FillsInv

LEMMA FillsStep == ASSUME FillsInv, Fills!Next PROVE FillsInv'
  <1>1. \/ Fills!Render \/ Fills!OpenHooks \/ Fills!ToggleSound \/ Fills!Midnight \/ Fills!DailySummary
        \/ \E o \in OrderIds, st \in {"PENDING", "FILLED"} : Fills!FillMessage(o, st)
        \/ \E S \in SUBSET OrderIds : Fills!FillsBatch(S)
    BY DEF Fills!Next, Fills!Orders, OrderIds
  <1> QED BY <1>1, FillsRender, FillsOpenHooks, FillsOther, FillsSummary, FillsMessage, FillsOfBatch

\* The invariant in the words of FillNotices.
LEMMA FillsAreSound == FillsInv => Fills!TypeOK /\ Fills!ReportedOnce /\ Fills!SummariesAreExact
  <1> SUFFICES ASSUME FillsInv PROVE Fills!TypeOK /\ Fills!ReportedOnce /\ Fills!SummariesAreExact OBVIOUS
  <1>1. Fills!ReportedOnce BY DEF FillsInv, ReportsAreFills, Distinct, Fills!ReportedOnce
  <1>2. Fills!SummariesAreExact BY DEF FillsInv, CountIsOfItsDay, Fills!SummariesAreExact
  <1>3. Fills!TypeOK
    <2>1. Fills!ToSet(fills) \subseteq Fills!Entry
      <3>1. \A i \in DOMAIN fills : fills[i] \in FillEntry BY DEF FillsInv, FillsTyped
      <3>2. FillEntry = Fills!Entry BY DEF FillEntry, Fills!Entry, Fills!Orders, OrderIds
      <3> QED BY <3>1, <3>2 DEF Fills!ToSet
    <2>2. dayFills \in [date : {Fills!NoDay} \cup Fills!Days, count : Nat]
      <3>1. {Fills!NoDay} \cup Fills!Days = 0 .. MaxDays BY FillsAssumption DEF Fills!NoDay, Fills!Days
      <3> QED BY <3>1 DEF FillsInv, CountIsOfItsDay
    <2>3. /\ status \in [Fills!Orders -> {"none", "PENDING", "FILLED"}] /\ Len(fills) <= FillCap
          /\ Len(fillSeen) <= SeenCap /\ toasted \subseteq Fills!Orders
      BY DEF FillsInv, FillsTyped, Fills!Orders, OrderIds
    <2> QED BY <2>1, <2>2, <2>3 DEF Fills!TypeOK
  <1> QED BY <1>1, <1>2, <1>3

-----------------------------------------------------------------------------
(***************************************************************************)
(* The parts together.  Whichever part is followed keeps its invariant.    *)
(***************************************************************************)
PartInv ==
  /\ part = "form" => FormInv
  /\ part = "bot" => BotInv
  /\ part = "alerts" => AlertsInv
  /\ part = "fills" => FillsInv
  /\ part = "journal" => JournalInv
  /\ part = "tabs" => SavedInv(Tabs, TabNames, TabTimers)
  /\ part = "one" => SavedInv({Tab}, Names, MaxTimers) /\ InBothOrGone

LEMMA PartInit == Init => PartInv
  <1> SUFFICES ASSUME Init PROVE PartInv OBVIOUS
  <1>1. Form!Init /\ Bot!Init /\ Alerts!Init /\ Fills!Init /\ Journal!Init BY DEF Init
  <1>2. part # "one" => TwoTabs!Init BY DEF Init
  <1>3. part = "one" => OneTab!Init BY DEF Init
  <1>4. part = "one" => InBothOrGone
    <2>1. part = "one" => saves = 0 BY <1>3 DEF OneTab!Init
    <2> QED BY <2>1 DEF InBothOrGone
  <1>5. FormInv /\ BotInv /\ JournalInv BY <1>1, FormInit, BotInit, JournalInit
  <1>8. AlertsInv /\ FillsInv BY <1>1, AlertsInit, FillsInit
  <1>6. part = "tabs" => SavedInv(Tabs, TabNames, TabTimers) BY <1>2, TwoTabsInit
  <1>7. part = "one" => SavedInv({Tab}, Names, MaxTimers) BY <1>3, OneTabInit
  <1> QED BY <1>4, <1>5, <1>6, <1>7, <1>8 DEF PartInv

\* A part that stands still keeps its invariant.
LEMMA FormStill == ASSUME FormInv, UNCHANGED formVars PROVE FormInv'
  BY DEF formVars, FormInv, FormFields, FormOrders, OnlyTheNewestIsOpen, ResultsAreFinal,
         Form!TrailingOnlyWithFlag

LEMMA BotStill == ASSUME BotInv, UNCHANGED execVars PROVE BotInv' /\ Bot!SliceNeedsRun
  <1>1. BotBooleans' BY Zenon DEF execVars, BotInv, BotBooleans
  <1>2. BotSafe' /\ Bot!SliceNeedsRun
    BY DEF execVars, BotInv, BotSafe, BotTyped, BotNumbers, IntervalOfTheRun, Bot!NeverTooMany,
           Bot!SliceNeedsRun
  <1> QED BY <1>1, <1>2 DEF BotInv

LEMMA AlertsStill == ASSUME AlertsInv, UNCHANGED alertVars PROVE AlertsInv'
  BY DEF alertVars, AlertsInv, AlertsTyped, Listed, Waits, NoneOverlooked

LEMMA FillsStill == ASSUME FillsInv, UNCHANGED fillVars PROVE FillsInv'
  <1>1. UNCHANGED <<status, fills, toasted, fillHook, fillSeen, fillSent, day, dayFills, reported,
                    summaries>>
    BY DEF fillVars
  <1>2. CountIsOfItsDay' BY <1>1 DEF FillsInv, CountIsOfItsDay
  <1> QED BY <1>1, <1>2, KeysStill DEF FillsInv

LEMMA JournalStill == ASSUME JournalInv, UNCHANGED journalVars PROVE JournalInv'
  BY DEF journalVars, JournalInv, JournalTyped, CopiesAreGood, Journal!SavedIsStored, Journal!Keys, Journal!Trades

LEMMA SavedStill ==
  ASSUME NEW T, NEW N, NEW M, SavedInv(T, N, M), UNCHANGED savedVars
  PROVE  SavedInv(T, N, M)' /\ (InBothOrGone => InBothOrGone')
  BY DEF savedVars, SavedInv, ListsTyped, ChoicesTyped, Shown, InBothOrGone

LEMMA PartStep ==
  ASSUME PartInv, [Next]_vars PROVE PartInv' /\ (part = "bot" => Bot!SliceNeedsRun)
  <1>1. part' = part BY DEF Next, vars
  <1>2. CASE part = "form"
    <2>1. FormInv /\ (Form!Next \/ UNCHANGED formVars) BY <1>2 DEF Next, vars, PartInv
    <2>2. FormInv' BY <2>1, FormStep, FormStill
    <2> QED BY <1>1, <1>2, <2>2 DEF PartInv
  <1>3. CASE part = "bot"
    <2>1. BotInv /\ (Bot!Next \/ UNCHANGED execVars) BY <1>3 DEF Next, vars, PartInv
    <2>2. BotInv' /\ Bot!SliceNeedsRun BY <2>1, BotStep, BotStill
    <2> QED BY <1>1, <1>3, <2>2 DEF PartInv
  <1>4. CASE part = "journal"
    <2>1. JournalInv /\ (Journal!Next \/ UNCHANGED journalVars) BY <1>4 DEF Next, vars, PartInv
    <2>2. JournalInv' BY <2>1, JournalStep, JournalStill
    <2> QED BY <1>1, <1>4, <2>2 DEF PartInv
  <1>5. CASE part = "tabs"
    <2>1. SavedInv(Tabs, TabNames, TabTimers) /\ (TwoTabs!Next \/ UNCHANGED savedVars)
      BY <1>5 DEF Next, vars, PartInv
    <2>2. SavedInv(Tabs, TabNames, TabTimers)' BY <2>1, TwoTabsStep, SavedStill
    <2> QED BY <1>1, <1>5, <2>2 DEF PartInv
  <1>6. CASE part = "one"
    <2>1. /\ SavedInv({Tab}, Names, MaxTimers) /\ InBothOrGone
          /\ OneTab!Next \/ UNCHANGED savedVars
      BY <1>6 DEF Next, vars, PartInv
    <2>2. SavedInv({Tab}, Names, MaxTimers)' /\ InBothOrGone'
      BY <2>1, OneTabStep, NothingLost, SavedStill
    <2> QED BY <1>1, <1>6, <2>2 DEF PartInv
  <1>7. CASE part = "alerts"
    <2>1. AlertsInv /\ (Alerts!Next \/ UNCHANGED alertVars) BY <1>7 DEF Next, vars, PartInv
    <2>2. AlertsInv' BY <2>1, AlertsStep, AlertsStill
    <2> QED BY <1>1, <1>7, <2>2 DEF PartInv
  <1>8. CASE part = "fills"
    <2>1. FillsInv /\ (Fills!Next \/ UNCHANGED fillVars) BY <1>8 DEF Next, vars, PartInv
    <2>2. FillsInv' BY <2>1, FillsStep, FillsStill
    <2> QED BY <1>1, <1>8, <2>2 DEF PartInv
  <1>9. CASE part \notin {"form", "bot", "alerts", "fills", "journal", "tabs", "one"}
    BY <1>1, <1>9 DEF PartInv
  <1> QED BY <1>2, <1>3, <1>4, <1>5, <1>6, <1>7, <1>8, <1>9

\* Every behaviour of the page keeps it.
THEOREM PartsAreSound == Spec => []PartInv
  <1>1. PartInv /\ [Next]_vars => PartInv' BY PartStep
  <1> QED BY PartInit, <1>1, PTL DEF Spec

(***************************************************************************)
(* The form has one order under way, says of an order what the exchange    *)
(* did with it, and sends no trailing stop with the flag off; a run of the *)
(* bot sends no slice too many and none after its end, Stop or removal     *)
(* (handleSubmit of OrderForm.jsx, sendSlice of ExecutionBot.jsx).         *)
(***************************************************************************)
THEOREM OrdersStayUnderControl == Spec => OrdersUnderControl
  <1> DEFINE FormSafe == part = "form" =>
               Form!TypeOK /\ Form!OneOrderUnderWay /\ Form!AnswerIsItsOwn /\ Form!TrailingOnlyWithFlag
             BotIsSafe == part = "bot" => Bot!TypeOK /\ Bot!NeverTooMany
             SliceInRun == part = "bot" => Bot!SliceNeedsRun
  <1>1. PartInv => FormSafe BY FormIsSound DEF PartInv
  <1>2. PartInv => BotIsSafe BY BotIsTyped DEF PartInv
  <1>3. PartInv /\ [Next]_vars => SliceInRun BY PartStep
  <1>4. Spec => [][Next]_vars BY DEF Spec
  <1> HIDE DEF FormSafe, BotIsSafe, SliceInRun
  <1>5. Spec => []FormSafe /\ []BotIsSafe /\ [][SliceInRun]_vars
    BY PartsAreSound, <1>1, <1>2, <1>3, <1>4, PTL
  <1> QED BY <1>5 DEF OrdersUnderControl, FormSafe, BotIsSafe, SliceInRun

(***************************************************************************)
(* A price alert is announced for one hit of its life, in as many runs of  *)
(* its effect as React lets follow each other, and once React has settled  *)
(* none that is active is hit by the price on the screen or was announced  *)
(* before; a fill is reported to the webhooks at most once, also when its  *)
(* key is no longer remembered, and a daily summary counts the fills of    *)
(* its own day (PriceAlerts.jsx, AlertWebhook.jsx).                        *)
(***************************************************************************)
THEOREM NoticesAreExact == Spec => []NoticesExact
  <1>1. PartInv => NoticesExact BY AlertsAreSound, FillsAreSound DEF PartInv, NoticesExact
  <1> QED BY PartsAreSound, <1>1, PTL

(***************************************************************************)
(* Notes that were saved are stored and shown, whatever is edited, closed  *)
(* or reloaded, with any of the three views of the journal on the page,    *)
(* unless a view that was on the page when the note was saved elsewhere    *)
(* saves later, or a write fails; a tab that has heard of the last write   *)
(* shows the stored backtests, and a single tab loses none that was not    *)
(* deleted, cleared or pushed out (useTradeJournal.ts, useLocalStorage.ts, *)
(* useSavedBacktests of BacktestRunner).                                   *)
(***************************************************************************)
THEOREM WhatIsSavedIsShown == Spec => []SavedIsShown
  <1>1. PartInv => SavedIsShown
    <2>1. InBothOrGone => OneTab!NoBacktestLost
      BY DEF InBothOrGone, OneTab!NoBacktestLost, OneTab!ToSet, ToSet
    <2> QED BY <2>1, JournalIsSound, TwoTabsIsSound, OneTabIsSound DEF PartInv, SavedIsShown
  <1> QED BY PartsAreSound, <1>1, PTL
=============================================================================
