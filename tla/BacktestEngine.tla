--------------------------- MODULE BacktestEngine ---------------------------
(***************************************************************************)
(* utils/backtestEngine.js: runBacktest replays candles through the rules  *)
(* of a strategy.  One step per candle, then the flush of an open position *)
(* and the result.  Money and quantity are whole numbers of a small unit   *)
(* and quotients are rounded down.                                         *)
(*                                                                         *)
(* Two runs of the engine are made side by side, on lists of candles that  *)
(* agree up to some candle: `mine` on the first list, `other` on the       *)
(* second.  What they have in common is what the engine may know.          *)
(***************************************************************************)
EXTENDS Integers, Sequences, FiniteSetsExt

CONSTANTS CandleKinds,     \* the candles that occur: [close, volume]
          Lengths,         \* lengths of the lists
          Common,          \* bound: so many first candles are the same in both lists
          MinCandles,      \* "Need at least 30 candles to backtest"
          RuleSets,        \* the strategies: sequences of rules
          InitialBalance, FeePct, SlippagePct, PositionSizePct,
          BorrowFee,       \* borrow fee of a short, in percent per candle held
          SizeDivisor      \* what the caller's position size is divided by

VARIABLES lists,     \* the two lists of candles
          rules,     \* the strategy
          i,         \* candles processed
          run,       \* the state of the two runs
          phase      \* "replay" | "done" | "error"

vars == <<lists, rules, i, run, phase>>

Ind == INSTANCE Indicators WITH Bars <- {}, Keep <- 1, Period <- 1, Fast <- 1, Slow <- 1, candles <- << >>

Which == {"mine", "other"}
NoPosition == [side |-> "NONE", entryPrice |-> 0, qty |-> 0, entryTime |-> 0]

InitialRun ==
  [balance |-> InitialBalance, position |-> NoPosition, trades |-> << >>, entryFees |-> 0,
   curve |-> << >>, peak |-> InitialBalance, ddNum |-> 0, ddDen |-> 1, ddDuration |-> 0, current |-> 0]

-----------------------------------------------------------------------------
(* evaluateConditions(candles, j, indicators, rules), j counted from 0. *)

\* The mean volume of the last 20 candles, or of those there are.
avgVolume(list, j) ==
  LET from == IF j > 19 THEN j - 19 ELSE 0
  IN MapThenSumSet(LAMBDA k : list[k + 1].volume, from .. j) \div (j - from + 1)

\* The averages are there (a comparison with NaN is false) and change sides.
Crosses(list, j, up) ==
  LET c == [k \in 0 .. Len(list) - 1 |-> list[k + 1].close]
      fast == Ind!calcEMA(c, 1)  slow == Ind!calcEMA(c, 2)
  IN /\ j > 0 /\ ~Ind!IsNaN(slow[j - 1])
     /\ up * (fast[j] - slow[j]) > 0 /\ up * (fast[j - 1] - slow[j - 1]) <= 0

Matched(list, j, rule) ==
  LET close == list[j + 1].close
  IN CASE rule.condition = "price_above" -> close > rule.value
       [] rule.condition = "price_below" -> close < rule.value
       [] rule.condition = "rsi_above" ->
            LET r == Ind!calcRSI([k \in 0 .. Len(list) - 1 |-> list[k + 1].close], 2)[j]
            IN ~Ind!IsNaN(r) /\ r > rule.value
       [] rule.condition = "rsi_below" ->
            LET r == Ind!calcRSI([k \in 0 .. Len(list) - 1 |-> list[k + 1].close], 2)[j]
            IN ~Ind!IsNaN(r) /\ r < rule.value
       [] rule.condition = "ema_cross_up" -> Crosses(list, j, 1)
       [] rule.condition = "ema_cross_down" -> Crosses(list, j, -1)
       [] rule.condition = "volume_spike" ->
            avgVolume(list, j) > 0 /\ list[j + 1].volume > avgVolume(list, j) * rule.value
       [] rule.condition = "price_change_5" ->
            /\ j >= 5 /\ list[j - 4].close # 0
            /\ (close - list[j - 4].close) * 100 > rule.value * list[j - 4].close

\* Rules that match on the candle before k: fills are at the close of k.
Triggered(list, k) == IF k = 0 THEN << >> ELSE SelectSeq(rules, LAMBDA r : Matched(list, k - 1, r))

-----------------------------------------------------------------------------
(* Orders and the close path. *)

FillPrice(close, up) == (close * (100 + (IF up THEN SlippagePct ELSE 0 - SlippagePct))) \div 100
Fee(qty, price) == (qty * price * FeePct) \div 100

\* Mutant: the entry fee is forgotten.
OpenWithoutFee(r, side, close, time) ==
  LET price == FillPrice(close, side = "LONG")
      qty == (r.balance * PositionSizePct) \div (price * SizeDivisor)
  IN [r EXCEPT !.entryFees = @ + Fee(qty, price),
               !.position = [side |-> side, entryPrice |-> price, qty |-> qty, entryTime |-> time]]

\* 'buy' and 'sell' open only when nothing is open; the fee is paid at once.
Open(r, side, close, time) ==
  LET price == FillPrice(close, side = "LONG")
      qty == (r.balance * PositionSizePct) \div (price * SizeDivisor)
      fee == Fee(qty, price)
  IN [r EXCEPT !.balance = @ - fee, !.entryFees = @ + fee,
               !.position = [side |-> side, entryPrice |-> price, qty |-> qty, entryTime |-> time]]

Unrealized(p, price) ==
  IF p.side = "LONG" THEN (price - p.entryPrice) * p.qty ELSE (p.entryPrice - price) * p.qty

\* closePosition: the one body for CLOSE_ALL and END.
ClosePosition(r, close, time, reason) ==
  LET p == r.position
      exit == FillPrice(close, p.side = "SHORT")
      fee == Fee(p.qty, exit)
      borrow == IF p.side = "SHORT" THEN (p.entryPrice * p.qty * BorrowFee * (time - p.entryTime)) \div 100 ELSE 0
      pnl == Unrealized(p, exit) - fee - borrow
  IN [r EXCEPT !.balance = @ + pnl, !.position = NoPosition,
               !.trades = Append(@, [side |-> p.side, entryTime |-> p.entryTime, exitTime |-> time,
                                     pnl |-> pnl, reason |-> reason])]

Apply(r, rule, close, time) ==
  CASE rule.action = "buy" /\ r.position.side = "NONE" /\ close > 0 -> Open(r, "LONG", close, time)
    [] rule.action = "sell" /\ r.position.side = "NONE" /\ close > 0 -> Open(r, "SHORT", close, time)
    [] rule.action = "close_all" /\ r.position.side # "NONE" -> ClosePosition(r, close, time, "CLOSE_ALL")
    [] OTHER -> r

\* The triggered rules in order, each on what the one before left.
ApplyAll(r, triggered, close, time) ==
  LET f[k \in 0 .. Len(triggered)] == IF k = 0 THEN r ELSE Apply(f[k - 1], triggered[k], close, time)
  IN f[Len(triggered)]

-----------------------------------------------------------------------------
(* Equity and drawdown. *)

Equity(r, close) == r.balance + (IF r.position.side = "NONE" THEN 0 ELSE Unrealized(r.position, close))

\* A new peak, or one more candle under water and perhaps the deepest one.
Mark(r, equity) ==
  LET deeper == r.peak > 0 /\ (r.peak - equity) * r.ddDen > r.ddNum * r.peak
  IN IF equity > r.peak
     THEN [r EXCEPT !.curve = Append(@, equity), !.peak = equity, !.current = 0]
     ELSE [r EXCEPT !.curve = Append(@, equity), !.current = @ + 1,
                    !.ddNum = IF deeper THEN r.peak - equity ELSE @, !.ddDen = IF deeper THEN r.peak ELSE @,
                    !.ddDuration = IF deeper THEN r.current + 1 ELSE @]

Bar(r, list, k) ==
  LET close == list[k + 1].close
      traded == ApplyAll(r, Triggered(list, k), close, k)
  IN Mark(traded, Equity(traded, close))

-----------------------------------------------------------------------------
Candles == Len(lists["mine"])

\* Two lists that agree on the first Common candles.
Init ==
  /\ \E n \in Lengths : \E a, b \in [1 .. n -> CandleKinds] :
       (\A j \in 1 .. Common : a[j] = b[j]) /\ lists = [mine |-> a, other |-> b]
  /\ rules \in RuleSets
  /\ i = 0 /\ phase = "replay"
  /\ run = [w \in Which |-> InitialRun]

\* Too few candles: a result with an error and nothing traded.
Refuse ==
  /\ phase = "replay" /\ i = 0 /\ Candles < MinCandles
  /\ phase' = "error"
  /\ UNCHANGED <<lists, rules, i, run>>

ReplayBar ==
  /\ phase = "replay" /\ Candles >= MinCandles /\ i < Candles
  /\ run' = [w \in Which |-> Bar(run[w], lists[w], i)]
  /\ i' = i + 1
  /\ UNCHANGED <<lists, rules, phase>>

\* "Close any remaining position at the last candle", and the result.
Flush ==
  /\ phase = "replay" /\ i = Candles
  /\ run' = [w \in Which |->
       IF run[w].position.side = "NONE" THEN run[w]
       ELSE ClosePosition(run[w], lists[w][Candles].close, Candles - 1, "END")]
  /\ phase' = "done"
  /\ UNCHANGED <<lists, rules, i>>

Next == Refuse \/ ReplayBar \/ Flush
Spec == Init /\ [][Next]_vars

-----------------------------------------------------------------------------
SumSeq(s, f(_)) == MapThenSumSet(LAMBDA k : f(s[k]), 1 .. Len(s))

(***************************************************************************)
(* Every unit of money is accounted for: the balance is the initial one    *)
(* plus the profit of the recorded trades minus the fees paid on entries   *)
(* (which the trade list leaves out).                                      *)
(***************************************************************************)
BalanceAccounted ==
  LET r == run["mine"] IN r.balance = InitialBalance + SumSeq(r.trades, LAMBDA t : t.pnl) - r.entryFees

(***************************************************************************)
(* No lookahead: what the strategy holds after candle i - 1 is decided by  *)
(* the candles before it.  Two runs whose lists agree on candles           *)
(* 0 .. i - 2 hold the same side and have made the same trades at the same *)
(* candles, whatever candle i - 1 and the later ones are (the engine       *)
(* computes its indicators over the whole list before the replay).         *)
(***************************************************************************)
Decisions(r) == <<r.position.side, r.position.entryTime, [k \in 1 .. Len(r.trades) |->
                    <<r.trades[k].side, r.trades[k].entryTime, r.trades[k].exitTime>>]>>
NoLookahead ==
  phase = "replay" /\ (\A j \in 1 .. i - 1 : lists["mine"][j] = lists["other"][j]) =>
    Decisions(run["mine"]) = Decisions(run["other"])

(***************************************************************************)
(* Leaving the market never pays: closing a position (by rule or at the    *)
(* end of the data) leaves at most the equity the position was marked at.  *)
(***************************************************************************)
ClosingCosts ==
  phase' = "done" => \A w \in Which : run'[w].balance <= run[w].curve[Candles]
ClosingOnlyCosts == [][ClosingCosts]_vars

(***************************************************************************)
(* The drawdown kept while the candles go by is the largest fall, relative *)
(* to the peak before it, of the whole equity curve.                       *)
(***************************************************************************)
DrawdownIsLargestFall ==
  LET r == run["mine"]
      From(k) == Max({InitialBalance} \cup {r.curve[j] : j \in 1 .. k})
  IN /\ \A k \in 1 .. i : (From(k) - r.curve[k]) * r.ddDen <= r.ddNum * From(k)
     /\ r.ddNum > 0 => \E k \in 1 .. i : From(k) - r.curve[k] = r.ddNum /\ From(k) = r.ddDen

(***************************************************************************)
(* Positions are opened for the share of the balance the caller asked for: *)
(* "Position size as % of balance".                                        *)
(***************************************************************************)
SizeIsPercentOfBalance ==
  [][LET p == run["mine"].position  q == run'["mine"].position
     IN p.side = "NONE" /\ q.side # "NONE" /\ Len(run'["mine"].trades) = Len(run["mine"].trades) =>
          q.qty * q.entryPrice * 100 <= run["mine"].balance * PositionSizePct]_vars
=============================================================================
