----------------------------- MODULE Indicators -----------------------------
(***************************************************************************)
(* utils/indicators.js: the indicator series of the charts and of the      *)
(* rule-based backtest.  A series has one value per candle (0-based, like  *)
(* the arrays), NaN until enough candles are there.  Prices are whole      *)
(* numbers in a small unit and quotients are rounded down, so values are   *)
(* compared with each other and never with an exact quotient.              *)
(*                                                                         *)
(* The state is the list of candles a chart has; candles arrive one at a   *)
(* time, the oldest is dropped when there are too many, and every series   *)
(* is computed anew from the whole list.                                   *)
(***************************************************************************)
EXTENDS Integers, Sequences, FiniteSetsExt

CONSTANTS Bars,        \* the candles that can arrive: [open, high, low, close, volume]
          Keep,        \* candles the feed keeps (500 in the code)
          Period,      \* the indicator period (n >= 1)
          Fast, Slow   \* the MACD periods

VARIABLE candles
vars == <<candles>>

NaN == 0 - 1000000000
IsNaN(v) == v = NaN

Field(cs, f) == [i \in 0 .. Len(cs) - 1 |-> cs[i + 1][f]]
Closes(cs) == Field(cs, "close")
Highs(cs) == Field(cs, "high")
Lows(cs) == Field(cs, "low")
Volumes(cs) == Field(cs, "volume")

SumOf(f, S) == MapThenSumSet(LAMBDA j : f[j], S)
Window(i, p) == (i - p + 1) .. i
Highest(f, S) == CHOOSE v \in {f[j] : j \in S} : \A j \in S : f[j] <= v
Lowest(f, S) == CHOOSE v \in {f[j] : j \in S} : \A j \in S : f[j] >= v
AbsOf(x) == IF x < 0 THEN 0 - x ELSE x

-----------------------------------------------------------------------------
(* The series. *)

\* Exponential average, seeded with the mean of the first p values.
calcEMA(c, p) ==
  LET ema[i \in DOMAIN c] ==
        IF i < p - 1 THEN NaN
        ELSE IF i = p - 1 THEN SumOf(c, 0 .. p - 1) \div p
        ELSE (2 * c[i] + (p - 1) * ema[i - 1]) \div (p + 1)
  IN ema

\* Wilder's average of x: the mean of x[1 .. p], then (old * (p - 1) + x) / p.
Wilder(x, p) ==
  LET w[i \in DOMAIN x] ==
        IF i < p THEN 0
        ELSE IF i = p THEN SumOf(x, 1 .. p) \div p
        ELSE (w[i - 1] * (p - 1) + x[i]) \div p
  IN w

\* 100 - 100 / (1 + up / down), 100 when nothing went down.
Strength(up, down) == IF down = 0 THEN 100 ELSE 100 - (100 * down) \div (down + up)

Gains(c) == [i \in DOMAIN c |-> IF i > 0 /\ c[i] >= c[i - 1] THEN c[i] - c[i - 1] ELSE 0]
Losses(c) == [i \in DOMAIN c |-> IF i > 0 /\ c[i] < c[i - 1] THEN c[i - 1] - c[i] ELSE 0]

\* Mutant: the averages start from the last p changes of the list.
calcRSIFromEnd(c, p) ==
  LET W == (Cardinality(DOMAIN c) - p) .. (Cardinality(DOMAIN c) - 1)
  IN [i \in DOMAIN c |-> IF i < p THEN NaN ELSE Strength(SumOf(Gains(c), W), SumOf(Losses(c), W))]

calcRSI(c, p) ==
  LET up == Wilder(Gains(c), p)  down == Wilder(Losses(c), p)
  IN [i \in DOMAIN c |-> IF i < p THEN NaN ELSE Strength(up[i], down[i])]

\* Simple average, from a running sum.
calcSMA(c, p) ==
  LET sum[i \in DOMAIN c] == (IF i = 0 THEN 0 ELSE sum[i - 1]) + c[i] - (IF i >= p THEN c[i - p] ELSE 0)
  IN [i \in DOMAIN c |-> IF i < p - 1 THEN NaN ELSE sum[i] \div p]

\* The bands are the middle plus and minus a multiple of this variance's root.
calcBollingerBands(c, p) ==
  LET mid == calcSMA(c, p)
  IN [i \in DOMAIN c |-> IF i < p - 1 THEN NaN
                         ELSE SumOf([j \in DOMAIN c |-> (c[j] - mid[i]) * (c[j] - mid[i])], Window(i, p)) \div p]

calcOBV(c, v) ==
  LET obv[i \in DOMAIN c] ==
        IF i = 0 THEN v[0]
        ELSE obv[i - 1] + (IF c[i] > c[i - 1] THEN v[i] ELSE IF c[i] < c[i - 1] THEN 0 - v[i] ELSE 0)
  IN IF Cardinality(DOMAIN c) < 2 THEN [i \in DOMAIN c |-> 0] ELSE obv

TypicalPrice(h, l, c) == [i \in DOMAIN c |-> (h[i] + l[i] + c[i]) \div 3]

calcMFI(h, l, c, v, p) ==
  LET tp == TypicalPrice(h, l, c)
      pos == [j \in DOMAIN c |-> IF j > 0 /\ tp[j] > tp[j - 1] THEN tp[j] * v[j] ELSE 0]
      neg == [j \in DOMAIN c |-> IF j > 0 /\ tp[j] < tp[j - 1] THEN tp[j] * v[j] ELSE 0]
  IN [i \in DOMAIN c |-> IF i < p THEN NaN ELSE Strength(SumOf(pos, Window(i, p)), SumOf(neg, Window(i, p)))]

RangeOr1(hh, ll) == IF hh = ll THEN 1 ELSE hh - ll

calcWilliamsR(h, l, c, p) ==
  [i \in DOMAIN c |-> IF i < p - 1 THEN NaN
     ELSE LET hh == Highest(h, Window(i, p))  ll == Lowest(l, Window(i, p))
          IN 0 - ((hh - c[i]) * 100) \div RangeOr1(hh, ll)]

StochasticK(h, l, c, p) ==
  [i \in DOMAIN c |-> IF i < p - 1 THEN NaN
     ELSE LET hh == Highest(h, Window(i, p))  ll == Lowest(l, Window(i, p))
          IN ((c[i] - ll) * 100) \div RangeOr1(hh, ll)]

\* %D averages %K with a 0 in place of every value that is not there yet.
StochasticD(h, l, c, p, dp) ==
  LET k == StochasticK(h, l, c, p)
      d == calcSMA([i \in DOMAIN c |-> IF IsNaN(k[i]) THEN 0 ELSE k[i]], dp)
  IN [i \in DOMAIN c |-> IF IsNaN(k[i]) THEN NaN ELSE d[i]]

Midpoint(h, l, i, p) == (Highest(h, Window(i, p)) + Lowest(l, Window(i, p))) \div 2

\* Conversion and base lines, and the spans drawn `shift` candles ahead
\* (9, 26, 52 and 26 in the code).
Tenkan(h, l, p) == [i \in DOMAIN h |-> IF i < p - 1 THEN NaN ELSE Midpoint(h, l, i, p)]
SenkouA(h, l, t, k, shift) ==
  [i \in DOMAIN h |-> IF i - shift < k - 1 THEN NaN
                      ELSE (Midpoint(h, l, i - shift, t) + Midpoint(h, l, i - shift, k)) \div 2]
SenkouB(h, l, b, shift) == [i \in DOMAIN h |-> IF i - shift < b - 1 THEN NaN ELSE Midpoint(h, l, i - shift, b)]

TrueRange(h, l, c) ==
  [i \in DOMAIN c |->
     IF i = 0 THEN h[0] - l[0]
     ELSE Max({h[i] - l[i], AbsOf(h[i] - c[i - 1]), AbsOf(l[i] - c[i - 1])})]

calcATR(h, l, c, p) ==
  LET tr == TrueRange(h, l, c)
      atr[i \in DOMAIN c] ==
        IF i < p - 1 \/ Cardinality(DOMAIN c) < 2 THEN NaN
        ELSE IF i = p - 1 THEN SumOf(tr, 0 .. p - 1) \div p
        ELSE (atr[i - 1] * (p - 1) + tr[i]) \div p
  IN atr

\* Direction, acceleration (in hundredths), extreme and stop after candle i.
calcParabolicSAR(h, l) ==
  LET Back(f, i) == f[IF i > 2 THEN i - 2 ELSE 0]
      Step(s, i) ==
        LET v == s.sar + (s.af * (s.ep - s.sar)) \div 100
            faster == Min({s.af + 2, 20})
        IN IF s.bull
           THEN IF l[i] < v THEN [bull |-> FALSE, af |-> 2, ep |-> l[i], sar |-> s.ep]
                ELSE [bull |-> TRUE, af |-> IF h[i] > s.ep THEN faster ELSE s.af,
                      ep |-> Max({h[i], s.ep}), sar |-> Min({v, l[i - 1], Back(l, i)})]
           ELSE IF h[i] > v THEN [bull |-> TRUE, af |-> 2, ep |-> h[i], sar |-> s.ep]
                ELSE [bull |-> FALSE, af |-> IF l[i] < s.ep THEN faster ELSE s.af,
                      ep |-> Min({l[i], s.ep}), sar |-> Max({v, h[i - 1], Back(h, i)})]
      s[i \in DOMAIN h] ==
        IF i = 0 THEN [bull |-> TRUE, af |-> 2, ep |-> l[0], sar |-> h[0]] ELSE Step(s[i - 1], i)
  IN [i \in DOMAIN h |-> IF i = 0 THEN NaN ELSE s[i].sar]

UpMove(h, i) == h[i] - h[i - 1]
DownMove(l, i) == l[i - 1] - l[i]
PlusDM(h, l) ==
  [i \in DOMAIN h |-> IF i > 0 /\ UpMove(h, i) > DownMove(l, i) /\ UpMove(h, i) > 0 THEN UpMove(h, i) ELSE 0]
MinusDM(h, l) ==
  [i \in DOMAIN h |-> IF i > 0 /\ DownMove(l, i) > UpMove(h, i) /\ DownMove(l, i) > 0 THEN DownMove(l, i) ELSE 0]
Directional(dm, h, l, c, p) ==
  LET atr == Wilder(TrueRange(h, l, c), p)  a == Wilder(dm, p)
  IN [i \in DOMAIN c |-> IF i <= p \/ Cardinality(DOMAIN c) < 2 * p THEN NaN
                         ELSE IF atr[i] > 0 THEN (a[i] * 100) \div atr[i] ELSE 0]

\* Trend strength: the mean of p values of dx at candle 2p, smoothed from there.
calcADX(h, l, c, p) ==
  LET pdi == Directional(PlusDM(h, l), h, l, c, p)
      mdi == Directional(MinusDM(h, l), h, l, c, p)
      dx == [i \in DOMAIN c |-> IF i > p /\ pdi[i] + mdi[i] > 0
                                THEN (AbsOf(pdi[i] - mdi[i]) * 100) \div (pdi[i] + mdi[i]) ELSE 0]
      adx[i \in DOMAIN c] ==
        IF i < 2 * p THEN NaN
        ELSE IF i = 2 * p THEN SumOf(dx, p + 1 .. 2 * p) \div p
        ELSE (adx[i - 1] * (p - 1) + dx[i]) \div p
  IN adx

\* The distance from the mean typical price, in mean deviations.
calcCCI(h, l, c, p) ==
  LET tp == TypicalPrice(h, l, c)
      Mean(i) == SumOf(tp, Window(i, p)) \div p
      Dev(i) == SumOf([j \in DOMAIN c |-> AbsOf(tp[j] - Mean(i))], Window(i, p)) \div p
  IN [i \in DOMAIN c |-> IF i < p - 1 THEN NaN
                         ELSE IF Dev(i) = 0 THEN 0 ELSE ((tp[i] - Mean(i)) * 1000) \div (15 * Dev(i))]

\* Fast minus slow average of the midpoints (5 and 34 in the code).
calcAwesomeOscillator(h, l, f, s) ==
  LET mid == [i \in DOMAIN h |-> (h[i] + l[i]) \div 2]
  IN [i \in DOMAIN h |-> IF i < s - 1 THEN NaN
                         ELSE SumOf(mid, Window(i, f)) \div f - SumOf(mid, Window(i, s)) \div s]

\* The signal line is the average of the values that are there, put back where
\* the first of them is.
SignalOf(macd, p) ==
  LET V == {i \in DOMAIN macd : ~IsNaN(macd[i])}
      from == IF V = {} THEN 0 ELSE Min(V)
      line == calcEMA([i \in 0 .. Cardinality(V) - 1 |-> macd[from + i]], p)
  IN [i \in DOMAIN macd |-> IF i \in V THEN line[i - from] ELSE NaN]
Difference(a, b) == [i \in DOMAIN a |-> IF IsNaN(a[i]) \/ IsNaN(b[i]) THEN NaN ELSE a[i] - b[i]]

calcMACD(c, f, s) == Difference(calcEMA(c, f), calcEMA(c, s))

\* Seeded with the volume-weighted mean; a candle without volume repeats.
VwEMA(c, v, p) ==
  LET e[i \in DOMAIN c] ==
        IF i < p - 1 THEN NaN
        ELSE IF i = p - 1
             THEN LET sum == SumOf(v, 0 .. p - 1)
                  IN IF sum > 0 THEN SumOf([j \in DOMAIN c |-> c[j] * v[j]], 0 .. p - 1) \div sum ELSE c[i]
        ELSE IF v[i] > 0 THEN (2 * c[i] + (p - 1) * e[i - 1]) \div (p + 1) ELSE e[i - 1]
  IN e
calcVWAPMACD(c, v, f, s) == Difference(VwEMA(c, v, f), VwEMA(c, v, s))

\* Averaged candles; the first one opens halfway between open and close.
toHeikinAshi(cs) ==
  LET o == Field(cs, "open")  h == Highs(cs)  l == Lows(cs)  c == Closes(cs)
      Close(i) == (o[i] + h[i] + l[i] + c[i]) \div 4
      open[i \in DOMAIN c] == IF i = 0 THEN (o[0] + c[0]) \div 2 ELSE (open[i - 1] + Close(i - 1)) \div 2
  IN [i \in DOMAIN c |-> [open |-> open[i], close |-> Close(i), high |-> Max({h[i], open[i], Close(i)}),
                          low |-> Min({l[i], open[i], Close(i)})]]

-----------------------------------------------------------------------------
Init == candles = << >>

\* A candle arrives and the last Keep are kept.
NewCandle ==
  \E b \in Bars :
    LET all == Append(candles, b)
    IN candles' = IF Len(all) > Keep THEN Tail(all) ELSE all

Next == NewCandle
Spec == Init /\ [][Next]_vars

\* Every series a chart draws or a backtest rule reads, by name.
SeriesOf(cs) ==
  LET c == Closes(cs)  h == Highs(cs)  l == Lows(cs)  v == Volumes(cs)
      macd == calcMACD(c, Fast, Slow)  vmacd == calcVWAPMACD(c, v, Fast, Slow)
  IN [ema |-> calcEMA(c, Period), rsi |-> calcRSI(c, Period), sma |-> calcSMA(c, Period),
      bands |-> calcBollingerBands(c, Period), mfi |-> calcMFI(h, l, c, v, Period),
      wr |-> calcWilliamsR(h, l, c, Period), k |-> StochasticK(h, l, c, Period),
      d |-> StochasticD(h, l, c, Period, Period), tenkan |-> Tenkan(h, l, Period),
      senkouA |-> SenkouA(h, l, Period, Period + 1, Period), senkouB |-> SenkouB(h, l, Period + 1, Period),
      atr |-> calcATR(h, l, c, Period), adx |-> calcADX(h, l, c, Period), cci |-> calcCCI(h, l, c, Period),
      ao |-> calcAwesomeOscillator(h, l, Fast, Slow), macd |-> macd, signal |-> SignalOf(macd, Period),
      histogram |-> Difference(macd, SignalOf(macd, Period)), vmacd |-> vmacd,
      vsignal |-> SignalOf(vmacd, Period), obv |-> calcOBV(c, v), sar |-> calcParabolicSAR(h, l),
      ha |-> toHeikinAshi(cs)]

-----------------------------------------------------------------------------
(***************************************************************************)
(* No indicator repaints while the list grows: a new candle adds a value   *)
(* to every series and changes none that was there, although calcRSI,      *)
(* calcMACD's signal line, the shifted Ichimoku spans and the others are   *)
(* computed from the whole list again.  (For a single candle OBV is 0 and  *)
(* ATR is not there.)                                                      *)
(***************************************************************************)
OldValuesStand ==
  Len(candles) >= 2 /\ Len(candles') > Len(candles) =>
     LET old == SeriesOf(candles)  new == SeriesOf(candles')
     IN \A s \in DOMAIN old : \A i \in 0 .. Len(candles) - 1 : new[s][i] = old[s][i]
NoRepaint == [][OldValuesStand]_vars

(***************************************************************************)
(* When the oldest candle is dropped, the series that look at a fixed      *)
(* window (simple averages, %R, %K, MFI, CCI, the Ichimoku lines and the   *)
(* awesome oscillator) keep their values, one place to the left.  The      *)
(* exponential ones do not: their seed moves.                              *)
(***************************************************************************)
WindowsStand ==
  Len(candles') = Len(candles) =>
     LET old == SeriesOf(candles)  new == SeriesOf(candles')
     IN \A s \in {"sma", "bands", "wr", "k", "mfi", "cci", "ao", "tenkan", "senkouA", "senkouB"} :
          \A i \in 1 .. Len(candles) - 1 : IsNaN(new[s][i - 1]) \/ new[s][i - 1] = old[s][i]
WindowedSurviveDrop == [][WindowsStand]_vars

(***************************************************************************)
(* Values start where the comments say: "NaN for first period-1" (EMA),    *)
(* "NaN for first period" (RSI), and the MACD signal `Period - 1` values   *)
(* after the slow average.                                                 *)
(***************************************************************************)
StartsAt(f, k) == \A i \in DOMAIN f : IsNaN(f[i]) <=> i < k
WarmUpAsDocumented ==
  LET s == SeriesOf(candles)  slower == IF Fast > Slow THEN Fast ELSE Slow
  IN /\ StartsAt(s.ema, Period - 1) /\ StartsAt(s.rsi, Period) /\ StartsAt(s.mfi, Period)
     /\ StartsAt(s.macd, slower - 1) /\ StartsAt(s.signal, slower - 1 + Period - 1)
     /\ StartsAt(s.histogram, slower - 1 + Period - 1) /\ StartsAt(s.adx, 2 * Period)

(***************************************************************************)
(* The running sum of calcSMA, which only ever adds one close and          *)
(* subtracts one, is the sum of the last `Period` closes.                  *)
(***************************************************************************)
RunningSumIsWindow ==
  LET c == Closes(candles)
  IN \A i \in DOMAIN c : i >= Period - 1 => calcSMA(c, Period)[i] = SumOf(c, Window(i, Period)) \div Period

(***************************************************************************)
(* RSI, MFI and %K stay within 0..100 and Williams %R within -100..0, for  *)
(* every candle whose close lies between its low and its high.             *)
(***************************************************************************)
OscillatorsInRange ==
  LET s == SeriesOf(candles)
  IN \A i \in 0 .. Len(candles) - 1 :
       /\ \A f \in {s.rsi, s.mfi, s.k} : IsNaN(f[i]) \/ f[i] \in 0 .. 100
       /\ IsNaN(s.wr[i]) \/ s.wr[i] \in (0 - 100) .. 0

(***************************************************************************)
(* %D is %K smoothed over `dPeriod` candles: the mean of that many values  *)
(* of %K.                                                                  *)
(***************************************************************************)
SmoothedKIsMeanOfK ==
  LET s == SeriesOf(candles)
  IN \A i \in 0 .. Len(candles) - 1 :
       ~IsNaN(s.d[i]) => /\ \A j \in Window(i, Period) : ~IsNaN(s.k[j])
                         /\ s.d[i] = SumOf(s.k, Window(i, Period)) \div Period
=============================================================================
