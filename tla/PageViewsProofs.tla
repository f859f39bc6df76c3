-------------------------- MODULE PageViewsProofs ---------------------------
(***************************************************************************)
(* What PageViews.cfg checks of the charts, boundaries, windows, players   *)
(* and recordings on small instances, for every set of symbols, lines,     *)
(* curves and panels and every bound.  Each part has an inductive          *)
(* invariant and a lemma for each kind of action; PartInv puts them        *)
(* together.                                                               *)
(***************************************************************************)
EXTENDS PageViews, SequenceTheorems, FiniteSetTheorems, TLAPS

-----------------------------------------------------------------------------
(* The main chart. *)

Drawing == [of : Symbols \cup {"none"}, n : 0 .. MaxCandles, lines : SUBSET Lines,
            customs : SUBSET Customs, rsi : BOOLEAN, marked : BOOLEAN]

ChartBooleans ==
  /\ mounted \in BOOLEAN /\ markers \in BOOLEAN /\ chart \in BOOLEAN
  /\ rsiChart \in BOOLEAN /\ linked \in BOOLEAN /\ errorPage \in BOOLEAN

ChartTyped ==
  /\ symbol \in Symbols /\ candles \in [Symbols -> 0 .. MaxCandles]
  /\ active \in SUBSET (Lines \cup {"rsi"}) /\ customs \in SUBSET Customs
  /\ drawn \in Drawing

ChartInv == ChartBooleans /\ ChartTyped /\ Chart!DrawnIsWanted /\ Chart!NoChartLeaks

LEMMA ChartInit == Chart!Init => ChartInv
  <1> SUFFICES ASSUME Chart!Init PROVE ChartInv OBVIOUS
  <1>1. ChartBooleans BY Zenon DEF Chart!Init, ChartBooleans
  <1>2. drawn \in Drawing
    BY ChartAssumption DEF Chart!Init, Chart!Nothing, Chart!NoSymbol, Drawing
  <1>3. ChartTyped BY <1>2, ChartAssumption DEF Chart!Init, Chart!DefaultLines, ChartTyped
  <1>4. Chart!DrawnIsWanted BY Zenon DEF Chart!Init, Chart!DrawnIsWanted
  <1>5. Chart!NoChartLeaks BY Zenon DEF Chart!Init, Chart!NoChartLeaks
  <1> QED BY <1>1, <1>3, <1>4, <1>5 DEF ChartInv

\* d draws what is wanted: symbol, number of candles, lines, custom lines, markers, RSI line.
DrawnAs(d, s, n, on, wanted, mark, there) ==
  /\ d \in Drawing
  /\ n > 0 => /\ d.of = s /\ d.n = n /\ d.lines = on \ {"rsi"} /\ d.customs = wanted
              /\ (there = ("rsi" \in on)) => (d.rsi = ("rsi" \in on))
              /\ d.marked = mark

\* The update effect: with candles, the series hold what is wanted.
LEMMA UpdateFacts ==
  ASSUME drawn \in Drawing,
         NEW s \in Symbols, NEW n \in 0 .. MaxCandles, NEW on \in SUBSET (Lines \cup {"rsi"}),
         NEW wanted \in SUBSET Customs, NEW mark \in BOOLEAN, NEW there \in BOOLEAN
  PROVE  DrawnAs(Chart!Update(s, n, on, wanted, mark, there), s, n, on, wanted, mark, there)
  <1> DEFINE d == Chart!Update(s, n, on, wanted, mark, there)
             r == IF "rsi" \in on /\ there THEN TRUE ELSE drawn.rsi /\ there
  <1>1. drawn.rsi \in BOOLEAN BY DEF Drawing
  <1>2. r \in BOOLEAN /\ (drawn.rsi /\ there) \in BOOLEAN BY <1>1, Zenon
  <1>3. (there = ("rsi" \in on)) => (r = ("rsi" \in on)) BY <1>1, Zenon
  <1> HIDE DEF r
  <1>4. CASE n = 0
    <2>1. d = [drawn EXCEPT !.rsi = drawn.rsi /\ there] BY <1>4, Zenon DEF Chart!Update
    <2>2. d \in Drawing BY <2>1, <1>2 DEF Drawing
    <2> QED BY <2>2, <1>4 DEF DrawnAs
  <1>5. CASE n # 0
    <2>1. d = [of |-> s, n |-> n, lines |-> on \ {"rsi"}, customs |-> wanted, rsi |-> r, marked |-> mark]
      BY <1>5 DEF Chart!Update, r
    <2> HIDE DEF d
    <2>2. on \ {"rsi"} \in SUBSET Lines OBVIOUS
    <2>3. d \in Drawing BY <2>1, <2>2, <1>2 DEF Drawing
    <2>4. /\ d.of = s /\ d.n = n /\ d.lines = on \ {"rsi"} /\ d.customs = wanted
          /\ d.rsi = r /\ d.marked = mark
      BY <2>1
    <2> QED BY <2>3, <2>4, <1>3 DEF d, DrawnAs
  <1> QED BY <1>4, <1>5

\* After any change of a mounted chart the effect has brought it up to date.
LEMMA ChartRefreshed ==
  ASSUME drawn \in Drawing, ChartBooleans', Chart!NoChartLeaks',
         symbol' \in Symbols, candles' \in [Symbols -> 0 .. MaxCandles],
         active' \in SUBSET (Lines \cup {"rsi"}), customs' \in SUBSET Customs,
         drawn' = IF mounted'
                  THEN Chart!Update(symbol', candles'[symbol'], active', customs', markers', rsiChart')
                  ELSE drawn
  PROVE  ChartInv'
  <1>1. CASE ~mounted'
    <2>1. drawn' \in Drawing BY <1>1
    <2>2. Chart!DrawnIsWanted' BY <1>1, Zenon DEF Chart!DrawnIsWanted
    <2> QED BY <2>1, <2>2 DEF ChartInv, ChartTyped
  <1>2. CASE mounted'
    <2> DEFINE d == Chart!Update(symbol', candles'[symbol'], active', customs', markers', rsiChart')
               n == candles'[symbol']
    <2>1. drawn' = d BY <1>2, Zenon
    <2>2. n \in 0 .. MaxCandles /\ markers' \in BOOLEAN /\ rsiChart' \in BOOLEAN BY DEF ChartBooleans
    <2>3. rsiChart' = ("rsi" \in active') BY <1>2 DEF Chart!NoChartLeaks, ChartBooleans
    <2>4. DrawnAs(d, symbol', n, active', customs', markers', rsiChart')
      <3>1. /\ drawn \in Drawing /\ symbol' \in Symbols /\ active' \in SUBSET (Lines \cup {"rsi"})
            /\ customs' \in SUBSET Customs
        OBVIOUS
      <3> QED BY ONLY <2>2, <3>1, UpdateFacts
    <2> HIDE DEF d
    <2>5. drawn' \in Drawing BY <2>1, <2>4 DEF DrawnAs
    <2>6. Chart!DrawnIsWanted' BY <2>1, <2>3, <2>4, Zenon DEF Chart!DrawnIsWanted, DrawnAs
    <2> QED BY <2>5, <2>6 DEF ChartInv, ChartTyped
  <1> QED BY <1>1, <1>2

\* Without a page nothing is drawn.
LEMMA ChartGone ==
  ASSUME ChartInv, Chart!ReplacePage, markers' \in BOOLEAN,
         symbol' \in Symbols, candles' \in [Symbols -> 0 .. MaxCandles],
         active' \in SUBSET (Lines \cup {"rsi"}), customs' \in SUBSET Customs
  PROVE  ChartInv'
  <1>1. ChartBooleans' BY Zenon DEF Chart!ReplacePage, ChartBooleans
  <1>2. Chart!NoChartLeaks' BY Zenon DEF Chart!ReplacePage, Chart!NoChartLeaks
  <1>3. Chart!DrawnIsWanted' BY Zenon DEF Chart!ReplacePage, Chart!DrawnIsWanted
  <1>4. drawn' \in Drawing
    BY ChartAssumption DEF Chart!ReplacePage, Chart!Nothing, Chart!NoSymbol, Drawing
  <1> QED BY <1>1, <1>2, <1>3, <1>4 DEF ChartInv, ChartTyped

LEMMA ChartShown == ASSUME ChartInv, Chart!Mount \/ Chart!Unmount PROVE ChartInv'
  <1>1. CASE Chart!Mount
    <2>1. ChartBooleans' BY <1>1, Zenon DEF Chart!Mount, ChartBooleans
    <2>2. "rsi" \notin Chart!DefaultLines BY ChartAssumption DEF Chart!DefaultLines
    <2>3. Chart!NoChartLeaks' BY <1>1, <2>2, Zenon DEF Chart!Mount, Chart!NoChartLeaks
    <2>4. drawn' \in Drawing
      BY <1>1, ChartAssumption DEF Chart!Mount, Chart!Nothing, Chart!NoSymbol, Drawing
    <2>5. /\ symbol' \in Symbols /\ candles' \in [Symbols -> 0 .. MaxCandles]
          /\ active' \in SUBSET (Lines \cup {"rsi"}) /\ customs' \in SUBSET Customs
      BY <1>1, ChartAssumption DEF Chart!Mount, Chart!DefaultLines
    <2>6. candles'[symbol'] = 0 BY <1>1, <2>5 DEF Chart!Mount
    <2>7. Chart!DrawnIsWanted' BY <2>6 DEF Chart!DrawnIsWanted
    <2> QED BY <2>1, <2>3, <2>4, <2>5, <2>7 DEF ChartInv, ChartTyped
  <1>2. CASE Chart!Unmount
    <2>1. Chart!ReplacePage BY <1>2 DEF Chart!Unmount
    <2>2. UNCHANGED <<symbol, candles, active, customs, markers>> BY <1>2 DEF Chart!Unmount
    <2>3. markers' \in BOOLEAN BY <2>2, Zenon DEF ChartInv, ChartBooleans
    <2>4. /\ symbol' \in Symbols /\ candles' \in [Symbols -> 0 .. MaxCandles]
          /\ active' \in SUBSET (Lines \cup {"rsi"}) /\ customs' \in SUBSET Customs
      BY <2>2 DEF ChartInv, ChartTyped
    <2> QED BY <2>1, <2>3, <2>4, ChartGone
  <1> QED BY <1>1, <1>2

LEMMA ChartRsi == ASSUME ChartInv, Chart!ToggleRsi PROVE ChartInv'
  <1>1. CASE Chart!RsiOn
    <2>1. /\ mounted /\ active' = active \cup {"rsi"} /\ rsiChart' = TRUE /\ linked' = chart
          /\ UNCHANGED <<mounted, errorPage, symbol, candles, customs, markers, chart>>
      BY <1>1 DEF Chart!RsiOn
    <2>2. ChartBooleans' BY <2>1, Zenon DEF ChartInv, ChartBooleans
    <2>3. Chart!NoChartLeaks'
      <3>1. "rsi" \in active' BY <2>1
      <3> QED BY <2>1, <3>1, Zenon DEF ChartInv, Chart!NoChartLeaks
    <2>4. drawn' = IF mounted'
                   THEN Chart!Update(symbol', candles'[symbol'], active', customs', markers', rsiChart')
                   ELSE drawn
      <3>1. drawn' = Chart!Update(symbol, candles[symbol], active', customs, markers, TRUE)
        BY <1>1, Zenon DEF Chart!RsiOn
      <3> QED BY <2>1, <3>1
    <2>5. /\ drawn \in Drawing /\ symbol' \in Symbols /\ candles' \in [Symbols -> 0 .. MaxCandles]
          /\ active' \in SUBSET (Lines \cup {"rsi"}) /\ customs' \in SUBSET Customs
      BY <2>1 DEF ChartInv, ChartTyped
    <2> QED BY <2>2, <2>3, <2>4, <2>5, ChartRefreshed
  <1>2. CASE Chart!RsiOff
    <2>1. Chart!ReplacePage BY <1>2 DEF Chart!RsiOff
    <2>2. active' = active \ {"rsi"} /\ UNCHANGED <<symbol, candles, customs, markers>>
      BY <1>2 DEF Chart!RsiOff
    <2>3. markers' \in BOOLEAN BY <2>2, Zenon DEF ChartInv, ChartBooleans
    <2>4. /\ symbol' \in Symbols /\ candles' \in [Symbols -> 0 .. MaxCandles]
          /\ active' \in SUBSET (Lines \cup {"rsi"}) /\ customs' \in SUBSET Customs
      BY <2>2 DEF ChartInv, ChartTyped
    <2> QED BY <2>1, <2>3, <2>4, ChartGone
  <1> QED BY <1>1, <1>2 DEF Chart!ToggleRsi

\* Actions that leave both charts and their button alone.
LEMMA ChartOther ==
  ASSUME ChartInv,
         \/ Chart!ToggleMarkers
         \/ \E l \in Lines : Chart!ToggleLine(l)
         \/ \E s \in Symbols : Chart!SelectSymbol(s) \/ Chart!NewCandle(s)
         \/ \E c \in Customs : Chart!SetCustom(c)
  PROVE  ChartInv'
  <1> DEFINE Refreshes ==
        drawn' = IF mounted'
                 THEN Chart!Update(symbol', candles'[symbol'], active', customs', markers', rsiChart')
                 ELSE drawn
             Keeps == /\ UNCHANGED <<mounted, errorPage, chart, rsiChart, linked>>
                      /\ ("rsi" \in active') = ("rsi" \in active) /\ markers' \in BOOLEAN
             Typed == /\ symbol' \in Symbols /\ candles' \in [Symbols -> 0 .. MaxCandles]
                      /\ active' \in SUBSET (Lines \cup {"rsi"}) /\ customs' \in SUBSET Customs
  <1>1. SUFFICES Refreshes /\ Keeps /\ Typed
    <2> HIDE DEF Refreshes
    <2>1. ChartBooleans' BY <1>1, Zenon DEF ChartInv, ChartBooleans
    <2>2. Chart!NoChartLeaks' BY <1>1 DEF ChartInv, Chart!NoChartLeaks
    <2>3. drawn \in Drawing BY DEF ChartInv, ChartTyped
    <2>4. Refreshes BY <1>1
    <2> QED BY <1>1, <2>1, <2>2, <2>3, <2>4, ChartRefreshed DEF Refreshes
  <1>2. CASE Chart!ToggleMarkers
    <2>1. Refreshes BY <1>2, Zenon DEF Chart!ToggleMarkers
    <2>2. Keeps BY <1>2, Zenon DEF Chart!ToggleMarkers
    <2>3. Typed BY <1>2 DEF Chart!ToggleMarkers, ChartInv, ChartTyped
    <2> QED BY <2>1, <2>2, <2>3
  <1>3. ASSUME NEW l \in Lines, Chart!ToggleLine(l) PROVE Refreshes /\ Keeps /\ Typed
    <2>1. Refreshes BY <1>3, Zenon DEF Chart!ToggleLine
    <2>2. Keeps
      <3>1. l # "rsi" BY ChartAssumption
      <3>2. ("rsi" \in active') = ("rsi" \in active) BY <1>3, <3>1 DEF Chart!ToggleLine
      <3>3. UNCHANGED <<mounted, errorPage, chart, rsiChart, linked>> /\ markers' = markers
        BY <1>3 DEF Chart!ToggleLine
      <3> QED BY <3>2, <3>3, Zenon DEF ChartInv, ChartBooleans
    <2>3. Typed BY <1>3 DEF Chart!ToggleLine, ChartInv, ChartTyped
    <2> QED BY <2>1, <2>2, <2>3
  <1>4. ASSUME NEW s \in Symbols, Chart!SelectSymbol(s) PROVE Refreshes /\ Keeps /\ Typed
    <2>1. Refreshes BY <1>4, Zenon DEF Chart!SelectSymbol
    <2>2. Keeps BY <1>4, Zenon DEF Chart!SelectSymbol, ChartInv, ChartBooleans
    <2>3. Typed BY <1>4 DEF Chart!SelectSymbol, ChartInv, ChartTyped
    <2> QED BY <2>1, <2>2, <2>3
  <1>5. ASSUME NEW s \in Symbols, Chart!NewCandle(s) PROVE Refreshes /\ Keeps /\ Typed
    <2>1. Refreshes
      <3>1. mounted' = mounted /\ symbol' = symbol /\ active' = active /\ customs' = customs
            /\ markers' = markers /\ rsiChart' = rsiChart /\ mounted
        BY <1>5 DEF Chart!NewCandle
      <3>2. drawn' = Chart!Update(symbol, candles'[symbol], active, customs, markers, rsiChart)
        BY <1>5, Zenon DEF Chart!NewCandle
      <3> QED BY <3>1, <3>2
    <2>2. Keeps BY <1>5, Zenon DEF Chart!NewCandle, ChartInv, ChartBooleans
    <2>3. Typed
      <3>1. candles[s] + 1 \in 0 .. MaxCandles
        BY <1>5, ChartAssumption DEF Chart!NewCandle, ChartInv, ChartTyped
      <3> QED BY <1>5, <3>1 DEF Chart!NewCandle, ChartInv, ChartTyped
    <2> QED BY <2>1, <2>2, <2>3
  <1>6. ASSUME NEW c \in Customs, Chart!SetCustom(c) PROVE Refreshes /\ Keeps /\ Typed
    <2>1. Refreshes BY <1>6, Zenon DEF Chart!SetCustom
    <2>2. Keeps BY <1>6, Zenon DEF Chart!SetCustom, ChartInv, ChartBooleans
    <2>3. Typed BY <1>6 DEF Chart!SetCustom, ChartInv, ChartTyped
    <2> QED BY <2>1, <2>2, <2>3
  <1> QED BY <1>2, <1>3, <1>4, <1>5, <1>6

LEMMA ChartStep == ASSUME ChartInv, Chart!Next PROVE ChartInv'
  BY ChartShown, ChartRsi, ChartOther DEF Chart!Next

\* The invariant in the words of CandleChart.
LEMMA ChartIsSound == ChartInv => Chart!TypeOK /\ Chart!DrawnIsWanted /\ Chart!NoChartLeaks
  <1> SUFFICES ASSUME ChartInv PROVE Chart!TypeOK BY DEF ChartInv
  <1>1. {mounted, errorPage, markers, chart, rsiChart, linked} \subseteq BOOLEAN
    BY Zenon DEF ChartInv, ChartBooleans
  <1>2. drawn.lines \subseteq Lines /\ drawn.customs \subseteq Customs
    BY DEF ChartInv, ChartTyped, Drawing
  <1> QED BY <1>1, <1>2 DEF ChartInv, ChartTyped, Chart!TypeOK

-----------------------------------------------------------------------------
(* Lists in order.                                                           *)

\* A finite set of naturals has an increasing list.
LEMMA IncreasingList ==
  ASSUME NEW T, T \subseteq Nat, IsFiniteSet(T)
  PROVE  \E list \in [1 .. Cardinality(T) -> T] :
           \A i, j \in DOMAIN list : i < j => list[i] < list[j]
  <1> DEFINE n == Cardinality(T)
             Below(t) == {u \in T : u <= t}
             pos == [t \in T |-> Cardinality(Below(t))]
  <1>1. n \in Nat BY FS_CardinalityType
  <1>2. ASSUME NEW t \in T
        PROVE  IsFiniteSet(Below(t)) /\ pos[t] \in 1..n
    <2>1. Below(t) \in SUBSET T OBVIOUS
    <2>2. IsFiniteSet(Below(t)) /\ Cardinality(Below(t)) <= n BY <2>1, FS_Subset
    <2>3. Cardinality(Below(t)) \in Nat /\ Cardinality(Below(t)) # 0
      <3>1. t \in Below(t) OBVIOUS
      <3> QED BY <2>2, <3>1, FS_CardinalityType, FS_EmptySet
    <2> QED BY <1>1, <2>2, <2>3
  <1>3. ASSUME NEW t \in T, NEW u \in T, t < u PROVE pos[t] < pos[u]
    <2>1. Below(t) \in SUBSET Below(u)
      <3>1. t \in Nat /\ u \in Nat /\ \A w \in T : w \in Nat OBVIOUS
      <3>2. \A w \in T : w <= t => w <= u BY <1>3, <3>1
      <3> QED BY <3>2
    <2>2. Below(t) # Below(u)
      <3>1. u \in Below(u) /\ u \notin Below(t) BY <1>3
      <3> QED BY <3>1
    <2>3. pos[t] <= pos[u] /\ pos[t] # pos[u] BY <1>2, <2>1, <2>2, FS_Subset
    <2> QED BY <1>2, <2>3
  <1>4. pos \in [T -> 1..n] BY <1>2
  <1>5. \A t, u \in T : pos[t] = pos[u] => t = u
    <2>1. SUFFICES ASSUME NEW t \in T, NEW u \in T, pos[t] = pos[u], t # u PROVE FALSE OBVIOUS
    <2>2. t < u \/ u < t BY <2>1
    <2>3. pos[t] \in Int /\ pos[u] \in Int BY <1>1, <1>2
    <2> QED BY <1>3, <2>1, <2>2, <2>3
  <1>6. pos \in Injection(T, 1..n) BY <1>4, <1>5 DEF Injection, IsInjective
  <1>7. IsFiniteSet(1..n) /\ Cardinality(1..n) = n BY <1>1, FS_Interval
  <1>8. pos \in Surjection(T, 1..n) BY <1>6, <1>7, FS_Injection
  <1>9. \A i \in 1..n : \E t \in T : pos[t] = i BY <1>8 DEF Surjection
  <1> DEFINE f == [i \in 1..n |-> CHOOSE t \in T : pos[t] = i]
  <1>10. \A i \in 1..n : f[i] \in T /\ pos[f[i]] = i BY <1>9
  <1>11. f \in [1..n -> T] BY <1>10
  <1> HIDE DEF f, pos
  <1>12. ASSUME NEW i \in 1..n, NEW j \in 1..n, i < j PROVE f[i] < f[j]
    <2>1. f[i] \in T /\ f[j] \in T /\ pos[f[i]] = i /\ pos[f[j]] = j BY <1>10
    <2>2. f[i] \in Nat /\ f[j] \in Nat /\ i \in Nat /\ j \in Nat
      <3>1. i \in Nat /\ j \in Nat BY <1>1
      <3>2. f[i] \in Nat /\ f[j] \in Nat BY <2>1
      <3> QED BY <3>1, <3>2
    <2>3. f[i] # f[j] BY <2>1, <2>2, <1>12
    <2>4. ~(f[j] < f[i]) BY <1>3, <1>12, <2>1, <2>2
    <2> QED BY <2>2, <2>3, <2>4
  <1> QED BY <1>11, <1>12

-----------------------------------------------------------------------------
(* The charts of a comparison and of the performance dashboard.              *)

ResultHosts == {"comparison", "performance"}

ResultTables ==
  /\ data = [h \in ResultHosts |-> data[h]] /\ resultDrawn = [h \in ResultHosts |-> resultDrawn[h]]
  /\ open = [h \in ResultHosts |-> open[h]] /\ resultChart = [h \in ResultHosts |-> resultChart[h]]

(***************************************************************************)
(* A comparison on the screen has its chart, so every delivery is drawn;   *)
(* the dashboard shows points only.  No local backtest runs here.          *)
(***************************************************************************)
ResultsInv ==
  /\ ResultTables
  /\ open["comparison"] => resultChart["comparison"]
  /\ data["performance"].kind # "curves"
  /\ open["comparison"] /\ data["comparison"].kind = "curves" =>
       resultDrawn["comparison"] = data["comparison"]
  /\ timer = 0 /\ ~crashed

\* The points handed to the library are finite and ascend.
LEMMA CleanIsAccepted ==
  ASSUME NEW s \in Results!Series PROVE Results!Accepts(Results!Clean(s))
  <1> DEFINE at == {j \in DOMAIN s : s[j].finite}
             K == {s[i].time : i \in at}
             times == Results!Sorted(K)
             c == Cardinality(K)
  <1>1. PICK n \in 0 .. MaxPoints : s \in [1 .. n -> Results!Points] BY DEF Results!Series
  <1>2. n \in Nat BY ResultAssumption
  <1>3. K \subseteq Nat
    <2>1. ASSUME NEW i \in at PROVE s[i].time \in Nat
      BY <1>1, <2>1, ResultAssumption DEF Results!Points
    <2> QED BY <2>1
  <1>4. IsFiniteSet(K)
    <2>1. IsFiniteSet(1 .. n) BY <1>2, FS_Interval
    <2>2. at \in SUBSET (1 .. n) BY <1>1
    <2>3. IsFiniteSet(at) BY <2>1, <2>2, FS_Subset
    <2> HIDE DEF at
    <2> DEFINE f == [i \in at |-> s[i].time]
    <2>4. K = {f[i] : i \in at} OBVIOUS
    <2>5. f \in Surjection(at, K) BY <2>4 DEF Surjection
    <2> QED BY <2>3, <2>5, FS_Surjection
  <1> HIDE DEF K
  <1>5. times \in [1 .. c -> K] /\ \A i, j \in DOMAIN times : i < j => times[i] < times[j]
    <2>1. times = CHOOSE list \in [1 .. c -> K] : \A i, j \in DOMAIN list : i < j => list[i] < list[j]
      BY DEF Results!Sorted, Results!Cardinality, Cardinality
    <2>2. \E list \in [1 .. c -> K] : \A i, j \in DOMAIN list : i < j => list[i] < list[j]
      BY <1>3, <1>4, IncreasingList
    <2> HIDE DEF times
    <2> QED BY <2>1, <2>2
  <1>6. Results!Clean(s) = [k \in DOMAIN times |-> [time |-> times[k], finite |-> TRUE]]
    BY DEF Results!Clean, K
  <1> HIDE DEF times
  <1>7. c \in Nat BY <1>4, FS_CardinalityType
  <1>8. ASSUME NEW i \in 1 .. c, i > 1 PROVE i - 1 \in 1 .. c /\ times[i - 1] < times[i]
    <2>1. i - 1 \in 1 .. c /\ i - 1 < i BY <1>7, <1>8
    <2> QED BY <1>5, <2>1
  <1> QED BY <1>5, <1>6, <1>8 DEF Results!Accepts

LEMMA ResultsInit == Results!Init => ResultsInv
  BY DEF Results!Init, Results!NoData, ResultsInv, ResultTables, ResultHosts

\* What a host may be given: curves for a comparison, points for the dashboard;
\* neither makes the library throw.
LEMMA InputFacts ==
  ASSUME NEW h \in ResultHosts, NEW d \in Results!Inputs(h), NEW there
  PROVE  /\ h = "performance" => d.kind = "points"
         /\ h = "comparison" => d.kind = "curves" /\ (there => Results!Drawn(h, there, d) = d)
         /\ ~Results!Throws(h, there, d)
  <1>1. CASE h = "performance"
    <2>1. PICK s \in Results!Series : d = Results!PointsOf(s) BY <1>1 DEF Results!Inputs
    <2>2. d.kind = "points" /\ d.points = s BY <2>1 DEF Results!PointsOf
    <2>3. ~Results!Throws(h, there, d) BY <2>2, CleanIsAccepted DEF Results!Throws
    <2> QED BY <1>1, <2>2, <2>3
  <1>2. CASE h = "comparison"
    <2>1. PICK S \in SUBSET Curves : d = Results!CurvesOf(S, 0) BY <1>2 DEF Results!Inputs
    <2>2. d.kind = "curves" BY <2>1 DEF Results!CurvesOf
    <2>3. there => Results!Drawn(h, there, d) = d BY <2>2 DEF Results!Drawn, Results!Usable
    <2> QED BY <1>2, <2>2, <2>3 DEF Results!Throws
  <1> QED BY <1>1, <1>2 DEF ResultHosts

LEMMA ResultsStep == ASSUME ResultsInv, Results!Next PROVE ResultsInv'
  <1>0. "strategy" \notin ResultHosts BY DEF ResultHosts
  <1>1. \E h \in ResultHosts : \/ Results!Unmount(h)
                               \/ \E d \in Results!FirstInputs(h), wide \in BOOLEAN : Results!Mount(h, d, wide)
                               \/ \E d \in Results!Inputs(h) : Results!Deliver(h, d)
    BY <1>0 DEF Results!Next, Results!EditInputs, Results!HandleRun, Results!LocalDone,
       Results!LocalResult, ResultsInv, ResultHosts
  <1>2. ASSUME NEW h \in ResultHosts, Results!Unmount(h) PROVE ResultsInv'
    <2>1. /\ open' = [open EXCEPT ![h] = FALSE] /\ resultChart' = [resultChart EXCEPT ![h] = FALSE]
          /\ data' = [data EXCEPT ![h] = Results!NoData]
          /\ resultDrawn' = [resultDrawn EXCEPT ![h] = Results!NoData]
          /\ timer' = timer /\ crashed' = crashed
      BY <1>0, <1>2 DEF Results!Unmount
    <2>2. ResultTables' BY <2>1 DEF ResultTables, ResultsInv
    <2>3. Results!NoData.kind = "none" BY DEF Results!NoData
    <2> QED BY <2>1, <2>2, <2>3 DEF ResultsInv, ResultTables, ResultHosts
  <1>3. ASSUME NEW h \in ResultHosts, NEW d \in Results!FirstInputs(h), NEW wide \in BOOLEAN,
               Results!Mount(h, d, wide)
        PROVE  ResultsInv'
    <2> DEFINE there == Results!Container(h, d) /\ (h = "performance" => wide)
    <2>1. d \in Results!Inputs(h) BY DEF Results!FirstInputs, ResultHosts
    <2>2. /\ open' = [open EXCEPT ![h] = TRUE] /\ resultChart' = [resultChart EXCEPT ![h] = there]
          /\ data' = [data EXCEPT ![h] = d]
          /\ resultDrawn' = [resultDrawn EXCEPT ![h] = Results!Drawn(h, there, d)]
          /\ timer' = timer /\ crashed' = (crashed \/ Results!Throws(h, there, d))
      BY <1>3, Zenon DEF Results!Mount
    <2>3. h = "comparison" => there BY DEF Results!Container
    <2> HIDE DEF there
    <2>4. ResultTables' BY <2>2 DEF ResultTables, ResultsInv
    <2>5. /\ h = "performance" => d.kind = "points"
          /\ h = "comparison" => d.kind = "curves" /\ Results!Drawn(h, there, d) = d
          /\ ~Results!Throws(h, there, d)
      BY <2>1, <2>3, InputFacts
    <2> QED BY <2>2, <2>3, <2>4, <2>5 DEF ResultsInv, ResultTables, ResultHosts
  <1>4. ASSUME NEW h \in ResultHosts, NEW d \in Results!Inputs(h), Results!Deliver(h, d)
        PROVE  ResultsInv'
    <2>1. /\ open[h] /\ open' = open /\ resultChart' = resultChart
          /\ data' = [data EXCEPT ![h] = d]
          /\ resultDrawn' = [resultDrawn EXCEPT ![h] = Results!Drawn(h, resultChart[h], d)]
          /\ timer' = timer /\ crashed' = (crashed \/ Results!Throws(h, resultChart[h], d))
      BY <1>4, Zenon DEF Results!Deliver, Results!Show
    <2>2. ResultTables' BY <2>1 DEF ResultTables, ResultsInv
    <2>3. /\ h = "performance" => d.kind = "points"
          /\ h = "comparison" => /\ d.kind = "curves"
                                 /\ resultChart[h] => Results!Drawn(h, resultChart[h], d) = d
          /\ ~Results!Throws(h, resultChart[h], d)
      BY InputFacts
    <2> QED BY <2>1, <2>2, <2>3 DEF ResultsInv, ResultTables, ResultHosts
  <1> QED BY <1>1, <1>2, <1>3, <1>4

\* The invariant in the words of ResultChart.
LEMMA ResultsAreSound == ResultsInv => Results!ResultDrawn /\ Results!NeverThrows
  BY DEF ResultsInv, ResultTables, ResultHosts, Results!ResultDrawn, Results!NeverThrows

-----------------------------------------------------------------------------
(* The local backtest.                                                       *)

LocalHosts == {"strategy", "runner"}

\* The timer runs with the inputs of the click; what is shown afterwards is theirs.
LocalInv ==
  /\ data = [h \in LocalHosts |-> data[h]]
  /\ edits \in Nat \ {0} /\ timer \in Nat
  /\ timer # 0 => asked = timer
  /\ timer = 0 /\ data["strategy"].kind = "curves" => data["strategy"].version = asked

LEMMA LocalInit == Local!Init => LocalInv
  BY DEF Local!Init, Local!NoData, LocalInv, LocalHosts

LEMMA LocalStep == ASSUME LocalInv, Local!Next PROVE LocalInv'
  <1> USE DEF LocalInv, LocalHosts
  <1>1. CASE Local!EditInputs BY <1>1 DEF Local!EditInputs
  <1>2. CASE Local!HandleRun BY <1>2 DEF Local!HandleRun
  <1>3. ASSUME NEW S \in SUBSET Curves, Local!LocalResult(S) PROVE LocalInv'
    <2>1. PICK d \in {Local!CurvesOf(S, timer), Local!Failed} :
            data' = [data EXCEPT !["strategy"] = d] /\ edits' = edits
      BY <1>3 DEF Local!LocalResult, Local!Show
    <2>2. timer # 0 /\ timer' = 0 /\ asked' = asked BY <1>3 DEF Local!LocalResult
    <2>3. d.kind = "curves" => d.version = timer BY DEF Local!CurvesOf, Local!Failed
    <2> QED BY <2>1, <2>2, <2>3
  <1>4. ASSUME NEW h \in LocalHosts, Local!Unmount(h) PROVE LocalInv'
    <2>1. /\ data' = [data EXCEPT ![h] = Local!NoData] /\ edits' = edits
          /\ timer' = (IF h = "strategy" THEN 0 ELSE timer)
          /\ asked' = (IF h = "strategy" THEN 0 ELSE asked)
      BY <1>4 DEF Local!Unmount
    <2>2. Local!NoData.kind = "none" BY DEF Local!NoData
    <2> QED BY <2>1, <2>2
  <1>5. ASSUME NEW h \in LocalHosts, NEW d \in Local!FirstInputs(h), NEW wide \in BOOLEAN,
               Local!Mount(h, d, wide)
        PROVE  LocalInv'
    <2>1. data' = [data EXCEPT ![h] = d] /\ UNCHANGED <<edits, timer, asked>>
      BY <1>5 DEF Local!Mount
    <2>2. d.kind = "none" BY DEF Local!FirstInputs, Local!NoData
    <2> QED BY <2>1, <2>2
  <1>6. ASSUME NEW h \in LocalHosts, NEW d \in Local!Inputs(h), Local!Deliver(h, d) PROVE LocalInv'
    <2>1. h # "strategy" /\ data' = [data EXCEPT ![h] = d] /\ UNCHANGED <<edits, timer, asked>>
      BY <1>6 DEF Local!Deliver, Local!Show
    <2> QED BY <2>1
  <1> QED BY <1>1, <1>2, <1>3, <1>4, <1>5, <1>6 DEF Local!Next, Local!LocalDone

-----------------------------------------------------------------------------
(* The error boundaries.                                                     *)

\* An automatic retry that was made or is armed was allowed by the count, or by
\* a retry of the user, who resets it.
RetriesCounted == autos + timers <= MaxRetries * manuals + chunk.retryCount

BoundaryInv == Boundary!TypeOK /\ Boundary!OuterReplacesInner /\ RetriesCounted

LEMMA BoundaryInit == Boundary!Init => BoundaryInv
  <1> SUFFICES ASSUME Boundary!Init PROVE BoundaryInv OBVIOUS
  <1>1. net \in BOOLEAN /\ faulty \in BOOLEAN /\ boundaryAsked \in BOOLEAN
    BY Zenon DEF Boundary!Init
  <1>2. Boundary!TypeOK /\ RetriesCounted
    BY <1>1, BoundaryAssumption DEF Boundary!Init, Boundary!Fresh, Boundary!TypeOK, RetriesCounted
  <1>3. Boundary!OuterReplacesInner BY DEF Boundary!Init, Boundary!OuterReplacesInner
  <1> QED BY <1>2, <1>3 DEF BoundaryInv

\* The Booleans that no other part of the invariant looks at.
LEMMA BoundaryBooleans ==
  ASSUME BoundaryInv, Boundary!Next
  PROVE  net' \in BOOLEAN /\ faulty' \in BOOLEAN /\ boundaryAsked' \in BOOLEAN
  <1>1. net \in BOOLEAN /\ faulty \in BOOLEAN /\ boundaryAsked \in BOOLEAN
    BY DEF BoundaryInv, Boundary!TypeOK
  <1>2. \/ UNCHANGED <<net, faulty, boundaryAsked>>
        \/ boundaryAsked' = TRUE /\ UNCHANGED <<net, faulty>>
        \/ net' = ~net /\ boundaryAsked' = FALSE /\ UNCHANGED faulty
        \/ faulty' = ~faulty /\ UNCHANGED <<net, boundaryAsked>>
    BY Zenon DEF Boundary!Next, Boundary!StartImport, Boundary!ImportEnds, Boundary!ChunkThrows,
       Boundary!RetryTimer, Boundary!PanelThrows, Boundary!handleManualRetry, Boundary!handleReset,
       Boundary!handleDisable, Boundary!ReEnable, Boundary!Changes
  <1> QED BY <1>1, <1>2, Zenon

LEMMA BoundaryStep == ASSUME BoundaryInv, Boundary!Next PROVE BoundaryInv'
  <1> DEFINE Loaded == lazy' \in {"unstarted", "pending", "resolved", "rejected"}
             Typed == /\ chunk' \in [hasError : BOOLEAN, retryCount : 0 .. MaxRetries]
                      /\ outer' \in [hasError : BOOLEAN, errorCount : Nat, disabled : BOOLEAN]
                      /\ timers' \in Nat /\ autos' \in Nat /\ manuals' \in Nat
             Kept == Loaded /\ Typed /\ Boundary!OuterReplacesInner' /\ RetriesCounted'
  <1>1. SUFFICES Kept
    <2>1. net' \in BOOLEAN /\ faulty' \in BOOLEAN /\ boundaryAsked' \in BOOLEAN BY BoundaryBooleans
    <2>2. Boundary!TypeOK' BY <1>1, <2>1, Zenon DEF Boundary!TypeOK
    <2> QED BY <1>1, <2>2 DEF BoundaryInv
  <1>2. /\ chunk \in [hasError : BOOLEAN, retryCount : 0 .. MaxRetries]
        /\ outer \in [hasError : BOOLEAN, errorCount : Nat, disabled : BOOLEAN]
        /\ timers \in Nat /\ autos \in Nat /\ manuals \in Nat
        /\ lazy \in {"unstarted", "pending", "resolved", "rejected"}
    BY DEF BoundaryInv, Boundary!TypeOK
  <1>3. Boundary!OuterReplacesInner /\ RetriesCounted BY DEF BoundaryInv
  <1>4. CASE Boundary!StartImport \/ Boundary!ImportEnds
    BY <1>2, <1>3, <1>4 DEF Boundary!StartImport, Boundary!ImportEnds, Boundary!OuterReplacesInner,
       RetriesCounted
  <1>5. CASE Boundary!ChunkThrows
    <2>1. /\ ~outer.hasError /\ UNCHANGED <<outer, lazy, autos, manuals>>
          /\ chunk' = [hasError |-> TRUE, retryCount |-> IF chunk.retryCount < MaxRetries
                                                        THEN chunk.retryCount + 1 ELSE chunk.retryCount]
          /\ timers' = IF chunk.retryCount < MaxRetries THEN timers + 1 ELSE timers
      BY <1>5 DEF Boundary!ChunkThrows, Boundary!Children, Boundary!Mounted, Boundary!Caught,
         Boundary!Armed
    <2>2. Typed BY <1>2, <2>1, BoundaryAssumption
    <2>3. RetriesCounted'
      <3> DEFINE allowed == MaxRetries * manuals
      <3>1. allowed \in Nat BY <1>2, BoundaryAssumption
      <3>2. autos + timers <= allowed + chunk.retryCount BY <1>3 DEF RetriesCounted
      <3>3. allowed' = allowed BY <2>1
      <3> HIDE DEF allowed
      <3>4. autos' + timers' <= allowed + chunk'.retryCount BY <1>2, <2>1, <3>1, <3>2, BoundaryAssumption
      <3> QED BY <3>3, <3>4 DEF allowed, RetriesCounted
    <2> QED BY <1>2, <2>1, <2>2, <2>3 DEF Boundary!OuterReplacesInner
  <1>6. CASE Boundary!RetryTimer
    <2>1. /\ timers > 0 /\ timers' = timers - 1 /\ chunk' = [chunk EXCEPT !.hasError = FALSE]
          /\ autos' \in {autos, autos + 1} /\ UNCHANGED <<outer, lazy, manuals>>
      BY <1>6 DEF Boundary!RetryTimer
    <2>2. Typed
      <3>1. chunk' \in [hasError : BOOLEAN, retryCount : 0 .. MaxRetries] BY <1>2, <2>1
      <3>2. timers' \in Nat /\ autos' \in Nat BY <1>2, <2>1
      <3> QED BY <1>2, <2>1, <3>1, <3>2
    <2>3. RetriesCounted'
      <3> DEFINE allowed == MaxRetries * manuals
      <3>1. allowed \in Nat BY <1>2, BoundaryAssumption
      <3>2. autos + timers <= allowed + chunk.retryCount BY <1>3 DEF RetriesCounted
      <3>3. allowed' = allowed BY <2>1
      <3> HIDE DEF allowed
      <3>4. autos' + timers' <= allowed + chunk'.retryCount BY <1>2, <2>1, <3>1, <3>2
      <3> QED BY <3>3, <3>4 DEF allowed, RetriesCounted
    <2>4. Boundary!OuterReplacesInner' BY <1>2, <1>3, <2>1 DEF Boundary!OuterReplacesInner
    <2> QED BY <1>2, <2>1, <2>2, <2>3, <2>4
  <1>7. CASE Boundary!PanelThrows
    <2>1. /\ outer' = [outer EXCEPT !.hasError = TRUE, !.errorCount = outer.errorCount + 1]
          /\ ~outer.disabled /\ chunk' = Boundary!Fresh /\ timers' = 0 /\ autos' = 0 /\ manuals' = 0
          /\ lazy' = lazy
      BY <1>7 DEF Boundary!PanelThrows, Boundary!Children, Boundary!Mounted
    <2>2. Typed
      <3>1. chunk' \in [hasError : BOOLEAN, retryCount : 0 .. MaxRetries]
        BY <2>1, BoundaryAssumption DEF Boundary!Fresh
      <3>2. outer.errorCount + 1 \in Nat BY <1>2
      <3>3. outer' \in [hasError : BOOLEAN, errorCount : Nat, disabled : BOOLEAN]
        BY <1>2, <2>1, <3>2
      <3> QED BY <2>1, <3>1, <3>3
    <2>3. RetriesCounted' BY <2>1, BoundaryAssumption DEF RetriesCounted, Boundary!Fresh
    <2>4. Boundary!OuterReplacesInner' BY <1>2, <2>1 DEF Boundary!OuterReplacesInner
    <2> QED BY <1>2, <2>1, <2>2, <2>3, <2>4
  <1>8. CASE Boundary!handleManualRetry
    <2>1. /\ ~outer.hasError /\ chunk.retryCount >= MaxRetries
          /\ chunk' = Boundary!Fresh /\ manuals' = manuals + 1
          /\ UNCHANGED <<lazy, timers, outer, autos>>
      BY <1>8 DEF Boundary!handleManualRetry, Boundary!LoadFailed, Boundary!Mounted
    <2>2. Typed BY <1>2, <2>1, BoundaryAssumption DEF Boundary!Fresh
    <2>3. RetriesCounted'
      <3> DEFINE allowed == MaxRetries * manuals
      <3>1. allowed \in Nat BY <1>2, BoundaryAssumption
      <3>2. autos + timers <= allowed + chunk.retryCount BY <1>3 DEF RetriesCounted
      <3>3. MaxRetries * (manuals + 1) = allowed + MaxRetries BY <1>2, BoundaryAssumption
      <3> HIDE DEF allowed
      <3>4. chunk'.retryCount = 0 BY <2>1 DEF Boundary!Fresh
      <3>5. autos + timers <= allowed + MaxRetries + 0 BY <1>2, <2>1, <3>1, <3>2, BoundaryAssumption
      <3> QED BY <2>1, <3>3, <3>4, <3>5 DEF RetriesCounted
    <2>4. Boundary!OuterReplacesInner' BY <2>1 DEF Boundary!OuterReplacesInner
    <2> QED BY <1>2, <2>1, <2>2, <2>3, <2>4
  <1>9. CASE Boundary!handleReset \/ Boundary!handleDisable \/ Boundary!ReEnable
    <2>1. /\ UNCHANGED <<lazy, chunk, timers, autos, manuals>>
          /\ \/ outer' = [outer EXCEPT !.hasError = FALSE]
             \/ outer' = [outer EXCEPT !.hasError = FALSE, !.disabled = TRUE]
             \/ outer.disabled /\ outer' = [outer EXCEPT !.disabled = FALSE]
      BY <1>9 DEF Boundary!handleReset, Boundary!handleDisable, Boundary!ReEnable
    <2>2. Typed BY <1>2, <2>1
    <2>3. RetriesCounted' BY <1>3, <2>1 DEF RetriesCounted
    <2>4. ~outer'.hasError BY <1>2, <1>3, <2>1 DEF Boundary!OuterReplacesInner
    <2> QED BY <1>2, <2>1, <2>2, <2>3, <2>4 DEF Boundary!OuterReplacesInner
  <1>10. CASE Boundary!Changes
    BY <1>2, <1>3, <1>10 DEF Boundary!Changes, Boundary!OuterReplacesInner, RetriesCounted
  <1> QED BY <1>4, <1>5, <1>6, <1>7, <1>8, <1>9, <1>10 DEF Boundary!Next

\* The invariant in the words of PanelBoundary.
LEMMA BoundaryIsSound ==
  BoundaryInv => Boundary!TypeOK /\ Boundary!RetriesBounded /\ Boundary!OuterReplacesInner
  <1> SUFFICES ASSUME BoundaryInv PROVE Boundary!RetriesBounded BY DEF BoundaryInv
  <1> DEFINE allowed == MaxRetries * manuals
  <1>1. timers \in Nat /\ autos \in Nat /\ manuals \in Nat /\ chunk.retryCount \in 0 .. MaxRetries
    BY DEF BoundaryInv, Boundary!TypeOK
  <1>2. allowed \in Nat /\ MaxRetries * (1 + manuals) = allowed + MaxRetries
    BY <1>1, BoundaryAssumption
  <1>3. autos + timers <= allowed + chunk.retryCount BY DEF BoundaryInv, RetriesCounted
  <1> HIDE DEF allowed
  <1>4. autos <= allowed + MaxRetries BY <1>1, <1>2, <1>3, BoundaryAssumption
  <1> QED BY <1>2, <1>4 DEF Boundary!RetriesBounded

-----------------------------------------------------------------------------
(* The sidebar.                                                              *)

\* Without a pending effect the storage has the state, and the flag is what the
\* storage says.
SidebarInv ==
  /\ Sidebar!TypeOK
  /\ showAdvanced = Sidebar!Enabled(flagStore)
  /\ ~dirty => stored = [visible |-> visible, collapsed |-> collapsed]

LEMMA SidebarInit == Sidebar!Init => SidebarInv
  <1> SUFFICES ASSUME Sidebar!Init PROVE SidebarInv OBVIOUS
  <1>1. /\ showAdvanced \in BOOLEAN /\ flagState \in BOOLEAN /\ dirty \in BOOLEAN
        /\ settings \in BOOLEAN
    BY Zenon DEF Sidebar!Init
  <1>2. Sidebar!TypeOK
    BY <1>1, BoundaryAssumption DEF Sidebar!Init, Sidebar!TypeOK, Sidebar!DEFAULT_VISIBLE
  <1>3. showAdvanced = Sidebar!Enabled(flagStore)
    <2>1. flagStore # "true" BY DEF Sidebar!Init
    <2>2. showAdvanced = FALSE BY DEF Sidebar!Init
    <2> QED BY <2>1, <2>2 DEF Sidebar!Enabled
  <1>4. stored = [visible |-> visible, collapsed |-> collapsed] BY DEF Sidebar!Init
  <1> QED BY <1>2, <1>3, <1>4 DEF SidebarInv

LEMMA SidebarBooleans ==
  ASSUME SidebarInv, Sidebar!Next
  PROVE  /\ showAdvanced' \in BOOLEAN /\ flagState' \in BOOLEAN /\ dirty' \in BOOLEAN
         /\ settings' \in BOOLEAN
  <1>1. showAdvanced \in BOOLEAN /\ flagState \in BOOLEAN /\ dirty \in BOOLEAN /\ settings \in BOOLEAN
    BY Zenon DEF SidebarInv, Sidebar!TypeOK
  <1>2. showAdvanced' \in {showAdvanced, ~flagState, FALSE, Sidebar!Enabled(flagStore)}
    BY Zenon DEF Sidebar!Next, Sidebar!togglePanel, Sidebar!toggleCategory, Sidebar!toggleFlag,
       Sidebar!toggleAdvanced, Sidebar!ToggleSettings, Sidebar!WriteEffect, Sidebar!Reload
  <1>3. flagState' \in {flagState, ~flagState, TRUE, Sidebar!Enabled(flagStore)}
    BY Zenon DEF Sidebar!Next, Sidebar!togglePanel, Sidebar!toggleCategory, Sidebar!toggleFlag,
       Sidebar!SetFlag, Sidebar!toggleAdvanced, Sidebar!ToggleSettings, Sidebar!WriteEffect,
       Sidebar!Reload
  <1>4. dirty' \in {dirty, TRUE, FALSE} /\ settings' \in {settings, ~settings, FALSE}
    BY Zenon DEF Sidebar!Next, Sidebar!togglePanel, Sidebar!toggleCategory, Sidebar!toggleFlag,
       Sidebar!SetVisible, Sidebar!toggleAdvanced, Sidebar!ToggleSettings, Sidebar!WriteEffect,
       Sidebar!Reload
  <1>5. Sidebar!Enabled(flagStore) \in BOOLEAN BY DEF Sidebar!Enabled
  <1> QED BY <1>1, <1>2, <1>3, <1>4, <1>5, Zenon

\* What an action does to the panels that are on and the storage, to the flag, and
\* to the history that ReloadShowsSame reads.
LEMMA SidebarStep ==
  ASSUME SidebarInv, Sidebar!Next PROVE SidebarInv' /\ Sidebar!ReloadShowsSame
  <1> DEFINE Shows == /\ visible' \in SUBSET Panels /\ collapsed' \in SUBSET Categories
                      /\ stored' \in [visible : SUBSET Panels, collapsed : SUBSET Categories]
                      /\ sidebarClicks' \in 0 .. MaxClicks
                      /\ ~dirty' => stored' = [visible |-> visible', collapsed |-> collapsed']
             FlagIs == /\ flagStore' \in {"absent", "true", "false", "other"}
                       /\ showAdvanced' = Sidebar!Enabled(flagStore')
  <1>1. SUFFICES Shows /\ FlagIs /\ Sidebar!ReloadShowsSame
    <2>1. Sidebar!TypeOK' BY <1>1, SidebarBooleans, Zenon DEF Sidebar!TypeOK
    <2> QED BY <1>1, <2>1, Zenon DEF SidebarInv
  <1>2. /\ visible \in SUBSET Panels /\ collapsed \in SUBSET Categories
        /\ stored \in [visible : SUBSET Panels, collapsed : SUBSET Categories]
        /\ sidebarClicks \in 0 .. MaxClicks
        /\ flagStore \in {"absent", "true", "false", "other"}
        /\ showAdvanced = Sidebar!Enabled(flagStore)
        /\ ~dirty => stored = [visible |-> visible, collapsed |-> collapsed]
    BY DEF SidebarInv, Sidebar!TypeOK
  <1>3. ASSUME NEW what, Sidebar!Do(what)
        PROVE  sidebarClicks' \in 0 .. MaxClicks /\ last' = what
    BY <1>2, <1>3, BoundaryAssumption DEF Sidebar!Do
  <1>4. ASSUME NEW p \in Panels, Sidebar!togglePanel(p)
        PROVE  Shows /\ FlagIs /\ Sidebar!ReloadShowsSame
    <2>1. sidebarClicks' \in 0 .. MaxClicks /\ last' = "panel" BY <1>3, <1>4 DEF Sidebar!togglePanel
    <2>2. /\ visible' = (visible \ {p}) \cup ({p} \ visible) /\ dirty' = TRUE
          /\ UNCHANGED <<flagStore, showAdvanced, collapsed, stored>>
      BY <1>4 DEF Sidebar!togglePanel, Sidebar!SetVisible
    <2> QED BY <1>2, <2>1, <2>2 DEF Sidebar!ReloadShowsSame
  <1>5. ASSUME NEW c \in Categories, Sidebar!toggleCategory(c)
        PROVE  Shows /\ FlagIs /\ Sidebar!ReloadShowsSame
    <2>1. sidebarClicks' \in 0 .. MaxClicks /\ last' = "category"
      BY <1>3, <1>5 DEF Sidebar!toggleCategory
    <2>2. /\ collapsed' = (collapsed \ {c}) \cup ({c} \ collapsed) /\ dirty' = TRUE
          /\ UNCHANGED <<flagStore, showAdvanced, visible, stored>>
      BY <1>5 DEF Sidebar!toggleCategory
    <2> QED BY <1>2, <2>1, <2>2 DEF Sidebar!ReloadShowsSame
  <1>6. CASE Sidebar!toggleFlag
    <2>1. sidebarClicks' \in 0 .. MaxClicks /\ last' = "flag" BY <1>3, <1>6 DEF Sidebar!toggleFlag
    <2>2. /\ flagStore' = (IF ~flagState THEN "true" ELSE "false")
          /\ showAdvanced' = ~flagState /\ UNCHANGED <<visible, collapsed, stored, dirty>>
      BY <1>6, Zenon DEF Sidebar!toggleFlag, Sidebar!SetFlag
    <2>3. FlagIs
      <3>1. flagState \in BOOLEAN BY Zenon DEF SidebarInv, Sidebar!TypeOK
      <3> QED BY <2>2, <3>1 DEF Sidebar!Enabled
    <2>4. Shows BY <1>2, <2>1, <2>2
    <2> QED BY <2>1, <2>3, <2>4 DEF Sidebar!ReloadShowsSame
  <1>7. CASE Sidebar!toggleAdvanced
    <2>1. sidebarClicks' \in 0 .. MaxClicks /\ last' = "advanced"
      BY <1>3, <1>7 DEF Sidebar!toggleAdvanced
    <2>2. /\ flagStore' = "other" /\ showAdvanced' = FALSE /\ dirty' = TRUE
          /\ visible' = visible \ Advanced /\ UNCHANGED <<collapsed, stored>>
      BY <1>7 DEF Sidebar!toggleAdvanced, Sidebar!SetVisible
    <2>3. FlagIs BY <2>2 DEF Sidebar!Enabled
    <2>4. Shows BY <1>2, <2>1, <2>2
    <2> QED BY <2>1, <2>3, <2>4 DEF Sidebar!ReloadShowsSame
  <1>8. CASE Sidebar!ToggleSettings
    <2>1. sidebarClicks' \in 0 .. MaxClicks /\ last' = "settings"
      BY <1>3, <1>8 DEF Sidebar!ToggleSettings
    <2>2. UNCHANGED <<flagStore, showAdvanced, visible, collapsed, stored, dirty>>
      BY <1>8 DEF Sidebar!ToggleSettings
    <2> QED BY <1>2, <2>1, <2>2 DEF Sidebar!ReloadShowsSame
  <1>9. CASE Sidebar!WriteEffect
    <2>1. /\ stored' = [visible |-> visible, collapsed |-> collapsed]
          /\ UNCHANGED <<flagStore, showAdvanced, visible, collapsed, sidebarClicks>>
      BY <1>9 DEF Sidebar!WriteEffect
    <2> QED BY <1>2, <2>1 DEF Sidebar!ReloadShowsSame
  <1>10. CASE Sidebar!Reload
    <2>1. sidebarClicks' \in 0 .. MaxClicks BY <1>3, <1>10 DEF Sidebar!Reload
    <2>2. /\ visible' = stored.visible /\ collapsed' = stored.collapsed
          /\ showAdvanced' = Sidebar!Enabled(flagStore) /\ UNCHANGED <<flagStore, stored>>
      BY <1>10 DEF Sidebar!Reload
    <2>3. Shows BY <1>2, <2>1, <2>2
    <2>4. ~dirty => Sidebar!Drawn' = Sidebar!Drawn
      <3> SUFFICES ASSUME ~dirty PROVE Sidebar!Drawn' = Sidebar!Drawn OBVIOUS
      <3>1. visible' = visible /\ collapsed' = collapsed /\ showAdvanced' = showAdvanced
        BY <1>2, <2>2
      <3>2. \A c \in Categories : Sidebar!DrawnIn(c)' = Sidebar!DrawnIn(c)
        BY <3>1 DEF Sidebar!DrawnIn, Sidebar!Offered, Sidebar!getPanelsByCategory
      <3> QED BY <3>2 DEF Sidebar!Drawn
    <2> QED BY <1>2, <2>2, <2>3, <2>4 DEF Sidebar!ReloadShowsSame
  <1> QED BY <1>4, <1>5, <1>6, <1>7, <1>8, <1>9, <1>10 DEF Sidebar!Next

-----------------------------------------------------------------------------
(* Panels in windows of their own.                                           *)

Content == [symbol : Symbols, version : 0 .. MaxData]

WindowsTyped ==
  /\ icon \in SUBSET WindowPanels /\ app \in {"up", "crashed"}
  /\ built \in [WindowPanels -> 0 .. acts] /\ acts \in 0 .. MaxActs
  /\ content \in [WindowPanels -> Content] /\ windowData \in Content /\ windowDrawn \in Content

(***************************************************************************)
(* A window is one of this page or was left by an earlier one, never both; *)
(* those of this page show what it last rendered, and a page that is down  *)
(* has none.                                                               *)
(***************************************************************************)
Owned ==
  /\ win \in SUBSET WindowPanels /\ popups \in SUBSET WindowPanels /\ orphans \in SUBSET win
  /\ win \subseteq popups \cup orphans /\ popups \cap orphans = {}
  /\ app = "crashed" => popups = {}

FedWithDrawn == app = "up" => \A p \in popups \cap win : content[p] = windowDrawn

WindowsInv == WindowsTyped /\ flag \in BOOLEAN /\ Owned /\ FedWithDrawn

LEMMA WindowsInit == Windows!Init => WindowsInv
  <1> SUFFICES ASSUME Windows!Init PROVE WindowsInv OBVIOUS
  <1>1. windowData \in Content /\ windowDrawn = windowData
    BY ChartAssumption, WindowAssumption DEF Windows!Init, Content
  <1>2. WindowsTyped BY <1>1, WindowAssumption DEF Windows!Init, WindowsTyped
  <1>3. flag \in BOOLEAN BY Zenon DEF Windows!Init
  <1>4. Owned /\ FedWithDrawn BY DEF Windows!Init, Owned, FedWithDrawn
  <1> QED BY <1>2, <1>3, <1>4 DEF WindowsInv

\* What the page does by itself.
LEMMA WindowsOfPage ==
  ASSUME WindowsInv, Windows!Data \/ Windows!Render \/ Windows!Crash PROVE WindowsInv'
  <1> USE DEF WindowsInv
  <1>1. CASE Windows!Data
    <2>1. /\ windowData.version < MaxData
          /\ windowData' = [windowData EXCEPT !.version = windowData.version + 1]
          /\ UNCHANGED <<win, popups, orphans, built, content, windowDrawn, icon, flag, app, acts>>
      BY <1>1 DEF Windows!Data
    <2>2. windowData.version + 1 \in 0 .. MaxData
      BY <2>1, WindowAssumption DEF WindowsTyped, Content
    <2>3. windowData' \in Content BY <2>1, <2>2 DEF WindowsTyped, Content
    <2> QED BY <2>1, <2>3 DEF WindowsTyped, Owned, FedWithDrawn
  <1>2. CASE Windows!Render
    <2>1. /\ windowDrawn' = windowData
          /\ content' = [p \in WindowPanels |-> Windows!Fed(p)]
          /\ icon' = {p \in WindowPanels : Windows!isDetached(p)}
          /\ UNCHANGED <<win, popups, orphans, built, windowData, flag, app, acts>>
      BY <1>2 DEF Windows!Render
    <2>2. \A p \in WindowPanels : Windows!Fed(p) \in Content BY DEF Windows!Fed, WindowsTyped
    <2>3. WindowsTyped' BY <2>1, <2>2 DEF WindowsTyped
    <2>4. FedWithDrawn'
      BY <2>1 DEF FedWithDrawn, Owned, Windows!Fed, Windows!isDetached
    <2> QED BY <2>1, <2>3, <2>4 DEF Owned
  <1>3. CASE Windows!Crash
    <2>1. /\ app' = "crashed" /\ win' = win \ popups /\ popups' = {}
          /\ UNCHANGED <<orphans, built, content, windowData, windowDrawn, icon, flag, acts>>
      BY <1>3 DEF Windows!Crash, Windows!Cleanup
    <2>2. WindowsTyped' BY <2>1 DEF WindowsTyped
    <2> QED BY <2>1, <2>2 DEF Owned, FedWithDrawn
  <1> QED BY <1>1, <1>2, <1>3

\* The detach button.
LEMMA WindowsOpened ==
  ASSUME WindowsInv, NEW p \in WindowPanels, NEW allowed \in BOOLEAN, Windows!handleDetach(p, allowed)
  PROVE  WindowsInv'
  <1> USE DEF WindowsInv
  <1>1. /\ acts < MaxActs /\ acts' = acts + 1 /\ app = "up"
        /\ UNCHANGED <<windowData, windowDrawn, icon, flag, app>>
        /\ UNCHANGED <<win, popups, orphans, built, content>> \/ Windows!Open(p)
    BY DEF Windows!handleDetach, Windows!Act
  <1>2. acts' \in 0 .. MaxActs /\ \A n \in 0 .. acts : n \in 0 .. acts' /\ n + 1 \in 0 .. acts'
    BY <1>1, WindowAssumption DEF WindowsTyped
  <1>3. CASE UNCHANGED <<win, popups, orphans, built, content>>
    <2>1. built' \in [WindowPanels -> 0 .. acts'] BY <1>2, <1>3 DEF WindowsTyped
    <2>2. WindowsTyped' BY <1>1, <1>2, <1>3, <2>1 DEF WindowsTyped
    <2> QED BY <1>1, <1>3, <2>2 DEF Owned, FedWithDrawn
  <1>4. CASE Windows!Open(p)
    <2>1. /\ win' = win \cup {p} /\ popups' = popups \cup {p} /\ orphans' = orphans \ {p}
          /\ built' = [built EXCEPT ![p] = IF p \in win THEN built[p] + 1 ELSE 1]
          /\ content' = [content EXCEPT ![p] = windowDrawn]
      BY <1>4 DEF Windows!Open
    <2>2. built' \in [WindowPanels -> 0 .. acts']
      <3>1. 0 \in 0 .. acts /\ 0 + 1 = 1 BY DEF WindowsTyped
      <3>2. (IF p \in win THEN built[p] + 1 ELSE 1) \in 0 .. acts' BY <1>2, <3>1 DEF WindowsTyped
      <3>3. built \in [WindowPanels -> 0 .. acts'] BY <1>2 DEF WindowsTyped
      <3> QED BY <2>1, <3>2, <3>3
    <2>3. content' \in [WindowPanels -> Content] BY <2>1 DEF WindowsTyped
    <2>4. WindowsTyped' BY <1>1, <1>2, <2>2, <2>3 DEF WindowsTyped
    <2>5. Owned' BY <1>1, <2>1 DEF Owned
    <2>6. FedWithDrawn' BY <1>1, <2>1 DEF FedWithDrawn, WindowsTyped
    <2> QED BY <1>1, <2>4, <2>5, <2>6
  <1> QED BY <1>1, <1>3, <1>4

\* What else the user does.
LEMMA WindowsOther ==
  ASSUME WindowsInv,
         \/ \E p \in WindowPanels : Windows!CloseWindow(p)
         \/ \E s \in Symbols : Windows!Select(s)
         \/ Windows!ToggleFlag \/ Windows!Reload
  PROVE  WindowsInv'
  <1> USE DEF WindowsInv
  <1>1. acts < MaxActs /\ acts' = acts + 1 /\ built' = built
    BY DEF Windows!CloseWindow, Windows!Select, Windows!ToggleFlag, Windows!Reload, Windows!Act
  <1>2. acts' \in 0 .. MaxActs /\ built' \in [WindowPanels -> 0 .. acts']
    <2>1. acts' \in 0 .. MaxActs /\ \A n \in 0 .. acts : n \in 0 .. acts'
      BY <1>1, WindowAssumption DEF WindowsTyped
    <2> QED BY <1>1, <2>1 DEF WindowsTyped
  <1>3. ASSUME NEW p \in WindowPanels, Windows!CloseWindow(p) PROVE WindowsInv'
    <2>1. /\ win' = win \ {p} /\ orphans' = orphans \ {p}
          /\ UNCHANGED <<popups, built, content, windowData, windowDrawn, icon, flag, app>>
      BY <1>3 DEF Windows!CloseWindow
    <2>2. WindowsTyped' BY <1>2, <2>1 DEF WindowsTyped
    <2> QED BY <2>1, <2>2 DEF Owned, FedWithDrawn
  <1>4. ASSUME NEW s \in Symbols, Windows!Select(s) PROVE WindowsInv'
    <2>1. /\ windowData' = [windowData EXCEPT !.symbol = s]
          /\ UNCHANGED <<win, popups, orphans, built, content, windowDrawn, icon, flag, app>>
      BY <1>4 DEF Windows!Select
    <2>2. windowData' \in Content BY <2>1 DEF WindowsTyped, Content
    <2>3. WindowsTyped' BY <1>2, <2>1, <2>2 DEF WindowsTyped
    <2> QED BY <2>1, <2>3 DEF Owned, FedWithDrawn
  <1>5. CASE Windows!ToggleFlag
    <2>1. flag' = ~flag
          /\ UNCHANGED <<win, popups, orphans, built, content, windowData, windowDrawn, icon, app>>
      BY <1>5 DEF Windows!ToggleFlag
    <2>2. flag' \in BOOLEAN BY <2>1, Zenon
    <2>3. WindowsTyped' BY <1>2, <2>1 DEF WindowsTyped
    <2> QED BY <2>1, <2>2, <2>3 DEF Owned, FedWithDrawn
  <1>6. CASE Windows!Reload
    <2>1. /\ popups' = {} /\ orphans' = win /\ icon' = {} /\ app' = "up"
          /\ windowData' = [symbol |-> First, version |-> windowData.version]
          /\ windowDrawn' = windowData' /\ UNCHANGED <<win, built, content, flag>>
      BY <1>6 DEF Windows!Reload
    <2>2. windowData' \in Content BY <2>1, ChartAssumption DEF WindowsTyped, Content
    <2>3. WindowsTyped' BY <1>2, <2>1, <2>2 DEF WindowsTyped
    <2> QED BY <2>1, <2>3 DEF Owned, FedWithDrawn
  <1> QED BY <1>3, <1>4, <1>5, <1>6

LEMMA WindowsStep == ASSUME WindowsInv, Windows!Next PROVE WindowsInv'
  BY WindowsOfPage, WindowsOpened, WindowsOther DEF Windows!Next

\* The invariant in the words of DetachedPanels.
LEMMA WindowsAreSound ==
  WindowsInv => Windows!TypeOK /\ Windows!FedWhenRendered /\ Windows!ClosedWithPage
  <1> SUFFICES ASSUME WindowsInv
      PROVE  Windows!TypeOK /\ Windows!FedWhenRendered /\ Windows!ClosedWithPage
    OBVIOUS
  <1>1. built \in [WindowPanels -> 0 .. MaxActs]
    <2>1. \A n \in 0 .. acts : n \in 0 .. MaxActs BY WindowAssumption DEF WindowsInv, WindowsTyped
    <2> QED BY <2>1 DEF WindowsInv, WindowsTyped
  <1>2. Windows!TypeOK BY <1>1 DEF WindowsInv, WindowsTyped, Owned, Content, Windows!TypeOK
  <1>3. Windows!FedWhenRendered
    BY DEF WindowsInv, FedWithDrawn, Windows!FedWhenRendered, Windows!isDetached
  <1>4. Windows!ClosedWithPage BY DEF WindowsInv, Owned, Windows!ClosedWithPage
  <1> QED BY <1>2, <1>3, <1>4

-----------------------------------------------------------------------------
(* The replay panels.                                                        *)

Event == [type : {"candle", "fill"}, time : Nat]

ReplayTyped ==
  /\ feed \in Seq(Event) /\ Len(feed) <= MaxEvents
  /\ position \in -1 .. MaxEvents /\ playing \in BOOLEAN /\ interval \in Steps
  /\ armed \in -1 .. interval /\ quiet \in 0 .. FeedPeriod

\* The interval runs exactly while the panel plays and has data.
RunsWhile(has) == armed # -1 <=> playing /\ has

ReplayInv(has) == ReplayTyped /\ RunsWhile(has)

\* What the actions of the three panels have in common.
TimePasses ==
  /\ quiet < FeedPeriod /\ armed < interval
  /\ quiet' = quiet + 1 /\ armed' = (IF armed = -1 THEN -1 ELSE armed + 1)
  /\ UNCHANGED <<feed, position, playing, interval>>

FeedChanges ==
  \/ /\ quiet' = 0
     /\ \/ feed' = feed
        \/ Len(feed) < MaxEvents /\ \E type \in {"candle", "fill"} :
             feed' = Append(feed, [type |-> type, time |-> Len(feed) + 1])
  \/ quiet' = quiet /\ feed' = SubSeq(feed, 1, Len(feed) \div 2)

FeedComes(has, hasNext) ==
  /\ FeedChanges /\ UNCHANGED <<position, playing, interval>>
  /\ \/ armed' = (IF playing /\ hasNext THEN 0 ELSE -1)
     \/ armed' = armed /\ (hasNext <=> has)

IntervalFires(n) ==
  /\ armed # -1
  /\ \/ playing' = FALSE /\ armed' = -1 /\ position' = position
     \/ position < n - 1 /\ position' = position + 1 /\ armed' = 0 /\ playing' = playing
  /\ UNCHANGED <<feed, interval, quiet>>

Toggled(has) ==
  /\ has /\ position' \in {0, position} /\ playing' = ~playing
  /\ armed' = (IF ~playing /\ has THEN 0 ELSE -1)
  /\ UNCHANGED <<feed, interval, quiet>>

StoppedAt(n) ==
  /\ position' \in 0 .. n /\ playing' = FALSE /\ armed' = -1
  /\ UNCHANGED <<feed, interval, quiet>>

OtherSpeed(has) ==
  /\ interval' \in Steps
  /\ armed' = (IF interval' # interval THEN (IF playing /\ has THEN 0 ELSE -1) ELSE armed)
  /\ UNCHANGED <<feed, position, playing, quiet>>

\* n events are played; has and hasNext: the panel has data before and after.
ReplayMoves(n, has, hasNext) ==
  \/ TimePasses /\ (hasNext <=> has)
  \/ FeedComes(has, hasNext)
  \/ (IntervalFires(n) \/ Toggled(has) \/ StoppedAt(n) \/ OtherSpeed(has)) /\ (hasNext <=> has)

\* A set of places of a list is not larger than the list.
LEMMA PlacesCounted ==
  ASSUME NEW n \in Nat, NEW K, K \subseteq 1 .. n
  PROVE  IsFiniteSet(K) /\ Cardinality(K) \in 0 .. n
  <1>1. IsFiniteSet(1 .. n) /\ Cardinality(1 .. n) = n /\ K \in SUBSET (1 .. n) BY FS_Interval
  <1>2. IsFiniteSet(K) /\ Cardinality(K) <= n BY <1>1, FS_Subset
  <1> QED BY <1>2, FS_CardinalityType

LEMMA TicksTotal == ReplayTyped => Ticks!Total \in 0 .. MaxEvents
  <1> SUFFICES ASSUME ReplayTyped PROVE Ticks!Total \in 0 .. MaxEvents OBVIOUS
  <1> DEFINE c == Cardinality(Ticks!Played(feed))
  <1>1. DOMAIN feed = 1 .. Len(feed) /\ Len(feed) \in Nat /\ Len(feed) <= MaxEvents
    BY DEF ReplayTyped
  <1>2. Ticks!Played(feed) \subseteq 1 .. Len(feed) BY <1>1 DEF Ticks!Played, Ticks!CandlesOf
  <1>3. c \in 0 .. MaxEvents BY <1>1, <1>2, PlacesCounted, ReplayAssumption
  <1>4. Ticks!Timeline(feed) =
          [k \in 1 .. c |->
             feed[CHOOSE i \in Ticks!Played(feed) :
               Cardinality({j \in Ticks!Played(feed) : Ticks!Earlier(feed, j, i)}) = k - 1]]
    BY DEF Ticks!Timeline, Ticks!Cardinality, Cardinality
  <1> HIDE DEF c
  <1>5. Len(Ticks!Timeline(feed)) = c BY <1>3, <1>4
  <1> QED BY <1>3, <1>5 DEF Ticks!Total

LEMMA TicksMoves ==
  ASSUME ReplayTyped, Ticks!Next
  PROVE  ReplayMoves(Ticks!Total, Ticks!HasData(feed), Ticks!HasData(feed'))
  <1> DEFINE n == Ticks!Total  has == Ticks!HasData(feed)  hasNext == Ticks!HasData(feed')
  <1>0. SUFFICES ReplayMoves(n, has, hasNext) OBVIOUS
  <1>1. n \in 0 .. MaxEvents /\ MaxEvents \in Nat BY TicksTotal, ReplayAssumption
  <1>2. CASE Ticks!Clock
    <2>1. TimePasses BY <1>2 DEF Ticks!Clock, Ticks!Off, TimePasses
    <2>2. hasNext <=> has BY <2>1 DEF TimePasses
    <2> HIDE DEF has, hasNext
    <2> QED BY <2>1, <2>2 DEF ReplayMoves
  <1>3. CASE Ticks!Broadcast \/ Ticks!SelectSymbol
    <2>1. FeedChanges /\ UNCHANGED <<position, playing, interval>>
      BY <1>3 DEF Ticks!Broadcast, Ticks!SelectSymbol, Ticks!Click, FeedChanges
    <2>2. armed' = (IF Ticks!Restarts(feed, feed') THEN Ticks!Arm(playing, feed') ELSE armed)
      BY <1>3 DEF Ticks!Broadcast, Ticks!SelectSymbol
    <2>3. \/ armed' = (IF playing /\ hasNext THEN 0 ELSE -1)
          \/ armed' = armed /\ (hasNext <=> has)
      BY <2>2, Zenon DEF Ticks!HasData, Ticks!Arm, Ticks!Off
    <2> HIDE DEF n, has, hasNext
    <2> QED BY <2>1, <2>3 DEF ReplayMoves, FeedComes
  <1>4. CASE Ticks!Fire
    <2>1. hasNext <=> has BY <1>4 DEF Ticks!Fire
    <2>2. IntervalFires(n)
      <3>1. position \in Int BY DEF ReplayTyped
      <3> HIDE DEF n
      <3> QED BY <1>1, <1>4, <3>1 DEF n, Ticks!Fire, Ticks!Off, IntervalFires
    <2> HIDE DEF has, hasNext, n
    <2> QED BY <2>1, <2>2 DEF ReplayMoves
  <1>5. CASE Ticks!PlayPause
    <2>1. /\ has /\ position' \in {0, position} /\ playing' = ~playing
          /\ armed' = (IF ~playing /\ has THEN 0 ELSE -1) /\ UNCHANGED <<feed, interval, quiet>>
      <3> HIDE DEF n
      <3> QED BY <1>5, Zenon DEF Ticks!PlayPause, Ticks!Click, Ticks!Arm, Ticks!Off
    <2>2. hasNext <=> has BY <2>1
    <2> HIDE DEF has, hasNext, n
    <2> QED BY <2>1, <2>2 DEF Toggled, ReplayMoves
  <1>6. CASE Ticks!handleStep \/ Ticks!Jump
    <2> HIDE DEF has, hasNext
    <2>1. /\ Ticks!Total > 0 /\ playing' = FALSE /\ armed' = -1 /\ UNCHANGED <<feed, interval, quiet>>
      BY <1>6 DEF Ticks!handleStep, Ticks!Jump, Ticks!Stop, Ticks!Off, Ticks!Click
    <2>2. \/ position' \in {0, n, n - 1}
          \/ \E dir \in {-1, 1} : position' = Ticks!Greatest(0, Ticks!Least(n - 1, position + dir))
      BY <1>6 DEF Ticks!handleStep, Ticks!Jump
    <2>3. position \in Int BY DEF ReplayTyped
    <2> HIDE DEF n
    <2>4. position' \in 0 .. n
      BY <1>1, <2>1, <2>2, <2>3 DEF n, Ticks!Greatest, Ticks!Least
    <2>5. hasNext <=> has BY <2>1 DEF has, hasNext
    <2> QED BY <2>1, <2>4, <2>5 DEF StoppedAt, ReplayMoves
  <1>7. CASE Ticks!setSpeed
    <2>1. /\ interval' \in Steps /\ UNCHANGED <<feed, position, playing, quiet>>
          /\ armed' = (IF interval' # interval THEN (IF playing /\ has THEN 0 ELSE -1) ELSE armed)
      <3> HIDE DEF n
      <3> QED BY <1>7, Zenon DEF Ticks!setSpeed, Ticks!Click, Ticks!Arm, Ticks!Off
    <2>2. hasNext <=> has BY <2>1
    <2> HIDE DEF has, hasNext, n
    <2> QED BY <2>1, <2>2 DEF OtherSpeed, ReplayMoves
  <1> QED BY <1>2, <1>3, <1>4, <1>5, <1>6, <1>7 DEF Ticks!Next

LEMMA TradesTotal == ReplayTyped => Trades!Total \in 0 .. MaxEvents
  <1> SUFFICES ASSUME ReplayTyped PROVE Trades!Total \in 0 .. MaxEvents OBVIOUS
  <1> DEFINE c == Cardinality(Trades!Played(feed))
  <1>1. DOMAIN feed = 1 .. Len(feed) /\ Len(feed) \in Nat /\ Len(feed) <= MaxEvents
    BY DEF ReplayTyped
  <1>2. Trades!Played(feed) \subseteq 1 .. Len(feed) BY <1>1 DEF Trades!Played, Trades!CandlesOf
  <1>3. c \in 0 .. MaxEvents BY <1>1, <1>2, PlacesCounted, ReplayAssumption
  <1>4. Trades!Timeline(feed) =
          [k \in 1 .. c |->
             feed[CHOOSE i \in Trades!Played(feed) :
               Cardinality({j \in Trades!Played(feed) : Trades!Earlier(feed, j, i)}) = k - 1]]
    BY DEF Trades!Timeline, Trades!Cardinality, Cardinality
  <1> HIDE DEF c
  <1>5. Len(Trades!Timeline(feed)) = c BY <1>3, <1>4
  <1> QED BY <1>3, <1>5 DEF Trades!Total

LEMMA TradesMoves ==
  ASSUME ReplayTyped, Trades!Next
  PROVE  ReplayMoves(Trades!Total, Trades!HasData(feed), Trades!HasData(feed'))
  <1> DEFINE n == Trades!Total  has == Trades!HasData(feed)  hasNext == Trades!HasData(feed')
  <1>0. SUFFICES ReplayMoves(n, has, hasNext) OBVIOUS
  <1>1. n \in 0 .. MaxEvents /\ MaxEvents \in Nat BY TradesTotal, ReplayAssumption
  <1>2. CASE Trades!Clock
    <2>1. TimePasses BY <1>2 DEF Trades!Clock, Trades!Off, TimePasses
    <2>2. hasNext <=> has BY <2>1 DEF TimePasses
    <2> HIDE DEF has, hasNext
    <2> QED BY <2>1, <2>2 DEF ReplayMoves
  <1>3. CASE Trades!Broadcast \/ Trades!SelectSymbol
    <2>1. FeedChanges /\ UNCHANGED <<position, playing, interval>>
      BY <1>3 DEF Trades!Broadcast, Trades!SelectSymbol, Trades!Click, FeedChanges
    <2>2. armed' = (IF Trades!Restarts(feed, feed') THEN Trades!Arm(playing, feed') ELSE armed)
      BY <1>3 DEF Trades!Broadcast, Trades!SelectSymbol
    <2>3. \/ armed' = (IF playing /\ hasNext THEN 0 ELSE -1)
          \/ armed' = armed /\ (hasNext <=> has)
      BY <2>2, Zenon DEF Trades!HasData, Trades!Arm, Trades!Off
    <2> HIDE DEF n, has, hasNext
    <2> QED BY <2>1, <2>3 DEF ReplayMoves, FeedComes
  <1>4. CASE Trades!Fire
    <2>1. hasNext <=> has BY <1>4 DEF Trades!Fire
    <2>2. IntervalFires(n)
      <3>1. position \in Int BY DEF ReplayTyped
      <3> HIDE DEF n
      <3> QED BY <1>1, <1>4, <3>1 DEF n, Trades!Fire, Trades!Off, IntervalFires
    <2> HIDE DEF has, hasNext, n
    <2> QED BY <2>1, <2>2 DEF ReplayMoves
  <1>5. CASE Trades!PlayPause
    <2>1. /\ has /\ position' \in {0, position} /\ playing' = ~playing
          /\ armed' = (IF ~playing /\ has THEN 0 ELSE -1) /\ UNCHANGED <<feed, interval, quiet>>
      <3> HIDE DEF n
      <3> QED BY <1>5, Zenon DEF Trades!PlayPause, Trades!Click, Trades!Arm, Trades!Off
    <2>2. hasNext <=> has BY <2>1
    <2> HIDE DEF has, hasNext, n
    <2> QED BY <2>1, <2>2 DEF Toggled, ReplayMoves
  <1>6. CASE Trades!handleStep \/ Trades!Jump
    <2> HIDE DEF has, hasNext
    <2>1. /\ Trades!Total > 0 /\ playing' = FALSE /\ armed' = -1 /\ UNCHANGED <<feed, interval, quiet>>
      BY <1>6 DEF Trades!handleStep, Trades!Jump, Trades!Stop, Trades!Off, Trades!Click
    <2>2. \/ position' \in {0, n, n - 1}
          \/ \E dir \in {-1, 1} : position' = Trades!Greatest(0, Trades!Least(n - 1, position + dir))
      BY <1>6 DEF Trades!handleStep, Trades!Jump
    <2>3. position \in Int BY DEF ReplayTyped
    <2> HIDE DEF n
    <2>4. position' \in 0 .. n
      BY <1>1, <2>1, <2>2, <2>3 DEF n, Trades!Greatest, Trades!Least
    <2>5. hasNext <=> has BY <2>1 DEF has, hasNext
    <2> QED BY <2>1, <2>4, <2>5 DEF StoppedAt, ReplayMoves
  <1>7. CASE Trades!setSpeed
    <2>1. /\ interval' \in Steps /\ UNCHANGED <<feed, position, playing, quiet>>
          /\ armed' = (IF interval' # interval THEN (IF playing /\ has THEN 0 ELSE -1) ELSE armed)
      <3> HIDE DEF n
      <3> QED BY <1>7, Zenon DEF Trades!setSpeed, Trades!Click, Trades!Arm, Trades!Off
    <2>2. hasNext <=> has BY <2>1
    <2> HIDE DEF has, hasNext, n
    <2> QED BY <2>1, <2>2 DEF OtherSpeed, ReplayMoves
  <1> QED BY <1>2, <1>3, <1>4, <1>5, <1>6, <1>7 DEF Trades!Next

LEMMA DepthTotal == ReplayTyped => Depth!Total \in 0 .. MaxEvents
  <1> SUFFICES ASSUME ReplayTyped PROVE Depth!Total \in 0 .. MaxEvents OBVIOUS
  <1> DEFINE c == Cardinality(Depth!Played(feed))
  <1>1. DOMAIN feed = 1 .. Len(feed) /\ Len(feed) \in Nat /\ Len(feed) <= MaxEvents
    BY DEF ReplayTyped
  <1>2. Depth!Played(feed) \subseteq 1 .. Len(feed) BY <1>1 DEF Depth!Played, Depth!CandlesOf
  <1>3. c \in 0 .. MaxEvents BY <1>1, <1>2, PlacesCounted, ReplayAssumption
  <1>4. Depth!Timeline(feed) =
          [k \in 1 .. c |->
             feed[CHOOSE i \in Depth!Played(feed) :
               Cardinality({j \in Depth!Played(feed) : Depth!Earlier(feed, j, i)}) = k - 1]]
    BY DEF Depth!Timeline, Depth!Cardinality, Cardinality
  <1> HIDE DEF c
  <1>5. Len(Depth!Timeline(feed)) = c BY <1>3, <1>4
  <1> QED BY <1>3, <1>5 DEF Depth!Total

LEMMA DepthMoves ==
  ASSUME ReplayTyped, Depth!Next
  PROVE  ReplayMoves(Depth!Total, Depth!HasData(feed), Depth!HasData(feed'))
  <1> DEFINE n == Depth!Total  has == Depth!HasData(feed)  hasNext == Depth!HasData(feed')
  <1>0. SUFFICES ReplayMoves(n, has, hasNext) OBVIOUS
  <1>1. n \in 0 .. MaxEvents /\ MaxEvents \in Nat BY DepthTotal, ReplayAssumption
  <1>2. CASE Depth!Clock
    <2>1. TimePasses BY <1>2 DEF Depth!Clock, Depth!Off, TimePasses
    <2>2. hasNext <=> has BY <2>1 DEF TimePasses
    <2> HIDE DEF has, hasNext
    <2> QED BY <2>1, <2>2 DEF ReplayMoves
  <1>3. CASE Depth!Broadcast \/ Depth!SelectSymbol
    <2>1. FeedChanges /\ UNCHANGED <<position, playing, interval>>
      BY <1>3 DEF Depth!Broadcast, Depth!SelectSymbol, Depth!Click, FeedChanges
    <2>2. armed' = (IF Depth!Restarts(feed, feed') THEN Depth!Arm(playing, feed') ELSE armed)
      BY <1>3 DEF Depth!Broadcast, Depth!SelectSymbol
    <2>3. \/ armed' = (IF playing /\ hasNext THEN 0 ELSE -1)
          \/ armed' = armed /\ (hasNext <=> has)
      BY <2>2, Zenon DEF Depth!Restarts, Depth!Arm, Depth!Off
    <2> HIDE DEF n, has, hasNext
    <2> QED BY <2>1, <2>3 DEF ReplayMoves, FeedComes
  <1>4. CASE Depth!Fire
    <2>1. hasNext <=> has BY <1>4 DEF Depth!Fire
    <2>2. IntervalFires(n)
      <3>1. position \in Int BY DEF ReplayTyped
      <3> HIDE DEF n
      <3> QED BY <1>1, <1>4, <3>1 DEF n, Depth!Fire, Depth!Off, IntervalFires
    <2> HIDE DEF has, hasNext, n
    <2> QED BY <2>1, <2>2 DEF ReplayMoves
  <1>5. CASE Depth!PlayPause
    <2>1. /\ has /\ position' \in {0, position} /\ playing' = ~playing
          /\ armed' = (IF ~playing /\ has THEN 0 ELSE -1) /\ UNCHANGED <<feed, interval, quiet>>
      <3> HIDE DEF n
      <3> QED BY <1>5, Zenon DEF Depth!PlayPause, Depth!Click, Depth!Arm, Depth!Off
    <2>2. hasNext <=> has BY <2>1
    <2> HIDE DEF has, hasNext, n
    <2> QED BY <2>1, <2>2 DEF Toggled, ReplayMoves
  <1>6. CASE Depth!handleStep \/ Depth!Jump
    <2> HIDE DEF has, hasNext
    <2>1. /\ Depth!Total > 0 /\ playing' = FALSE /\ armed' = -1 /\ UNCHANGED <<feed, interval, quiet>>
      BY <1>6 DEF Depth!handleStep, Depth!Jump, Depth!Stop, Depth!Off, Depth!Click
    <2>2. \/ position' \in {0, n, n - 1}
          \/ \E dir \in {-1, 1} : position' = Depth!Greatest(0, Depth!Least(n - 1, position + dir))
      BY <1>6 DEF Depth!handleStep, Depth!Jump
    <2>3. position \in Int BY DEF ReplayTyped
    <2> HIDE DEF n
    <2>4. position' \in 0 .. n
      BY <1>1, <2>1, <2>2, <2>3 DEF n, Depth!Greatest, Depth!Least
    <2>5. hasNext <=> has BY <2>1 DEF has, hasNext
    <2> QED BY <2>1, <2>4, <2>5 DEF StoppedAt, ReplayMoves
  <1>7. CASE Depth!setSpeed
    <2>1. /\ interval' \in Steps /\ UNCHANGED <<feed, position, playing, quiet>>
          /\ armed' = (IF interval' # interval THEN (IF playing /\ has THEN 0 ELSE -1) ELSE armed)
      <3> HIDE DEF n
      <3> QED BY <1>7, Zenon DEF Depth!setSpeed, Depth!Click, Depth!Arm, Depth!Off
    <2>2. hasNext <=> has BY <2>1
    <2> HIDE DEF has, hasNext, n
    <2> QED BY <2>1, <2>2 DEF OtherSpeed, ReplayMoves
  <1> QED BY <1>2, <1>3, <1>4, <1>5, <1>6, <1>7 DEF Depth!Next

LEMMA ReplayKept ==
  ASSUME NEW n \in 0 .. MaxEvents, NEW has, NEW hasNext, ReplayInv(has), ReplayMoves(n, has, hasNext)
  PROVE  ReplayTyped' /\ (armed' # -1 <=> playing' /\ hasNext)
  <1>0. 0 # -1 OBVIOUS
  <1>1. /\ feed \in Seq(Event) /\ Len(feed) \in Nat /\ Len(feed) <= MaxEvents
        /\ position \in -1 .. MaxEvents /\ interval \in Steps /\ interval \in Nat \ {0}
        /\ armed \in -1 .. interval /\ quiet \in 0 .. FeedPeriod
        /\ MaxEvents \in Nat /\ FeedPeriod \in Nat
    BY ReplayAssumption DEF ReplayInv, ReplayTyped
  <1>2. playing \in BOOLEAN /\ (armed # -1 <=> playing /\ has)
    BY Zenon DEF ReplayInv, ReplayTyped, RunsWhile
  <1>3. CASE TimePasses /\ (hasNext <=> has)
    <2>1. /\ quiet' \in 0 .. FeedPeriod /\ armed' \in -1 .. interval'
          /\ armed' # -1 <=> armed # -1
          /\ UNCHANGED <<feed, position, playing, interval>>
      BY <1>1, <1>3 DEF TimePasses
    <2>2. ReplayTyped' BY <1>1, <1>2, <2>1 DEF ReplayTyped
    <2> QED BY <1>2, <1>3, <2>1, <2>2
  <1>4. CASE FeedComes(has, hasNext)
    <2>1. /\ UNCHANGED <<position, playing, interval>>
          /\ \/ armed' = (IF playing /\ hasNext THEN 0 ELSE -1)
             \/ armed' = armed /\ (hasNext <=> has)
      BY <1>4 DEF FeedComes
    <2>2. armed' \in -1 .. interval' /\ (armed' # -1 <=> playing' /\ hasNext)
      BY <1>1, <1>2, <2>1
    <2>3. feed' \in Seq(Event) /\ Len(feed') <= MaxEvents /\ quiet' \in 0 .. FeedPeriod
      <3>1. CASE feed' = feed
        BY <1>1, <1>4, <3>1 DEF FeedComes, FeedChanges
      <3>2. CASE /\ quiet' = 0 /\ Len(feed) < MaxEvents
                 /\ \E type \in {"candle", "fill"} :
                      feed' = Append(feed, [type |-> type, time |-> Len(feed) + 1])
        <4>1. PICK type \in {"candle", "fill"} :
                feed' = Append(feed, [type |-> type, time |-> Len(feed) + 1])
          BY <3>2
        <4>2. [type |-> type, time |-> Len(feed) + 1] \in Event BY <1>1 DEF Event
        <4>3. feed' \in Seq(Event) /\ Len(feed') = Len(feed) + 1 BY <1>1, <4>1, <4>2
        <4> QED BY <1>1, <3>2, <4>3
      <3>3. CASE quiet' = quiet /\ feed' = SubSeq(feed, 1, Len(feed) \div 2)
        <4>1. Len(feed) \div 2 \in 0 .. Len(feed) BY <1>1
        <4> DEFINE half == Len(feed) \div 2
        <4> HIDE DEF half
        <4>2. half \in 0 .. Len(feed) /\ feed' = SubSeq(feed, 1, half) BY <3>3, <4>1 DEF half
        <4>3. feed' \in Seq(Event) /\ Len(feed') = half BY <1>1, <4>2
        <4> QED BY <1>1, <3>3, <4>2, <4>3
      <3> QED BY <1>4, <3>1, <3>2, <3>3 DEF FeedComes, FeedChanges
    <2>4. ReplayTyped' BY <1>1, <1>2, <2>1, <2>2, <2>3 DEF ReplayTyped
    <2> QED BY <2>2, <2>4
  <1>5. CASE IntervalFires(n) /\ (hasNext <=> has)
    <2>1. /\ armed # -1 /\ UNCHANGED <<feed, interval, quiet>>
          /\ \/ playing' = FALSE /\ armed' = -1 /\ position' = position
             \/ position < n - 1 /\ position' = position + 1 /\ armed' = 0 /\ playing' = playing
      BY <1>5 DEF IntervalFires
    <2>2. position' \in -1 .. MaxEvents /\ armed' \in -1 .. interval' BY <1>1, <2>1
    <2>3. playing' \in BOOLEAN /\ (armed' # -1 <=> playing' /\ hasNext)
      <3>1. CASE playing' = FALSE /\ armed' = -1 BY <3>1, Zenon
      <3>2. CASE armed' = 0 /\ playing' = playing BY <1>0, <1>2, <1>5, <2>1, <3>2, Zenon
      <3> QED BY <2>1, <3>1, <3>2, Zenon
    <2> QED BY <1>1, <2>1, <2>2, <2>3 DEF ReplayTyped
  <1>6. CASE Toggled(has) /\ (hasNext <=> has)
    <2>1. /\ has /\ UNCHANGED <<feed, interval, quiet>>
          /\ position' \in {0, position} /\ playing' = ~playing
          /\ armed' = (IF ~playing /\ has THEN 0 ELSE -1)
      BY <1>6 DEF Toggled
    <2>2. position' \in -1 .. MaxEvents /\ armed' \in -1 .. interval' BY <1>1, <2>1
    <2>3. playing' \in BOOLEAN BY <1>2, <2>1, Zenon
    <2>4. armed' # -1 <=> playing' /\ hasNext BY <1>0, <1>2, <1>6, <2>1, Zenon
    <2> QED BY <1>1, <2>1, <2>2, <2>3, <2>4 DEF ReplayTyped
  <1>7. CASE StoppedAt(n) /\ (hasNext <=> has)
    <2>1. /\ UNCHANGED <<feed, interval, quiet>>
          /\ position' \in 0 .. n /\ playing' = FALSE /\ armed' = -1
      BY <1>7 DEF StoppedAt
    <2>2. position' \in -1 .. MaxEvents /\ armed' \in -1 .. interval' BY <1>1, <2>1
    <2> QED BY <1>1, <2>1, <2>2 DEF ReplayTyped
  <1>8. CASE OtherSpeed(has) /\ (hasNext <=> has)
    <2>1. /\ interval' \in Steps /\ UNCHANGED <<feed, position, playing, quiet>>
          /\ armed' = (IF interval' # interval THEN (IF playing /\ has THEN 0 ELSE -1) ELSE armed)
      BY <1>8 DEF OtherSpeed
    <2>2. interval' \in Nat \ {0} BY <2>1, ReplayAssumption
    <2>3. armed' \in -1 .. interval' /\ (armed' # -1 <=> playing' /\ hasNext)
      BY <1>1, <1>2, <1>8, <2>1, <2>2
    <2> QED BY <1>1, <1>2, <2>1, <2>3 DEF ReplayTyped
  <1> QED BY <1>3, <1>4, <1>5, <1>6, <1>7, <1>8 DEF ReplayMoves

LEMMA TicksInit == Ticks!Init => ReplayInv(Ticks!HasData(feed)) /\ ReplayInv(Trades!HasData(feed))
  <1> SUFFICES ASSUME Ticks!Init PROVE ReplayTyped /\ armed = -1 /\ playing = FALSE
    BY Zenon DEF ReplayInv, RunsWhile
  <1>1. playing = FALSE /\ playing \in BOOLEAN BY Zenon DEF Ticks!Init
  <1>2. position = 0 /\ armed = -1 /\ feed = <<>> /\ interval \in Steps /\ quiet = 0
    BY DEF Ticks!Init, Ticks!Off
  <1>3. ReplayTyped BY <1>1, <1>2, ReplayAssumption DEF ReplayTyped
  <1> QED BY <1>1, <1>2, <1>3

LEMMA DepthInit == Depth!Init => ReplayInv(Depth!HasData(feed))
  <1> SUFFICES ASSUME Depth!Init PROVE ReplayTyped /\ armed = -1 /\ playing = FALSE
    BY Zenon DEF ReplayInv, RunsWhile
  <1>1. playing = FALSE /\ playing \in BOOLEAN BY Zenon DEF Depth!Init
  <1>2. position = -1 /\ armed = -1 /\ feed = <<>> /\ interval \in Steps /\ quiet = 0
    BY DEF Depth!Init, Depth!Off
  <1>3. ReplayTyped BY <1>1, <1>2, ReplayAssumption DEF ReplayTyped
  <1> QED BY <1>1, <1>2, <1>3

LEMMA TicksStep ==
  ASSUME ReplayInv(Ticks!HasData(feed)), Ticks!Next PROVE ReplayInv(Ticks!HasData(feed))'
  <1>1. ReplayTyped BY DEF ReplayInv
  <1>2. ReplayTyped' /\ (armed' # -1 <=> playing' /\ Ticks!HasData(feed'))
    BY <1>1, TicksTotal, TicksMoves, ReplayKept
  <1> QED BY <1>2, Zenon DEF ReplayInv, RunsWhile

LEMMA TradesStep ==
  ASSUME ReplayInv(Trades!HasData(feed)), Trades!Next PROVE ReplayInv(Trades!HasData(feed))'
  <1>1. ReplayTyped BY DEF ReplayInv
  <1>2. ReplayTyped' /\ (armed' # -1 <=> playing' /\ Trades!HasData(feed'))
    BY <1>1, TradesTotal, TradesMoves, ReplayKept
  <1> QED BY <1>2, Zenon DEF ReplayInv, RunsWhile

LEMMA DepthStep ==
  ASSUME ReplayInv(Depth!HasData(feed)), Depth!Next PROVE ReplayInv(Depth!HasData(feed))'
  <1>1. ReplayTyped BY DEF ReplayInv
  <1>2. ReplayTyped' /\ (armed' # -1 <=> playing' /\ Depth!HasData(feed'))
    BY <1>1, DepthTotal, DepthMoves, ReplayKept
  <1> QED BY <1>2, Zenon DEF ReplayInv, RunsWhile

\* The invariant in the words of ReplayPlayers.
LEMMA ReplaysAreSound ==
  /\ ReplayInv(Ticks!HasData(feed)) =>
       Ticks!TypeOK /\ Ticks!IntervalIffPlaying /\ Ticks!ShownExists
  /\ ReplayInv(Trades!HasData(feed)) => Trades!TypeOK /\ Trades!IntervalIffPlaying
  /\ ReplayInv(Depth!HasData(feed)) => Depth!TypeOK /\ Depth!IntervalIffPlaying
  <1>1. ReplayTyped => Ticks!TypeOK /\ Trades!TypeOK /\ Depth!TypeOK
    BY DEF ReplayTyped, Ticks!TypeOK, Trades!TypeOK, Depth!TypeOK
  <1>2. ReplayTyped => Ticks!ShownExists
    <2> SUFFICES ASSUME ReplayTyped PROVE Ticks!ShownExists OBVIOUS
    <2>1. Ticks!Total \in 0 .. MaxEvents /\ MaxEvents \in Nat /\ position \in Int
      BY TicksTotal, ReplayAssumption DEF ReplayTyped
    <2> DEFINE n == Ticks!Total
    <2> HIDE DEF n
    <2>2. n \in Nat /\ position \in Int BY <2>1 DEF n
    <2>3. n > 0 => Ticks!Shown(position, n) < n
      BY <2>2 DEF Ticks!Shown, Ticks!Least, Ticks!Greatest
    <2> QED BY <2>3 DEF n, Ticks!ShownExists
  <1>3. /\ RunsWhile(Ticks!HasData(feed)) => Ticks!IntervalIffPlaying
        /\ RunsWhile(Trades!HasData(feed)) => Trades!IntervalIffPlaying
        /\ RunsWhile(Depth!HasData(feed)) => Depth!IntervalIffPlaying
    BY Zenon DEF RunsWhile, Ticks!IntervalIffPlaying, Trades!IntervalIffPlaying,
       Depth!IntervalIffPlaying, Ticks!Off, Trades!Off, Depth!Off
  <1> QED BY <1>1, <1>2, <1>3 DEF ReplayInv

-----------------------------------------------------------------------------
(* The session recorder: the lists of recordings.                            *)

RecAccounts == 1 .. NAccounts
Equity == Levels \cup {CHOOSE l \in Levels : \A m \in Levels : l <= m}
Snap == [equity : [RecAccounts -> Equity], trades : [RecAccounts -> Nat]]
MarketState == [equity : [RecAccounts -> Equity], trades : [RecAccounts -> Nat], candles : BOOLEAN]

\* A recording with a summary of M, and one that runs.
Recording(M) == [id : Nat, snaps : Seq(Snap), meta : M]
Running(n) == [id : 0 .. n, snaps : Seq(Snap), meta : {Library!NoMeta}]

FrontOf(r, list) ==
  LET all == <<r>> \o list IN SubSeq(all, 1, IF Len(all) < MaxSaved THEN Len(all) ELSE MaxSaved)

\* A new recording comes first; what is pushed out, is by a full list.
LEMMA FrontFacts ==
  ASSUME NEW R, NEW r \in R, NEW list \in Seq(R)
  PROVE  LET f == FrontOf(r, list) IN
         /\ f \in Seq(R) /\ Len(f) <= MaxSaved
         /\ \A i \in DOMAIN f : f[i] = r \/ \E j \in DOMAIN list : f[i] = list[j]
         /\ Len(f) = MaxSaved \/ \A j \in DOMAIN list : \E i \in DOMAIN f : f[i] = list[j]
  <1> DEFINE all == <<r>> \o list
             m == IF Len(all) < MaxSaved THEN Len(all) ELSE MaxSaved
             f == FrontOf(r, list)
  <1>0. MaxSaved \in Nat BY RecorderAssumption
  <1>1. all \in Seq(R) /\ Len(all) = Len(list) + 1 /\ Len(list) \in Nat OBVIOUS
  <1>2. all[1] = r /\ \A j \in 1 .. Len(list) : all[j + 1] = list[j]
    <2>1. all[1] = r OBVIOUS
    <2>2. ASSUME NEW j \in 1 .. Len(list) PROVE all[j + 1] = list[j]
      <3>1. <<r>> \in Seq(R) /\ Len(<<r>>) = 1 OBVIOUS
      <3>2. j + 1 \in 1 .. Len(<<r>>) + Len(list) /\ ~(j + 1 <= Len(<<r>>)) /\ j + 1 - Len(<<r>>) = j
        BY <1>1, <3>1
      <3> QED BY <3>1, <3>2
    <2> QED BY <2>1, <2>2
  <1>3. f = SubSeq(all, 1, m) BY DEF FrontOf
  <1> HIDE DEF all
  <1>4. m \in Nat /\ m <= Len(all) /\ m <= MaxSaved BY <1>0, <1>1
  <1>5. m = MaxSaved \/ m = Len(list) + 1 BY <1>0, <1>1
  <1> HIDE DEF m, f
  <1>6. f \in Seq(R) /\ Len(f) = m /\ DOMAIN f = 1 .. m /\ \A i \in 1 .. m : f[i] = all[i]
    <2>1. f \in Seq(R) /\ Len(f) = m BY <1>1, <1>3, <1>4
    <2>2. \A i \in 1 .. m : f[i] = all[i] BY <1>1, <1>3, <1>4
    <2> QED BY <1>4, <2>1, <2>2
  <1>7. ASSUME NEW i \in DOMAIN f PROVE f[i] = r \/ \E j \in DOMAIN list : f[i] = list[j]
    <2>1. i \in 1 .. m /\ i \in Nat /\ f[i] = all[i] BY <1>4, <1>6
    <2>2. CASE i = 1 BY <1>2, <2>1, <2>2
    <2>3. CASE i # 1
      <3>1. i - 1 \in 1 .. Len(list) /\ (i - 1) + 1 = i BY <1>1, <1>4, <2>1, <2>3
      <3>2. f[i] = list[i - 1] BY <1>2, <2>1, <3>1
      <3> QED BY <3>1, <3>2
    <2> QED BY <2>2, <2>3
  <1>8. ASSUME m # MaxSaved, NEW j \in DOMAIN list PROVE \E i \in DOMAIN f : f[i] = list[j]
    <2>1. j \in 1 .. Len(list) /\ j + 1 \in 1 .. m BY <1>1, <1>5, <1>8
    <2>2. f[j + 1] = list[j] BY <1>2, <1>6, <2>1
    <2> QED BY <1>6, <2>1, <2>2
  <1> QED BY <1>4, <1>6, <1>7, <1>8 DEF f

\* A set of places in order: every place comes once.
LEMMA SortedPlaces ==
  ASSUME NEW n \in Nat, NEW K, K \subseteq 1 .. n
  PROVE  /\ Cardinality(K) \in 0 .. n /\ Import!Sorted(K) = Library!Sorted(K)
         /\ Library!Sorted(K) \in [1 .. Cardinality(K) -> K]
         /\ \A x \in K : \E i \in 1 .. Cardinality(K) : Library!Sorted(K)[i] = x
  <1> DEFINE f == Library!Sorted(K)  c == Cardinality(K)
  <1>1. IsFiniteSet(K) /\ K \subseteq Nat /\ c \in 0 .. n
    <2>1. K \subseteq Nat OBVIOUS
    <2> QED BY <2>1, PlacesCounted
  <1>2. Import!Sorted(K) = f
    BY DEF Import!Sorted, Library!Sorted, Import!Cardinality, Library!Cardinality
  <1>3. f \in [1 .. c -> K] /\ \A i, j \in DOMAIN f : i < j => f[i] < f[j]
    <2>1. f = CHOOSE list \in [1 .. c -> K] : \A i, j \in DOMAIN list : i < j => list[i] < list[j]
      BY DEF Library!Sorted, Library!Cardinality, Cardinality
    <2>2. \E list \in [1 .. c -> K] : \A i, j \in DOMAIN list : i < j => list[i] < list[j]
      BY <1>1, IncreasingList
    <2> HIDE DEF f
    <2> QED BY <2>1, <2>2
  <1> HIDE DEF f
  <1>4. c \in Nat BY <1>1, FS_CardinalityType
  <1>5. ASSUME NEW i \in 1 .. c, NEW j \in 1 .. c, f[i] = f[j] PROVE i = j
    <2>1. f[i] \in K /\ i \in DOMAIN f /\ j \in DOMAIN f BY <1>3
    <2>2. f[i] \in Nat BY <1>1, <2>1
    <2>3. i \in Int /\ j \in Int BY <1>4
    <2>4. ~(f[i] < f[j]) /\ ~(f[j] < f[i]) BY <1>5, <2>2
    <2> QED BY <1>3, <2>1, <2>3, <2>4
  <1>6. f \in Surjection(1 .. c, K)
    <2>1. IsFiniteSet(1 .. c) /\ Cardinality(1 .. c) = c BY <1>4, FS_Interval
    <2>2. f \in Injection(1 .. c, K) BY <1>3, <1>5 DEF Injection, IsInjective
    <2> QED BY <1>1, <2>1, <2>2, FS_Injection
  <1>7. \A x \in K : \E i \in 1 .. c : f[i] = x BY <1>6 DEF Surjection
  <1> QED BY <1>1, <1>2, <1>3, <1>7 DEF f

\* Without the recordings of an id: all the others and nothing else.
LEMMA WithoutFacts ==
  ASSUME NEW R, NEW list \in Seq(R), NEW id
  PROVE  LET w == Library!Without(list, id) IN
         /\ Import!Without(list, id) = w /\ w \in Seq(R) /\ Len(w) <= Len(list)
         /\ \A k \in DOMAIN w : \E j \in DOMAIN list : w[k] = list[j] /\ list[j].id # id
         /\ \A j \in DOMAIN list : list[j].id # id => \E k \in DOMAIN w : w[k] = list[j]
  <1> DEFINE K == {i \in DOMAIN list : list[i].id # id}
             at == Library!Sorted(K)  c == Cardinality(K)  w == Library!Without(list, id)
  <1>1. Len(list) \in Nat /\ DOMAIN list = 1 .. Len(list) /\ \A j \in DOMAIN list : list[j] \in R OBVIOUS
  <1>2. K \subseteq 1 .. Len(list) BY <1>1
  <1>3. /\ c \in 0 .. Len(list) /\ Import!Sorted(K) = at /\ at \in [1 .. c -> K]
        /\ \A x \in K : \E i \in 1 .. c : at[i] = x
    <2> HIDE DEF K
    <2> QED BY <1>1, <1>2, SortedPlaces
  <1>4. w = [k \in DOMAIN at |-> list[at[k]]] BY DEF Library!Without
  <1>5. Import!Without(list, id) = w BY <1>3, <1>4 DEF Import!Without
  <1> HIDE DEF at, w, c
  <1>6. c \in Nat /\ DOMAIN at = 1 .. c /\ \A k \in 1 .. c : at[k] \in DOMAIN list /\ list[at[k]].id # id
    BY <1>1, <1>3
  <1>7. w = [k \in 1 .. c |-> list[at[k]]] /\ \A k \in 1 .. c : list[at[k]] \in R BY <1>1, <1>4, <1>6
  <1>8. w \in Seq(R) /\ Len(w) = c /\ DOMAIN w = 1 .. c BY <1>6, <1>7
  <1>9. \A k \in DOMAIN w : w[k] = list[at[k]] BY <1>7, <1>8
  <1>10. ASSUME NEW j \in DOMAIN list, list[j].id # id PROVE \E k \in DOMAIN w : w[k] = list[j]
    <2>1. j \in K BY <1>10
    <2>2. PICK k \in 1 .. c : at[k] = j BY <1>3, <2>1
    <2> QED BY <1>8, <1>9, <2>2
  <1> QED BY <1>3, <1>5, <1>6, <1>8, <1>9, <1>10 DEF w

-----------------------------------------------------------------------------
(* The session recorder: recording, list and player.                         *)

NotRecording == [id |-> 0, snaps |-> <<>>, meta |-> Library!NoMeta]
NotReading == [file |-> "none", base |-> <<>>, here |-> FALSE]

RecorderBooleans == isPlaying \in BOOLEAN /\ recMounted \in BOOLEAN /\ apart \in BOOLEAN

\* M: the summaries, S: snapshots of a recording, I: recordings started, F: files.
RecorderTyped(M, S, I, F) ==
  /\ market \in MarketState
  /\ rec \in Running(I) /\ Len(rec.snaps) <= S /\ started \in 0 .. I
  /\ saved \in Seq(Recording(M)) /\ Len(saved) <= MaxSaved
  /\ storage \in Seq(Recording(M)) /\ Len(storage) <= MaxSaved
  /\ picked \in {NotReading} \cup [file : F, base : Seq(Recording(M)), here : BOOLEAN]
  /\ viewing \in {NotRecording} \cup Recording(M)

PlaceExists == seekIdx \in Nat /\ (viewing # NotRecording => seekIdx <= Library!Greater(0, Len(viewing.snaps) - 1))

RecorderInv(M, S, I, F) ==
  /\ RecorderBooleans /\ RecorderTyped(M, S, I, F) /\ PlaceExists
  /\ recMounted /\ ~apart => saved = storage

\* What the actions of the recorder do, each with whatever M, S, I and F allow.
Persists(list, here) ==
  /\ saved' = IF here THEN list ELSE saved
  /\ \/ storage' = list /\ apart' = IF here THEN FALSE ELSE recMounted
     \/ storage' = storage /\ apart' = IF here THEN TRUE ELSE apart

Markets ==
  /\ market' \in MarketState
  /\ UNCHANGED <<rec, saved, storage, picked, viewing, seekIdx, recMounted, started, apart, deleted>>

Starts(I) ==
  /\ started < I /\ started' = started + 1 /\ rec = NotRecording
  /\ rec' = [id |-> started + 1, snaps |-> <<>>, meta |-> Library!NoMeta]
  /\ UNCHANGED <<market, saved, storage, picked, viewing, seekIdx, recMounted, apart, deleted>>

Captures(S) ==
  /\ rec # NotRecording /\ Len(rec.snaps) < S
  /\ rec' = [rec EXCEPT !.snaps = Append(rec.snaps, [equity |-> market.equity, trades |-> market.trades])]
  /\ UNCHANGED <<market, saved, storage, picked, viewing, seekIdx, recMounted, started, apart, deleted>>

Saves(M) ==
  /\ recMounted /\ rec # NotRecording /\ rec' = NotRecording
  /\ \E done \in Recording(M) :
       /\ done.id = rec.id /\ Persists(FrontOf(done, saved), TRUE) /\ viewing' = done /\ seekIdx' = 0
  /\ UNCHANGED <<market, picked, recMounted, started, deleted>>

Deletes ==
  /\ recMounted
  /\ \E id \in Nat : /\ \E i \in DOMAIN saved : saved[i].id = id
                     /\ Persists(Library!Without(saved, id), TRUE)
                     /\ deleted' = IF apart' THEN deleted ELSE deleted \cup {id}
  /\ UNCHANGED <<market, rec, picked, viewing, seekIdx, recMounted, started>>

Picks(F) ==
  /\ \E f \in F : picked' = [file |-> f, base |-> saved, here |-> TRUE]
  /\ UNCHANGED <<market, rec, saved, storage, viewing, seekIdx, recMounted, started, apart, deleted>>

Imports(M) ==
  /\ picked # NotReading /\ picked' = NotReading
  /\ \E r \in Recording(M) : Persists(FrontOf(r, picked.base), picked.here)
  /\ UNCHANGED <<market, rec, viewing, seekIdx, recMounted, started, deleted>>

Plays ==
  /\ \/ \E i \in DOMAIN saved : viewing' = saved[i] /\ seekIdx' = 0
     \/ viewing' = NotRecording /\ seekIdx' = seekIdx
     \/ /\ viewing # NotRecording /\ viewing' = viewing
        /\ \/ seekIdx' = seekIdx
           \/ seekIdx' \in Nat /\ seekIdx' <= Library!Greater(0, Len(viewing.snaps) - 1)
  /\ UNCHANGED <<market, rec, saved, storage, picked, recMounted, started, apart, deleted>>

Goes ==
  /\ recMounted' = FALSE /\ rec' = NotRecording /\ saved' = <<>> /\ viewing' = NotRecording
  /\ picked' = [picked EXCEPT !.here = FALSE] /\ apart' = FALSE
  /\ seekIdx' = 0 /\ UNCHANGED <<market, storage, started, deleted>>

Comes ==
  /\ recMounted' = TRUE /\ saved' = storage /\ apart' = FALSE
  /\ UNCHANGED <<market, rec, storage, picked, viewing, seekIdx, started, deleted>>

RecorderMoves(M, S, I, F) ==
  \/ Markets \/ Starts(I) \/ Captures(S) \/ Saves(M) \/ Deletes \/ Picks(F) \/ Imports(M)
  \/ Plays \/ Goes \/ Comes

LEMMA PersistsFacts ==
  ASSUME NEW M, NEW list \in Seq(Recording(M)), NEW here \in BOOLEAN, Len(list) <= MaxSaved,
         saved \in Seq(Recording(M)), Len(saved) <= MaxSaved,
         storage \in Seq(Recording(M)), Len(storage) <= MaxSaved,
         recMounted /\ ~apart => saved = storage,
         Persists(list, here), recMounted' = recMounted
  PROVE  /\ saved' \in Seq(Recording(M)) /\ Len(saved') <= MaxSaved
         /\ storage' \in Seq(Recording(M)) /\ Len(storage') <= MaxSaved
         /\ recMounted' /\ ~apart' => saved' = storage'
  <1>1. saved' \in {list, saved} /\ storage' \in {list, storage} BY DEF Persists
  <1>2. recMounted' /\ ~apart' => saved' = storage'
    <2>1. CASE here BY <2>1 DEF Persists
    <2>2. CASE ~here BY <2>2 DEF Persists
    <2> QED BY <2>1, <2>2
  <1> QED BY <1>1, <1>2

LEMMA RecorderKept ==
  ASSUME NEW M, NEW S \in Nat, NEW I \in Nat, NEW F,
         RecorderInv(M, S, I, F), RecorderMoves(M, S, I, F), RecorderBooleans'
  PROVE  RecorderInv(M, S, I, F)'
  <1> DEFINE Rs == Recording(M)
             Lists == /\ saved' \in Seq(Rs) /\ Len(saved') <= MaxSaved
                      /\ storage' \in Seq(Rs) /\ Len(storage') <= MaxSaved
                      /\ recMounted' /\ ~apart' => saved' = storage'
             Rest == /\ market' \in MarketState /\ started' \in 0 .. I
                     /\ rec' \in Running(I) /\ Len(rec'.snaps) <= S
                     /\ picked' \in {NotReading} \cup [file : F, base : Seq(Rs), here : BOOLEAN]
             Player == viewing' \in {NotRecording} \cup Rs /\ PlaceExists'
  <1>1. SUFFICES Lists /\ Rest /\ Player
    <2> HIDE DEF Rs
    <2> QED BY <1>1 DEF RecorderInv, RecorderTyped, Rs
  <1>2. /\ saved \in Seq(Rs) /\ Len(saved) <= MaxSaved /\ storage \in Seq(Rs) /\ Len(storage) <= MaxSaved
        /\ recMounted /\ ~apart => saved = storage
    BY DEF RecorderInv, RecorderTyped
  <1>3. /\ market \in MarketState /\ started \in 0 .. I /\ rec \in Running(I) /\ Len(rec.snaps) <= S
        /\ picked \in {NotReading} \cup [file : F, base : Seq(Rs), here : BOOLEAN]
    BY DEF RecorderInv, RecorderTyped
  <1>4. viewing \in {NotRecording} \cup Rs /\ PlaceExists BY DEF RecorderInv, RecorderTyped
  <1>5. /\ UNCHANGED <<saved, storage, recMounted, apart>> => Lists
        /\ UNCHANGED <<market, rec, picked, started>> => Rest
        /\ UNCHANGED <<viewing, seekIdx>> => Player
    BY <1>2, <1>3, <1>4 DEF PlaceExists
  <1>6. NotRecording \in Running(I) /\ Len(NotRecording.snaps) = 0
    BY DEF NotRecording, Running
  <1>7. \A r \in Rs : /\ \A i \in Nat : i <= 0 => i <= Library!Greater(0, Len(r.snaps) - 1)
                      /\ r.snaps \in Seq(Snap)
    BY DEF Recording, Library!Greater
  <1> HIDE DEF Rs
  <1>8. CASE Markets BY <1>3, <1>5, <1>8 DEF Markets
  <1>9. CASE Starts(I)
    <2>1. started + 1 \in 0 .. I /\ started' = started + 1 BY <1>3, <1>9 DEF Starts
    <2>2. rec' \in Running(I) /\ Len(rec'.snaps) = 0
      BY <1>9, <2>1 DEF Starts, Running
    <2> QED BY <1>3, <1>5, <1>9, <2>1, <2>2 DEF Starts
  <1>10. CASE Captures(S)
    <2> DEFINE snap == [equity |-> market.equity, trades |-> market.trades]
    <2>1. snap \in Snap BY <1>3 DEF MarketState, Snap
    <2>2. rec.snaps \in Seq(Snap) /\ Len(rec.snaps) < S /\ Len(rec.snaps) \in Nat
      BY <1>3, <1>10 DEF Captures, Running
    <2>3. rec' = [rec EXCEPT !.snaps = Append(rec.snaps, snap)] BY <1>10 DEF Captures
    <2> HIDE DEF snap
    <2>4. Append(rec.snaps, snap) \in Seq(Snap) /\ Len(Append(rec.snaps, snap)) = Len(rec.snaps) + 1
      BY <2>1, <2>2
    <2>5. rec' \in Running(I) BY <1>3, <2>3, <2>4 DEF Running
    <2>6. rec'.snaps = Append(rec.snaps, snap) BY <1>3, <2>3 DEF Running
    <2>7. Len(rec'.snaps) <= S BY <2>2, <2>4, <2>6
    <2> QED BY <1>3, <1>5, <1>10, <2>5, <2>7 DEF Captures
  <1>11. CASE Saves(M)
    <2>1. PICK done \in Rs : Persists(FrontOf(done, saved), TRUE) /\ viewing' = done /\ seekIdx' = 0
      BY <1>11 DEF Saves, Rs
    <2>2. /\ rec' = NotRecording /\ UNCHANGED <<market, picked, recMounted, started>>
      BY <1>11 DEF Saves
    <2>3. FrontOf(done, saved) \in Seq(Rs) /\ Len(FrontOf(done, saved)) <= MaxSaved
      BY <1>2, FrontFacts
    <2>4. Lists BY <1>2, <2>1, <2>2, <2>3, PersistsFacts DEF Rs
    <2>5. Player BY <1>7, <2>1 DEF PlaceExists
    <2> QED BY <1>3, <1>6, <2>2, <2>4, <2>5
  <1>12. CASE Deletes
    <2>1. PICK id : Persists(Library!Without(saved, id), TRUE) BY <1>12 DEF Deletes
    <2> DEFINE w == Library!Without(saved, id)
    <2>2. w \in Seq(Rs) /\ Len(w) <= Len(saved) BY <1>2, WithoutFacts
    <2> HIDE DEF w
    <2>3. Len(w) <= MaxSaved
      <3>1. Len(w) \in Nat /\ Len(saved) \in Nat BY <1>2, <2>2
      <3> QED BY <1>2, <2>2, <3>1, RecorderAssumption
    <2>4. recMounted' = recMounted /\ Persists(w, TRUE) BY <1>12, <2>1 DEF Deletes, w
    <2>5. Lists BY <1>2, <2>2, <2>3, <2>4, PersistsFacts DEF Rs
    <2> QED BY <1>5, <1>12, <2>5 DEF Deletes
  <1>13. CASE Picks(F)
    <2>1. picked' \in [file : F, base : Seq(Rs), here : BOOLEAN] BY <1>2, <1>13 DEF Picks
    <2> QED BY <1>3, <1>5, <1>13, <2>1 DEF Picks
  <1>14. CASE Imports(M)
    <2>1. PICK r \in Rs : Persists(FrontOf(r, picked.base), picked.here) BY <1>14 DEF Imports, Rs
    <2>2. picked.base \in Seq(Rs) /\ picked.here \in BOOLEAN BY <1>3, <1>14 DEF Imports
    <2>3. FrontOf(r, picked.base) \in Seq(Rs) /\ Len(FrontOf(r, picked.base)) <= MaxSaved
      BY <2>2, FrontFacts
    <2>4. recMounted' = recMounted /\ picked' = NotReading BY <1>14 DEF Imports
    <2>5. Lists
      <3> DEFINE list == FrontOf(r, picked.base)  here == picked.here
      <3>1. list \in Seq(Rs) /\ Len(list) <= MaxSaved /\ here \in BOOLEAN /\ Persists(list, here)
        BY <2>1, <2>2, <2>3
      <3> HIDE DEF list, here
      <3> QED BY <1>2, <2>4, <3>1, PersistsFacts DEF Rs
    <2> QED BY <1>3, <1>5, <1>14, <2>4, <2>5 DEF Imports
  <1>15. CASE Plays
    <2>1. Player
      <3>1. CASE \E i \in DOMAIN saved : viewing' = saved[i] /\ seekIdx' = 0
        <4>1. viewing' \in Rs /\ seekIdx' = 0 BY <1>2, <3>1
        <4> QED BY <1>7, <4>1 DEF PlaceExists
      <3>2. CASE viewing' = NotRecording /\ seekIdx' = seekIdx BY <1>4, <3>2 DEF PlaceExists
      <3>3. CASE /\ viewing # NotRecording /\ viewing' = viewing
                 /\ \/ seekIdx' = seekIdx
                    \/ seekIdx' \in Nat /\ seekIdx' <= Library!Greater(0, Len(viewing.snaps) - 1)
        BY <1>4, <3>3 DEF PlaceExists
      <3> QED BY <1>15, <3>1, <3>2, <3>3 DEF Plays
    <2> QED BY <1>5, <1>15, <2>1 DEF Plays
  <1>16. CASE Goes
    <2>1. Lists BY <1>2, <1>16, RecorderAssumption DEF Goes
    <2>2. Player BY <1>16 DEF Goes, PlaceExists
    <2>3. picked' \in {NotReading} \cup [file : F, base : Seq(Rs), here : BOOLEAN]
      <3>1. picked' = [picked EXCEPT !.here = FALSE] BY <1>16 DEF Goes
      <3>2. CASE picked = NotReading BY <3>1, <3>2 DEF NotReading
      <3>3. CASE picked # NotReading
        <4>1. picked \in [file : F, base : Seq(Rs), here : BOOLEAN] BY <1>3, <3>3
        <4> QED BY <3>1, <4>1
      <3> QED BY <3>2, <3>3
    <2> QED BY <1>3, <1>6, <1>16, <2>1, <2>2, <2>3 DEF Goes
  <1>17. CASE Comes BY <1>2, <1>5, <1>17 DEF Comes
  <1> QED BY <1>8, <1>9, <1>10, <1>11, <1>12, <1>13, <1>14, <1>15, <1>16, <1>17 DEF RecorderMoves

LibraryMetas == {Library!Summary(s) : s \in Seq(Snap)}
ImportMetas == {Import!Summary(s) : s \in Seq(Snap)}

LibraryRecordings == RecorderInv(LibraryMetas, LibrarySnaps, LibraryIds, {})
ImportRecordings == RecorderInv(ImportMetas, ImportSnaps, ImportIds, {"full"})

LEMMA RecorderInit == Library!Init => LibraryRecordings /\ ImportRecordings
  <1> SUFFICES ASSUME Library!Init,
                      NEW M, NEW S \in Nat, NEW I \in Nat, NEW F
               PROVE  RecorderInv(M, S, I, F)
    BY RecorderAssumption DEF LibraryRecordings, ImportRecordings
  <1>1. RecorderBooleans BY Zenon DEF Library!Init, RecorderBooleans
  <1>2. market \in MarketState
    <2>1. FALSE \in BOOLEAN OBVIOUS
    <2>2. (CHOOSE l \in Levels : \A m \in Levels : l <= m) \in Equity BY DEF Equity
    <2>3. Library!Accounts = RecAccounts BY DEF Library!Accounts, RecAccounts
    <2> DEFINE least == CHOOSE l \in Levels : \A m \in Levels : l <= m
    <2>4. market = [equity |-> [a \in RecAccounts |-> least], trades |-> [a \in RecAccounts |-> 0],
                    candles |-> FALSE]
      BY <2>3 DEF Library!Init
    <2> HIDE DEF least
    <2>5. least \in Equity BY <2>2 DEF least
    <2> QED BY <2>4, <2>5 DEF MarketState
  <1>3. /\ rec = NotRecording /\ saved = <<>> /\ storage = <<>> /\ picked = NotReading
        /\ viewing = NotRecording /\ seekIdx = 0 /\ started = 0
    BY DEF Library!Init, Library!NoRec, Library!NoFile, NotRecording, NotReading
  <1>4. NotRecording \in Running(I) /\ Len(NotRecording.snaps) = 0 BY DEF NotRecording, Running
  <1>5. RecorderTyped(M, S, I, F) BY <1>2, <1>3, <1>4, RecorderAssumption DEF RecorderTyped
  <1>6. PlaceExists BY <1>3 DEF PlaceExists
  <1> QED BY <1>1, <1>3, <1>5, <1>6 DEF RecorderInv

LEMMA LibraryBooleans == ASSUME RecorderBooleans, Library!Next PROVE RecorderBooleans'
  <1>1. /\ isPlaying' \in {isPlaying, ~isPlaying, FALSE}
        /\ recMounted' \in {recMounted, TRUE, FALSE}
        /\ apart' \in {apart, recMounted, TRUE, FALSE}
    BY Zenon DEF Library!Next, Library!Market, Library!startRecording, Library!captureSnapshot,
       Library!stopRecording, Library!Delete, Library!deleteRecording, Library!PickFile,
       Library!importRecording, Library!View, Library!Close, Library!PlayPause, Library!PlayTick,
       Library!handleSeek, Library!Unmount, Library!Mount, Library!persistRecordings
  <1> QED BY <1>1, Zenon DEF RecorderBooleans

LEMMA LibraryMoves ==
  ASSUME LibraryRecordings, Library!Next
  PROVE  RecorderMoves(LibraryMetas, LibrarySnaps, LibraryIds, {})
  <1> DEFINE M == LibraryMetas  S == LibrarySnaps  I == LibraryIds
  <1>0. SUFFICES RecorderMoves(M, S, I, {}) OBVIOUS
  <1>1. Library!NoRec = NotRecording /\ Library!NoFile = NotReading /\ Library!NoMeta = Library!NoMeta
    BY DEF Library!NoRec, Library!NoMeta, Library!NoMeta, Library!NoFile, NotRecording, NotReading
  <1>2. \A r, list : Library!Front1(r, list) = FrontOf(r, list) BY DEF Library!Front1, FrontOf
  <1>3. \A list, here : Library!persistRecordings(list, here) => Persists(list, here)
    BY Zenon DEF Library!persistRecordings, Persists
  <1>4. /\ market \in MarketState /\ rec \in Running(I) /\ saved \in Seq(Recording(M))
        /\ picked \in {NotReading} \cup [file : {}, base : Seq(Recording(M)), here : BOOLEAN]
        /\ viewing \in {NotRecording} \cup Recording(M) /\ PlaceExists /\ started \in 0 .. I
    BY DEF LibraryRecordings, RecorderInv, RecorderTyped
  <1>5. I \in Nat BY RecorderAssumption
  <1>6. \A s \in Seq(Snap) : Library!Summary(s) \in M BY DEF LibraryMetas
  <1> HIDE DEF M
  <1>7. CASE Library!Market
    <2>1. market' \in MarketState
      <3>1. ASSUME NEW a \in Library!Accounts, NEW l \in Levels,
                   market' = [market EXCEPT !.equity[a] = l]
            PROVE  market' \in MarketState
        <4>1. a \in RecAccounts /\ l \in Equity BY DEF Library!Accounts, RecAccounts, Equity
        <4>2. [market.equity EXCEPT ![a] = l] \in [RecAccounts -> Equity] BY <1>4, <4>1 DEF MarketState
        <4>3. market' = [market EXCEPT !.equity = [market.equity EXCEPT ![a] = l]] BY <3>1
        <4> QED BY <1>4, <4>2, <4>3 DEF MarketState
      <3>2. ASSUME NEW a \in Library!Accounts, market' = [market EXCEPT !.trades[a] = market.trades[a] + 1]
            PROVE  market' \in MarketState
        <4>1. a \in RecAccounts BY DEF Library!Accounts, RecAccounts
        <4>2. [market.trades EXCEPT ![a] = market.trades[a] + 1] \in [RecAccounts -> Nat]
          BY <1>4, <4>1 DEF MarketState
        <4>3. market' = [market EXCEPT !.trades = [market.trades EXCEPT ![a] = market.trades[a] + 1]]
          BY <3>2
        <4> QED BY <1>4, <4>2, <4>3 DEF MarketState
      <3>3. ASSUME market' = [market EXCEPT !.candles = TRUE] PROVE market' \in MarketState
        BY <1>4, <3>3 DEF MarketState
      <3> QED BY <1>7, <3>1, <3>2, <3>3 DEF Library!Market
    <2> QED BY <1>7, <2>1 DEF Library!Market, Markets, RecorderMoves
  <1>8. CASE Library!startRecording
    BY <1>1, <1>8 DEF Library!startRecording, Starts, RecorderMoves
  <1>9. CASE Library!captureSnapshot
    BY <1>1, <1>9 DEF Library!captureSnapshot, Captures, RecorderMoves
  <1>10. CASE Library!stopRecording
    <2> DEFINE done == [rec EXCEPT !.meta = Library!Summary(rec.snaps)]
    <2>1. rec.snaps \in Seq(Snap) /\ rec.id \in Nat BY <1>4, <1>5 DEF Running
    <2>2. Library!Summary(rec.snaps) \in M BY <1>6, <2>1
    <2>3. done \in Recording(M) /\ done.id = rec.id
      BY <1>4, <2>1, <2>2 DEF Running, Recording
    <2>4. /\ recMounted /\ rec # Library!NoRec /\ rec' = Library!NoRec
          /\ Library!persistRecordings(Library!Front1(done, saved), TRUE) /\ viewing' = done /\ seekIdx' = 0
          /\ UNCHANGED <<market, picked, recMounted, started, deleted>>
      BY <1>10, Zenon DEF Library!stopRecording
    <2> HIDE DEF done
    <2>5. Persists(FrontOf(done, saved), TRUE) BY <1>2, <1>3, <2>4
    <2> QED BY <1>1, <2>3, <2>4, <2>5 DEF Saves, RecorderMoves
  <1>11. CASE Library!Delete
    <2>1. PICK id \in 1 .. I + 1 : Library!deleteRecording(id) BY <1>11 DEF Library!Delete
    <2>2. id \in Nat BY <1>5
    <2>3. Library!Without(saved, id) = Library!Without(saved, id) BY <1>4, WithoutFacts
    <2>4. Persists(Library!Without(saved, id), TRUE) BY <1>3, <2>1, <2>3 DEF Library!deleteRecording
    <2> QED BY <2>1, <2>2, <2>4 DEF Library!deleteRecording, Deletes, RecorderMoves
  <1>12. CASE Library!PickFile
    BY <1>12 DEF Library!PickFile, Picks, RecorderMoves
  <1>13. CASE Library!importRecording
    <2>1. picked # NotReading BY <1>1, <1>13 DEF Library!importRecording
    <2> QED BY <1>4, <2>1
  <1>14. CASE Library!View \/ Library!Close \/ Library!PlayPause
    BY <1>1, <1>14 DEF Library!View, Library!Close, Library!PlayPause, Library!Visible, Plays, RecorderMoves
  <1>15. CASE Library!PlayTick \/ Library!handleSeek
    <2>1. /\ viewing # NotRecording /\ viewing' = viewing
          /\ UNCHANGED <<market, rec, saved, storage, picked, recMounted, started, apart, deleted>>
      BY <1>1, <1>15 DEF Library!PlayTick, Library!handleSeek, Library!Visible
    <2>2. seekIdx \in Nat /\ Len(viewing.snaps) \in Nat
      BY <1>4, <2>1 DEF PlaceExists, Recording
    <2> DEFINE n == Len(viewing.snaps)
    <2>3. \/ seekIdx' = seekIdx
          \/ ~(seekIdx >= n - 1) /\ seekIdx' = seekIdx + 1
          \/ \E d \in {-1, 1} :
               seekIdx' = Library!Greater(0, IF seekIdx + d < n - 1 THEN seekIdx + d ELSE n - 1)
      BY <1>15 DEF Library!PlayTick, Library!handleSeek
    <2>4. seekIdx' = seekIdx \/ (seekIdx' \in Nat /\ seekIdx' <= Library!Greater(0, n - 1))
      <3> HIDE DEF n
      <3>1. n \in Nat BY <2>2 DEF n
      <3> QED BY ONLY <2>2, <2>3, <3>1 DEF Library!Greater, Library!Greater
    <2> QED BY <2>1, <2>4 DEF Plays, RecorderMoves
  <1>16. CASE Library!Unmount BY <1>1, <1>16 DEF Library!Unmount, Goes, RecorderMoves
  <1>17. CASE Library!Mount BY <1>17 DEF Library!Mount, Comes, RecorderMoves
  <1> QED
    BY <1>7, <1>8, <1>9, <1>10, <1>11, <1>12, <1>13, <1>14, <1>15, <1>16, <1>17 DEF Library!Next

LEMMA LibraryStep == ASSUME LibraryRecordings, Library!Next PROVE LibraryRecordings'
  <1>1. RecorderBooleans' BY LibraryBooleans DEF LibraryRecordings, RecorderInv
  <1>2. RecorderMoves(LibraryMetas, LibrarySnaps, LibraryIds, {}) BY LibraryMoves
  <1>3. RecorderInv(LibraryMetas, LibrarySnaps, LibraryIds, {}) BY DEF LibraryRecordings
  <1>4. LibrarySnaps \in Nat /\ LibraryIds \in Nat BY RecorderAssumption
  <1>5. RecorderInv(LibraryMetas, LibrarySnaps, LibraryIds, {})'
    BY ONLY <1>1, <1>2, <1>3, <1>4, RecorderKept
  <1> QED BY <1>5 DEF LibraryRecordings

LEMMA ImportBooleans == ASSUME RecorderBooleans, Import!Next PROVE RecorderBooleans'
  <1>1. /\ isPlaying' \in {isPlaying, ~isPlaying, FALSE}
        /\ recMounted' \in {recMounted, TRUE, FALSE}
        /\ apart' \in {apart, recMounted, TRUE, FALSE}
    BY Zenon DEF Import!Next, Import!Market, Import!startRecording, Import!captureSnapshot,
       Import!stopRecording, Import!Delete, Import!deleteRecording, Import!PickFile,
       Import!importRecording, Import!View, Import!Close, Import!PlayPause, Import!PlayTick,
       Import!handleSeek, Import!Unmount, Import!Mount, Import!persistRecordings
  <1> QED BY <1>1, Zenon DEF RecorderBooleans

LEMMA ImportMoves ==
  ASSUME ImportRecordings, Import!Next
  PROVE  RecorderMoves(ImportMetas, ImportSnaps, ImportIds, {"full"})
  <1> DEFINE M == ImportMetas  S == ImportSnaps  I == ImportIds
  <1>0. SUFFICES RecorderMoves(M, S, I, {"full"}) OBVIOUS
  <1>1. Import!NoRec = NotRecording /\ Import!NoFile = NotReading /\ Import!NoMeta = Library!NoMeta
    BY DEF Import!NoRec, Import!NoMeta, Library!NoMeta, Import!NoFile, NotRecording, NotReading
  <1>2. \A r, list : Import!Front1(r, list) = FrontOf(r, list) BY DEF Import!Front1, FrontOf
  <1>3. \A list, here : Import!persistRecordings(list, here) => Persists(list, here)
    BY Zenon DEF Import!persistRecordings, Persists
  <1>4. /\ market \in MarketState /\ rec \in Running(I) /\ saved \in Seq(Recording(M))
        /\ picked \in {NotReading} \cup [file : {"full"}, base : Seq(Recording(M)), here : BOOLEAN]
        /\ viewing \in {NotRecording} \cup Recording(M) /\ PlaceExists /\ started \in 0 .. I
    BY DEF ImportRecordings, RecorderInv, RecorderTyped
  <1>5. I \in Nat BY RecorderAssumption
  <1>6. \A s \in Seq(Snap) : Import!Summary(s) \in M BY DEF ImportMetas
  <1> HIDE DEF M
  <1>7. CASE Import!Market
    <2>1. market' \in MarketState
      <3>1. ASSUME NEW a \in Import!Accounts, NEW l \in Levels,
                   market' = [market EXCEPT !.equity[a] = l]
            PROVE  market' \in MarketState
        <4>1. a \in RecAccounts /\ l \in Equity BY DEF Import!Accounts, RecAccounts, Equity
        <4>2. [market.equity EXCEPT ![a] = l] \in [RecAccounts -> Equity] BY <1>4, <4>1 DEF MarketState
        <4>3. market' = [market EXCEPT !.equity = [market.equity EXCEPT ![a] = l]] BY <3>1
        <4> QED BY <1>4, <4>2, <4>3 DEF MarketState
      <3>2. ASSUME NEW a \in Import!Accounts, market' = [market EXCEPT !.trades[a] = market.trades[a] + 1]
            PROVE  market' \in MarketState
        <4>1. a \in RecAccounts BY DEF Import!Accounts, RecAccounts
        <4>2. [market.trades EXCEPT ![a] = market.trades[a] + 1] \in [RecAccounts -> Nat]
          BY <1>4, <4>1 DEF MarketState
        <4>3. market' = [market EXCEPT !.trades = [market.trades EXCEPT ![a] = market.trades[a] + 1]]
          BY <3>2
        <4> QED BY <1>4, <4>2, <4>3 DEF MarketState
      <3>3. ASSUME market' = [market EXCEPT !.candles = TRUE] PROVE market' \in MarketState
        BY <1>4, <3>3 DEF MarketState
      <3> QED BY <1>7, <3>1, <3>2, <3>3 DEF Import!Market
    <2> QED BY <1>7, <2>1 DEF Import!Market, Markets, RecorderMoves
  <1>8. CASE Import!startRecording
    BY <1>1, <1>8 DEF Import!startRecording, Starts, RecorderMoves
  <1>9. CASE Import!captureSnapshot
    BY <1>1, <1>9 DEF Import!captureSnapshot, Captures, RecorderMoves
  <1>10. CASE Import!stopRecording
    <2> DEFINE done == [rec EXCEPT !.meta = Import!Summary(rec.snaps)]
    <2>1. rec.snaps \in Seq(Snap) /\ rec.id \in Nat BY <1>4, <1>5 DEF Running
    <2>2. Import!Summary(rec.snaps) \in M BY <1>6, <2>1
    <2>3. done \in Recording(M) /\ done.id = rec.id
      BY <1>4, <2>1, <2>2 DEF Running, Recording
    <2>4. /\ recMounted /\ rec # Import!NoRec /\ rec' = Import!NoRec
          /\ Import!persistRecordings(Import!Front1(done, saved), TRUE) /\ viewing' = done /\ seekIdx' = 0
          /\ UNCHANGED <<market, picked, recMounted, started, deleted>>
      BY <1>10, Zenon DEF Import!stopRecording
    <2> HIDE DEF done
    <2>5. Persists(FrontOf(done, saved), TRUE) BY <1>2, <1>3, <2>4
    <2> QED BY <1>1, <2>3, <2>4, <2>5 DEF Saves, RecorderMoves
  <1>11. CASE Import!Delete
    <2>1. PICK id \in 1 .. I + 1 : Import!deleteRecording(id) BY <1>11 DEF Import!Delete
    <2>2. id \in Nat BY <1>5
    <2>3. Import!Without(saved, id) = Library!Without(saved, id) BY <1>4, WithoutFacts
    <2>4. Persists(Library!Without(saved, id), TRUE) BY <1>3, <2>1, <2>3 DEF Import!deleteRecording
    <2> QED BY <2>1, <2>2, <2>4 DEF Import!deleteRecording, Deletes, RecorderMoves
  <1>12. CASE Import!PickFile
    BY <1>12 DEF Import!PickFile, Picks, RecorderMoves
  <1>13. CASE Import!importRecording
    <2> DEFINE snap == [equity |-> [a \in Import!Accounts |-> CHOOSE l \in Levels : \A m \in Levels : l <= m],
                        trades |-> [a \in Import!Accounts |-> 0]]
               r == Import!FromFile(picked.file)
    <2>1. picked # NotReading /\ picked' = NotReading BY <1>1, <1>13 DEF Import!importRecording
    <2>2. picked.file = "full" BY <1>4, <2>1
    <2>3. snap \in Snap BY DEF Import!Accounts, RecAccounts, Equity, Snap
    <2>4. r = [id |-> I + 1, snaps |-> <<snap>>, meta |-> Import!Summary(<<snap>>)]
      BY <2>2 DEF Import!FromFile
    <2>5. Persists(FrontOf(r, picked.base), picked.here) BY <1>2, <1>3, <1>13 DEF Import!importRecording
    <2>6. UNCHANGED <<market, rec, viewing, seekIdx, recMounted, started, deleted>>
      BY <1>13 DEF Import!importRecording
    <2> HIDE DEF snap, r
    <2>7. <<snap>> \in Seq(Snap) BY <2>3
    <2>8. Import!Summary(<<snap>>) \in M BY <1>6, <2>7
    <2>9. r \in Recording(M) BY <1>5, <2>4, <2>7, <2>8 DEF Recording
    <2> QED BY <2>1, <2>5, <2>6, <2>9 DEF Imports, RecorderMoves
  <1>14. CASE Import!View \/ Import!Close \/ Import!PlayPause
    BY <1>1, <1>14 DEF Import!View, Import!Close, Import!PlayPause, Import!Visible, Plays, RecorderMoves
  <1>15. CASE Import!PlayTick \/ Import!handleSeek
    <2>1. /\ viewing # NotRecording /\ viewing' = viewing
          /\ UNCHANGED <<market, rec, saved, storage, picked, recMounted, started, apart, deleted>>
      BY <1>1, <1>15 DEF Import!PlayTick, Import!handleSeek, Import!Visible
    <2>2. seekIdx \in Nat /\ Len(viewing.snaps) \in Nat
      BY <1>4, <2>1 DEF PlaceExists, Recording
    <2> DEFINE n == Len(viewing.snaps)
    <2>3. \/ seekIdx' = seekIdx
          \/ ~(seekIdx >= n - 1) /\ seekIdx' = seekIdx + 1
          \/ \E d \in {-1, 1} :
               seekIdx' = Import!Greater(0, IF seekIdx + d < n - 1 THEN seekIdx + d ELSE n - 1)
      BY <1>15 DEF Import!PlayTick, Import!handleSeek
    <2>4. seekIdx' = seekIdx \/ (seekIdx' \in Nat /\ seekIdx' <= Library!Greater(0, n - 1))
      <3> HIDE DEF n
      <3>1. n \in Nat BY <2>2 DEF n
      <3> QED BY ONLY <2>2, <2>3, <3>1 DEF Library!Greater, Import!Greater
    <2> QED BY <2>1, <2>4 DEF Plays, RecorderMoves
  <1>16. CASE Import!Unmount BY <1>1, <1>16 DEF Import!Unmount, Goes, RecorderMoves
  <1>17. CASE Import!Mount BY <1>17 DEF Import!Mount, Comes, RecorderMoves
  <1> QED
    BY <1>7, <1>8, <1>9, <1>10, <1>11, <1>12, <1>13, <1>14, <1>15, <1>16, <1>17 DEF Import!Next

LEMMA ImportStep == ASSUME ImportRecordings, Import!Next PROVE ImportRecordings'
  <1>1. RecorderBooleans' BY ImportBooleans DEF ImportRecordings, RecorderInv
  <1>2. RecorderMoves(ImportMetas, ImportSnaps, ImportIds, {"full"}) BY ImportMoves
  <1>3. RecorderInv(ImportMetas, ImportSnaps, ImportIds, {"full"}) BY DEF ImportRecordings
  <1>4. ImportSnaps \in Nat /\ ImportIds \in Nat BY RecorderAssumption
  <1>5. RecorderInv(ImportMetas, ImportSnaps, ImportIds, {"full"})'
    BY ONLY <1>1, <1>2, <1>3, <1>4, RecorderKept
  <1> QED BY <1>5 DEF ImportRecordings

(***************************************************************************)
(* A recording gets a number of its own when it starts; until it is saved  *)
(* no number on the list or among the deleted ones is as high.             *)
(***************************************************************************)
Newest == IF rec = NotRecording THEN started ELSE started - 1

NumbersOnce ==
  /\ rec # NotRecording => rec.id = started /\ started >= 1
  /\ deleted \subseteq 1 .. Newest
  /\ Library!IdsOf(storage) \subseteq 1 .. Newest /\ Library!IdsOf(saved) \subseteq 1 .. Newest
  /\ deleted \cap Library!IdsOf(storage) = {} /\ deleted \cap Library!IdsOf(saved) = {}

LibraryInv == LibraryRecordings /\ NumbersOnce

LEMMA NumbersKept ==
  ASSUME LibraryInv, RecorderMoves(LibraryMetas, LibrarySnaps, LibraryIds, {})
  PROVE  NumbersOnce' /\ Library!RecordingsStay
  <1> DEFINE Rs == Recording(LibraryMetas)  ids == Library!IdsOf(storage)
             shown == Library!IdsOf(saved)
             Stays == \A id \in ids : ~apart \/ id \in shown =>
                                      id \in Library!IdsOf(storage') \/ id \in deleted'
                                      \/ Len(storage') = MaxSaved
  <1>1. /\ saved \in Seq(Rs) /\ storage \in Seq(Rs)
        /\ recMounted /\ ~apart => saved = storage
        /\ started \in Nat /\ rec \in Running(LibraryIds)
    BY RecorderAssumption DEF LibraryInv, LibraryRecordings, RecorderInv, RecorderTyped
  <1>2. picked = NotReading
    BY DEF LibraryInv, LibraryRecordings, RecorderInv, RecorderTyped
  <1>3. /\ rec # NotRecording => rec.id = started /\ started >= 1
        /\ deleted \subseteq 1 .. Newest /\ ids \subseteq 1 .. Newest /\ deleted \cap ids = {}
        /\ shown \subseteq 1 .. Newest /\ deleted \cap shown = {}
    BY DEF LibraryInv, NumbersOnce
  <1>4. SUFFICES NumbersOnce' /\ Stays
    BY DEF Library!RecordingsStay, Library!IdsOf
  <1>5. CASE Markets \/ Picks({}) \/ Plays \/ Comes
    <2>1. UNCHANGED <<rec, storage, started, deleted>> /\ saved' \in {saved, storage}
      BY <1>5 DEF Markets, Picks, Plays, Comes
    <2>2. NumbersOnce'
      BY <1>3, <2>1 DEF NumbersOnce, Newest, Library!IdsOf
    <2> QED BY <2>1, <2>2
  <1>6. CASE Goes
    <2>1. rec' = NotRecording /\ saved' = <<>> /\ UNCHANGED <<storage, started, deleted>> BY <1>6 DEF Goes
    <2>2. \A i \in 1 .. Newest : i \in 1 .. started BY <1>1 DEF Newest
    <2>3. Newest' = started BY <2>1 DEF Newest
    <2>4. ids' = ids /\ shown' = {} BY <2>1 DEF Library!IdsOf
    <2>5. NumbersOnce' BY <1>3, <2>1, <2>2, <2>3, <2>4 DEF NumbersOnce
    <2> QED BY <2>1, <2>5
  <1>7. CASE Starts(LibraryIds)
    <2>1. /\ rec = NotRecording /\ started' = started + 1 /\ UNCHANGED <<storage, saved, deleted>>
          /\ rec' = [id |-> started + 1, snaps |-> <<>>, meta |-> Library!NoMeta]
      BY <1>7 DEF Starts
    <2>2. rec'.id = started + 1 /\ NotRecording.id = 0 BY <2>1 DEF NotRecording
    <2>3. rec' # NotRecording BY <1>1, <2>2
    <2>4. Newest' = started /\ Newest = started BY <1>1, <2>1, <2>3 DEF Newest
    <2>5. ids' = ids /\ shown' = shown BY <2>1
    <2>6. rec'.id = started' /\ started' >= 1 BY <1>1, <2>1, <2>2
    <2>7. NumbersOnce' BY <1>3, <2>1, <2>4, <2>5, <2>6 DEF NumbersOnce
    <2> QED BY <2>1, <2>7
  <1>8. CASE Captures(LibrarySnaps)
    <2> DEFINE snap == [equity |-> market.equity, trades |-> market.trades]
    <2>1. /\ rec # NotRecording /\ UNCHANGED <<storage, saved, started, deleted>>
          /\ rec' = [rec EXCEPT !.snaps = Append(rec.snaps, snap)]
      BY <1>8 DEF Captures
    <2>2. snap \in Snap
      BY DEF LibraryInv, LibraryRecordings, RecorderInv, RecorderTyped, MarketState, Snap
    <2> HIDE DEF snap
    <2>3. rec.snaps \in Seq(Snap) BY <1>1 DEF Running
    <2>4. Len(Append(rec.snaps, snap)) = Len(rec.snaps) + 1 /\ Len(rec.snaps) \in Nat BY <2>2, <2>3
    <2>5. rec'.id = rec.id /\ rec'.snaps = Append(rec.snaps, snap) BY <1>1, <2>1 DEF Running
    <2>6. Len(NotRecording.snaps) = 0 BY DEF NotRecording
    <2>7. rec' # NotRecording BY <2>4, <2>5, <2>6
    <2>8. Newest' = Newest BY <2>1, <2>7 DEF Newest
    <2>9. ids' = ids /\ shown' = shown BY <2>1
    <2>10. NumbersOnce' BY <1>3, <2>1, <2>5, <2>8, <2>9 DEF NumbersOnce
    <2> QED BY <2>1, <2>10
  <1>9. CASE Saves(LibraryMetas)
    <2>1. PICK done \in Rs : done.id = rec.id /\ Persists(FrontOf(done, saved), TRUE)
      BY <1>9 DEF Saves
    <2>2. recMounted /\ rec # NotRecording /\ rec' = NotRecording /\ UNCHANGED <<started, deleted>>
      BY <1>9 DEF Saves
    <2> DEFINE f == FrontOf(done, saved)
    <2>3. saved' = f /\ storage' \in {f, storage} /\ done.id = started
      BY <1>1, <1>3, <2>1, <2>2 DEF Persists
    <2> HIDE DEF Rs
    <2>4. /\ \A i \in DOMAIN f : f[i] = done \/ \E j \in DOMAIN saved : f[i] = saved[j]
          /\ Len(f) = MaxSaved \/ \A j \in DOMAIN saved : \E i \in DOMAIN f : f[i] = saved[j]
      <3>1. saved \in Seq(Rs) BY <1>1
      <3> QED BY ONLY <3>1, FrontFacts
    <2> HIDE DEF f
    <2>5. Library!IdsOf(f) \subseteq shown \cup {started} BY <2>3, <2>4 DEF Library!IdsOf
    <2>6. Len(f) = MaxSaved \/ shown \subseteq Library!IdsOf(f) BY <2>4 DEF Library!IdsOf
    <2>7. Newest = started - 1 /\ Newest' = started BY <2>2 DEF Newest
    <2>8. /\ started \notin 1 .. Newest /\ started \in 1 .. Newest'
          /\ \A i \in 1 .. Newest : i \in 1 .. Newest'
      BY <1>1, <1>3, <2>2, <2>7
    <2>9. shown' \subseteq shown \cup {started} /\ ids' \subseteq ids \cup shown \cup {started}
      BY <2>3, <2>5
    <2>10. NumbersOnce' BY <1>3, <2>2, <2>8, <2>9 DEF NumbersOnce
    <2>11. Stays
      <3>1. ~apart => shown = ids BY <1>1, <2>2
      <3> QED BY <2>3, <2>6, <3>1
    <2> QED BY <2>10, <2>11
  <1>10. CASE Deletes
    <2>1. PICK id \in Nat : /\ \E i \in DOMAIN saved : saved[i].id = id
                            /\ Persists(Library!Without(saved, id), TRUE)
                            /\ deleted' = IF apart' THEN deleted ELSE deleted \cup {id}
      BY <1>10 DEF Deletes
    <2>2. recMounted /\ UNCHANGED <<rec, started>> BY <1>10 DEF Deletes
    <2> DEFINE w == Library!Without(saved, id)
    <2>3. /\ saved' = w /\ id \in shown
          /\ (storage' = w /\ deleted' = deleted \cup {id}) \/ (storage' = storage /\ deleted' = deleted)
      BY <2>1 DEF Persists, Library!IdsOf
    <2> HIDE DEF Rs
    <2>4. /\ \A k \in DOMAIN w : \E j \in DOMAIN saved : w[k] = saved[j] /\ saved[j].id # id
          /\ \A j \in DOMAIN saved : saved[j].id # id => \E k \in DOMAIN w : w[k] = saved[j]
      <3>1. saved \in Seq(Rs) BY <1>1
      <3> QED BY ONLY <3>1, WithoutFacts
    <2> HIDE DEF w
    <2>5. Library!IdsOf(w) \subseteq shown \ {id} BY <2>4 DEF Library!IdsOf
    <2>6. shown \ {id} \subseteq Library!IdsOf(w) BY <2>4 DEF Library!IdsOf
    <2>7. Newest' = Newest BY <2>2 DEF Newest
    <2>8. shown' \subseteq shown \ {id} BY <2>3, <2>5
    <2>9. CASE storage' = w /\ deleted' = deleted \cup {id}
      <3>1. ids' \subseteq shown \ {id} BY <2>5, <2>9
      <3>2. NumbersOnce' BY <1>3, <2>2, <2>3, <2>7, <2>8, <2>9, <3>1 DEF NumbersOnce
      <3>3. ~apart => shown = ids BY <1>1, <2>2
      <3> QED BY <2>6, <2>9, <3>2, <3>3
    <2>10. CASE storage' = storage /\ deleted' = deleted
      <3>1. NumbersOnce' BY <1>3, <2>2, <2>7, <2>8, <2>10 DEF NumbersOnce
      <3> QED BY <2>10, <3>1
    <2> QED BY <2>3, <2>9, <2>10
  <1>11. CASE Imports(LibraryMetas) BY <1>2, <1>11 DEF Imports
  <1> QED BY <1>5, <1>6, <1>7, <1>8, <1>9, <1>10, <1>11 DEF RecorderMoves

LEMMA LibraryInit == Library!Init => LibraryInv /\ ImportRecordings
  <1> SUFFICES ASSUME Library!Init PROVE NumbersOnce BY RecorderInit DEF LibraryInv
  <1>1. rec = NotRecording /\ storage = <<>> /\ saved = <<>> /\ deleted = {} /\ started = 0
    BY DEF Library!Init, Library!NoRec, NotRecording
  <1> QED BY <1>1 DEF NumbersOnce, Library!IdsOf

LEMMA LibraryOwnStep ==
  ASSUME LibraryInv, Library!Next PROVE LibraryInv' /\ Library!RecordingsStay
  <1>1. LibraryRecordings' BY LibraryStep DEF LibraryInv
  <1>2. RecorderMoves(LibraryMetas, LibrarySnaps, LibraryIds, {}) BY LibraryMoves DEF LibraryInv
  <1> QED BY <1>1, <1>2, NumbersKept DEF LibraryInv

\* The invariants in the words of SessionRecorder.
LEMMA LibraryIsSound ==
  LibraryInv => /\ Library!TypeOK /\ Library!ListIsStored /\ Library!DeletedIsGone
                /\ Library!SeekInRange
  <1> SUFFICES ASSUME LibraryInv
               PROVE  /\ Library!TypeOK /\ Library!ListIsStored /\ Library!DeletedIsGone
                      /\ Library!SeekInRange
    OBVIOUS
  <1>1. /\ RecorderBooleans /\ PlaceExists
        /\ recMounted /\ ~apart => saved = storage
        /\ RecorderTyped(LibraryMetas, LibrarySnaps, LibraryIds, {})
    BY DEF LibraryInv, LibraryRecordings, RecorderInv
  <1>2. rec.id \in 0 .. LibraryIds BY <1>1 DEF RecorderTyped, Running
  <1>3. Library!TypeOK
    BY <1>1, <1>2 DEF Library!TypeOK, RecorderBooleans, RecorderTyped, PlaceExists
  <1>4. Library!DeletedIsGone BY DEF LibraryInv, NumbersOnce, Library!DeletedIsGone
  <1>5. Library!SeekInRange
    BY <1>1 DEF PlaceExists, Library!SeekInRange, NotRecording, Library!NoRec
  <1> QED BY <1>1, <1>3, <1>4, <1>5 DEF Library!ListIsStored

LEMMA ImportIsSound ==
  ImportRecordings => Import!TypeOK /\ Import!ListIsStored /\ Import!DrawnHasSummary
  <1> SUFFICES ASSUME ImportRecordings
               PROVE  Import!TypeOK /\ Import!ListIsStored /\ Import!DrawnHasSummary
    OBVIOUS
  <1>1. /\ RecorderBooleans /\ PlaceExists
        /\ recMounted /\ ~apart => saved = storage
        /\ RecorderTyped(ImportMetas, ImportSnaps, ImportIds, {"full"})
    BY DEF ImportRecordings, RecorderInv
  <1>2. rec.id \in 0 .. ImportIds BY <1>1 DEF RecorderTyped, Running
  <1>3. Import!TypeOK
    BY <1>1, <1>2 DEF Import!TypeOK, RecorderBooleans, RecorderTyped, PlaceExists
  <1>4. Import!DrawnHasSummary
    <2>1. SUFFICES ASSUME viewing # NotRecording PROVE viewing.meta # Import!NoMeta
      BY DEF Import!DrawnHasSummary, Import!Visible, Import!NoRec, Import!NoMeta, NotRecording,
         Library!NoMeta
    <2>2. viewing.meta \in ImportMetas BY <1>1, <2>1 DEF RecorderTyped, Recording
    <2>3. PICK s \in Seq(Snap) : viewing.meta = Import!Summary(s) BY <2>2 DEF ImportMetas
    <2>4. "trades" \in DOMAIN Import!Summary(s) BY DEF Import!Summary
    <2>5. "trades" \notin DOMAIN Import!NoMeta BY DEF Import!NoMeta
    <2> QED BY <2>3, <2>4, <2>5
  <1> QED BY <1>1, <1>3, <1>4 DEF Import!ListIsStored

-----------------------------------------------------------------------------
(***************************************************************************)
(* The parts together.  Whichever part is followed keeps its invariant.    *)
(***************************************************************************)
PartInv ==
  /\ part = "candles" => ChartInv
  /\ part = "results" => ResultsInv
  /\ part = "local" => LocalInv
  /\ part = "boundary" => BoundaryInv
  /\ part = "sidebar" => SidebarInv
  /\ part = "windows" => WindowsInv
  /\ part = "ticks" => ReplayInv(Ticks!HasData(feed))
  /\ part = "trades" => ReplayInv(Trades!HasData(feed))
  /\ part = "depth" => ReplayInv(Depth!HasData(feed))
  /\ part = "library" => LibraryInv
  /\ part = "import" => ImportRecordings

LEMMA PartInit == Init => PartInv
  <1> SUFFICES ASSUME Init PROVE PartInv OBVIOUS
  <1>1. ChartInv BY ChartInit DEF Init
  <1>2. part = "results" => ResultsInv BY ResultsInit DEF Init
  <1>3. part = "local" => LocalInv BY LocalInit DEF Init
  <1>4. BoundaryInv BY BoundaryInit DEF Init
  <1>5. SidebarInv BY SidebarInit DEF Init
  <1>6. WindowsInv BY WindowsInit DEF Init
  <1>7. part # "depth" => ReplayInv(Ticks!HasData(feed)) /\ ReplayInv(Trades!HasData(feed))
    BY TicksInit DEF Init
  <1>8. part = "depth" => ReplayInv(Depth!HasData(feed)) BY DepthInit DEF Init
  <1>9. part # "summary" => LibraryInv /\ ImportRecordings BY LibraryInit DEF Init
  <1> QED BY <1>1, <1>2, <1>3, <1>4, <1>5, <1>6, <1>7, <1>8, <1>9 DEF PartInv

\* A part that stands still keeps its invariant.
LEMMA ChartStill == ASSUME ChartInv, UNCHANGED candleVars PROVE ChartInv'
  <1>1. UNCHANGED <<mounted, errorPage, symbol, candles, active, customs, markers, chart, rsiChart,
                    linked, drawn>>
    BY DEF candleVars
  <1>2. ChartBooleans' BY <1>1, Zenon DEF ChartInv, ChartBooleans
  <1>3. Chart!DrawnIsWanted' /\ Chart!NoChartLeaks'
    BY <1>1 DEF ChartInv, Chart!DrawnIsWanted, Chart!NoChartLeaks
  <1> QED BY <1>1, <1>2, <1>3 DEF ChartInv, ChartTyped

LEMMA ResultsStill == ASSUME ResultsInv, UNCHANGED resultVars PROVE ResultsInv'
  BY DEF resultVars, ResultsInv, ResultTables

LEMMA LocalStill == ASSUME LocalInv, UNCHANGED resultVars PROVE LocalInv'
  BY DEF resultVars, LocalInv

LEMMA BoundaryStill == ASSUME BoundaryInv, UNCHANGED boundaryVars PROVE BoundaryInv'
  BY DEF boundaryVars, BoundaryInv, Boundary!TypeOK, Boundary!OuterReplacesInner, RetriesCounted

LEMMA SidebarStill ==
  ASSUME SidebarInv, UNCHANGED sidebarVars PROVE SidebarInv' /\ Sidebar!ReloadShowsSame
  <1>1. SidebarInv'
    BY DEF sidebarVars, SidebarInv, Sidebar!TypeOK, Sidebar!Enabled
  <1>2. Sidebar!ReloadShowsSame BY DEF sidebarVars, Sidebar!ReloadShowsSame
  <1> QED BY <1>1, <1>2

LEMMA WindowsStill == ASSUME WindowsInv, UNCHANGED windowVars PROVE WindowsInv'
  BY DEF windowVars, WindowsInv, WindowsTyped, Owned, FedWithDrawn

LEMMA ReplayStill ==
  ASSUME UNCHANGED replayVars
  PROVE  /\ ReplayInv(Ticks!HasData(feed)) => ReplayInv(Ticks!HasData(feed))'
         /\ ReplayInv(Trades!HasData(feed)) => ReplayInv(Trades!HasData(feed))'
         /\ ReplayInv(Depth!HasData(feed)) => ReplayInv(Depth!HasData(feed))'
  <1>1. UNCHANGED <<feed, position, playing, interval, armed, quiet>> BY DEF replayVars
  <1>2. ReplayTyped => ReplayTyped' BY <1>1, Zenon DEF ReplayTyped
  <1> QED BY <1>1, <1>2, Zenon DEF ReplayInv, RunsWhile

LEMMA RecorderStill ==
  ASSUME UNCHANGED recorderVars
  PROVE  /\ LibraryInv => LibraryInv' /\ Library!RecordingsStay
         /\ ImportRecordings => ImportRecordings'
  <1>1. UNCHANGED <<market, rec, saved, storage, picked, viewing, seekIdx, isPlaying, recMounted,
                    started, apart, deleted>>
    BY DEF recorderVars
  <1>2. ASSUME NEW M, NEW S, NEW I, NEW F, RecorderInv(M, S, I, F) PROVE RecorderInv(M, S, I, F)'
    BY <1>1, <1>2, Zenon DEF RecorderInv, RecorderBooleans, RecorderTyped, PlaceExists
  <1>3. LibraryRecordings => LibraryRecordings' BY <1>2, Zenon DEF LibraryRecordings
  <1>4. ImportRecordings => ImportRecordings' BY <1>2, Zenon DEF ImportRecordings
  <1>5. NumbersOnce => NumbersOnce' BY <1>1, Zenon DEF NumbersOnce, Newest, Library!IdsOf
  <1>6. Library!RecordingsStay BY <1>1 DEF Library!RecordingsStay, Library!IdsOf
  <1> QED BY <1>3, <1>4, <1>5, <1>6 DEF LibraryInv

LEMMA PartStep ==
  ASSUME PartInv, [Next]_vars
  PROVE  /\ PartInv'
         /\ part = "sidebar" => Sidebar!ReloadShowsSame
         /\ part = "library" => Library!RecordingsStay
  <1>1. part' = part BY DEF Next, vars
  <1>2. CASE part = "candles"
    <2>1. ChartInv /\ (Chart!Next \/ UNCHANGED candleVars) BY <1>2 DEF Next, vars, PartInv
    <2>2. ChartInv' BY <2>1, ChartStep, ChartStill
    <2> QED BY <1>1, <1>2, <2>2 DEF PartInv
  <1>3. CASE part = "results"
    <2>1. ResultsInv /\ (Results!Next \/ UNCHANGED resultVars) BY <1>3 DEF Next, vars, PartInv
    <2>2. ResultsInv' BY <2>1, ResultsStep, ResultsStill
    <2> QED BY <1>1, <1>3, <2>2 DEF PartInv
  <1>4. CASE part = "local"
    <2>1. LocalInv /\ (Local!Next \/ UNCHANGED resultVars) BY <1>4 DEF Next, vars, PartInv
    <2>2. LocalInv' BY <2>1, LocalStep, LocalStill
    <2> QED BY <1>1, <1>4, <2>2 DEF PartInv
  <1>5. CASE part = "boundary"
    <2>1. BoundaryInv /\ (Boundary!Next \/ UNCHANGED boundaryVars) BY <1>5 DEF Next, vars, PartInv
    <2>2. BoundaryInv' BY <2>1, BoundaryStep, BoundaryStill
    <2> QED BY <1>1, <1>5, <2>2 DEF PartInv
  <1>6. CASE part = "sidebar"
    <2>1. SidebarInv /\ (Sidebar!Next \/ UNCHANGED sidebarVars) BY <1>6 DEF Next, vars, PartInv
    <2>2. SidebarInv' /\ Sidebar!ReloadShowsSame BY <2>1, SidebarStep, SidebarStill
    <2> QED BY <1>1, <1>6, <2>2 DEF PartInv
  <1>7. CASE part = "windows"
    <2>1. WindowsInv /\ (Windows!Next \/ UNCHANGED windowVars) BY <1>7 DEF Next, vars, PartInv
    <2>2. WindowsInv' BY <2>1, WindowsStep, WindowsStill
    <2> QED BY <1>1, <1>7, <2>2 DEF PartInv
  <1>8. CASE part = "ticks"
    <2>1. ReplayInv(Ticks!HasData(feed)) /\ (Ticks!Next \/ UNCHANGED replayVars) BY <1>8 DEF Next, vars, PartInv
    <2>2. ReplayInv(Ticks!HasData(feed))' BY <2>1, TicksStep, ReplayStill
    <2> QED BY <1>1, <1>8, <2>2 DEF PartInv
  <1>9. CASE part = "trades"
    <2>1. ReplayInv(Trades!HasData(feed)) /\ (Trades!Next \/ UNCHANGED replayVars) BY <1>9 DEF Next, vars, PartInv
    <2>2. ReplayInv(Trades!HasData(feed))' BY <2>1, TradesStep, ReplayStill
    <2> QED BY <1>1, <1>9, <2>2 DEF PartInv
  <1>10. CASE part = "depth"
    <2>1. ReplayInv(Depth!HasData(feed)) /\ (Depth!Next \/ UNCHANGED replayVars) BY <1>10 DEF Next, vars, PartInv
    <2>2. ReplayInv(Depth!HasData(feed))' BY <2>1, DepthStep, ReplayStill
    <2> QED BY <1>1, <1>10, <2>2 DEF PartInv
  <1>11. CASE part = "library"
    <2>1. LibraryInv /\ (Library!Next \/ UNCHANGED recorderVars) BY <1>11 DEF Next, vars, PartInv
    <2>2. LibraryInv' /\ Library!RecordingsStay BY <2>1, LibraryOwnStep, RecorderStill
    <2> QED BY <1>1, <1>11, <2>2 DEF PartInv
  <1>12. CASE part = "import"
    <2>1. ImportRecordings /\ (Import!Next \/ UNCHANGED recorderVars) BY <1>12 DEF Next, vars, PartInv
    <2>2. ImportRecordings' BY <2>1, ImportStep, RecorderStill
    <2> QED BY <1>1, <1>12, <2>2 DEF PartInv
  <1>13. CASE part \notin {"candles", "results", "local", "boundary", "sidebar", "windows", "ticks",
                          "trades", "depth", "library", "import"}
    BY <1>1, <1>13 DEF PartInv
  <1> QED
    BY <1>2, <1>3, <1>4, <1>5, <1>6, <1>7, <1>8, <1>9, <1>10, <1>11, <1>12, <1>13

\* Every behaviour of the page keeps it.
THEOREM PartsAreSound == Spec => []PartInv
  <1>1. PartInv /\ [Next]_vars => PartInv' BY PartStep
  <1> QED BY PartInit, <1>1, PTL DEF Spec

(***************************************************************************)
(* What is on the screen is current, for every set of symbols, lines,      *)
(* curves, panels and equities and every bound: the chart draws what is    *)
(* wanted (CandleChart.jsx), a result chart the last result                *)
(* (StrategyBacktest.jsx, ComparisonChart, PerfAreaChart), a failed panel  *)
(* is retried as often as promised (ChunkRetryBoundary.jsx), windows are   *)
(* fed and closed with the page (DetachablePanel.jsx), a replay's interval *)
(* runs exactly while it plays, and the recorder lists what is stored      *)
(* (useSessionRecorder.ts).                                                *)
(***************************************************************************)
THEOREM ScreenIsCurrent == Spec => []DrawnIsCurrent
  <1>1. PartInv => DrawnIsCurrent
    <2>1. /\ part = "candles" /\ PartInv =>
               Chart!TypeOK /\ Chart!DrawnIsWanted /\ Chart!NoChartLeaks
          /\ part = "results" /\ PartInv => Results!ResultDrawn /\ Results!NeverThrows
          /\ part = "local" /\ PartInv => Local!ResultIsOfClick
      BY ChartIsSound, ResultsAreSound DEF PartInv, LocalInv, Local!ResultIsOfClick
    <2>2. /\ part = "boundary" /\ PartInv =>
               Boundary!TypeOK /\ Boundary!RetriesBounded /\ Boundary!OuterReplacesInner
          /\ part = "sidebar" /\ PartInv => Sidebar!TypeOK
          /\ part = "windows" /\ PartInv =>
               Windows!TypeOK /\ Windows!FedWhenRendered /\ Windows!ClosedWithPage
      BY BoundaryIsSound, WindowsAreSound DEF PartInv, SidebarInv
    <2>3. /\ part = "ticks" /\ PartInv =>
               Ticks!TypeOK /\ Ticks!IntervalIffPlaying /\ Ticks!ShownExists
          /\ part = "trades" /\ PartInv => Trades!TypeOK /\ Trades!IntervalIffPlaying
          /\ part = "depth" /\ PartInv => Depth!TypeOK /\ Depth!IntervalIffPlaying
      BY ReplaysAreSound DEF PartInv
    <2>4. /\ part = "library" /\ PartInv =>
               /\ Library!TypeOK /\ Library!ListIsStored /\ Library!DeletedIsGone
               /\ Library!SeekInRange
          /\ part = "import" /\ PartInv =>
               Import!TypeOK /\ Import!ListIsStored /\ Import!DrawnHasSummary
      BY LibraryIsSound, ImportIsSound DEF PartInv
    <2> QED BY <2>1, <2>2, <2>3, <2>4 DEF DrawnIsCurrent
  <1> QED BY PartsAreSound, <1>1, PTL

(***************************************************************************)
(* Two of the promises of PastStands: a saved recording stays until it is  *)
(* deleted or pushed out by a full list (persistRecordings of              *)
(* useSessionRecorder.ts), and a reload shows the sidebar as it was once   *)
(* the effect has written it (useLocalStorage.ts).                         *)
(***************************************************************************)
THEOREM WhatIsStoredStays ==
  Spec => /\ [][part = "library" => Library!RecordingsStay]_vars
          /\ [][part = "sidebar" => Sidebar!ReloadShowsSame]_vars
  <1> DEFINE Kept == part = "library" => Library!RecordingsStay
             Same == part = "sidebar" => Sidebar!ReloadShowsSame
  <1>1. PartInv /\ [Next]_vars => Kept BY PartStep
  <1>2. PartInv /\ [Next]_vars => Same BY PartStep
  <1>3. Spec => [][Next]_vars BY DEF Spec
  <1> HIDE DEF Kept, Same
  <1>4. Spec => [][Kept]_vars /\ [][Same]_vars BY PartsAreSound, <1>1, <1>2, <1>3, PTL
  <1> QED BY <1>4 DEF Kept, Same
=============================================================================
