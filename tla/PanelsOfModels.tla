--------------------------- MODULE PanelsOfModels ---------------------------
(***************************************************************************)
(* The panels of stochastic models, risk, sampling, transport, control and *)
(* estimation, and those of topology, information geometry and function    *)
(* spaces: what they read and divide by (see PanelReads), as functions of  *)
(* the number n of candles and of two of their inputs.  For panels over    *)
(* several symbols the second number stands for the symbols that have      *)
(* enough candles; inputs that only size independent loops range over      *)
(* accepted values.                                                        *)
(***************************************************************************)
EXTENDS PanelReads

\* finalPrices[Math.floor(len * pct / 100)], a percentile of a sorted list.
Percentile(len, pct) == Span((len * pct) \div 100, (len * pct) \div 100, len)

-----------------------------------------------------------------------------
(* BayesianPricePredictor: lookback L; prior strength s. *)

\* Run lengths: return t against the window of the current run before it.
BayesRuns(r) == {Span(0, r - 2, r), Span(1, r - 1, r)}

\* Regression rows: two lags and the window before return i, label i + 1.
BayesRows(r, L) == Most(0, r - 1 - L)

BayesRowReads(r, L) ==
  LET rows == BayesRows(r, L)
  IN IF rows = 0 THEN {}
     ELSE {Span(L - 2, L + rows - 2, r), Span(L - Least(14, L), L + rows - 2, r), Span(L + 1, L + rows, r)}

\* bayesianRidge: with fewer than 5 rows every weight is 0.
BayesRidge(rows, d) == IF rows < 5 THEN {} ELSE {FirstOf(rows), All(rows), All(d)}

\* The next return is predicted from the lags and the window before the last.
BayesNext(r) == {Span(r - 3, r - 2, r), Span(Most(0, (r - 1) - 14), r - 2, r)}

BayesView(rows) == [reads |-> {All(Least(50, rows))}, divs |-> {Most(1, Least(50, rows) - 1), 100, 200}]

Bayes(n, L, s) ==
  LET r == n - 1  rows == BayesRows(r, L)
  IN IF n < 30 THEN Placeholder(30)
     ELSE Drawn(30, BayesRuns(r) \cup BayesRowReads(r, L) \cup BayesRidge(rows, 5) \cup BayesNext(r)
                    \cup BayesView(rows).reads \cup {LastOf(n)},
                {r, s + (n - 1), Least(L, r - 1)} \cup (IF rows > 0 THEN {L, rows} ELSE {}) \cup BayesView(rows).divs)

-----------------------------------------------------------------------------
(* StochasticDifferentialEquations: paths P of 100 steps. *)

\* Each scheme appends point i from point i - 1, so a path has `steps` points.
SdePath(steps) == {Span(0, steps - 2, steps)}

\* The regression of each return on the one before.
SdeEstimate(r) == {Span(0, r - 2, r), Span(1, (r - 2) + 1, r)}

SdeView(P, steps) == {All(Least(30, P)), All(Least(20, P)), All(steps)}

Sde(n, P) ==
  LET r == n - 1  steps == 100
  IN IF n < 30 THEN Placeholder(30)
     ELSE Drawn(30, SdeEstimate(r) \cup SdePath(steps) \cup {LastOf(n), LastOf(steps), All(P)} \cup SdeView(P, steps)
                    \cup {Percentile(P, pct) : pct \in {5, 25, 50, 75, 95}},
                {r, P, steps})

-----------------------------------------------------------------------------
(* ConditionalValueAtRisk: lookback L, S symbols; alpha at 0.5, 0.95, 0.99. *)

\* The value at risk is the element below which the tail lies; the tail
\* includes it and is never empty.
CvarTail(T, pct) == {Span(0, (T * (100 - pct)) \div 100, T)}

\* Projected gradient on the weights of the assets.
CvarOptimize(T, S) == {FirstOf(S), All(S), All(T)}

CvarView(S) == {All(S)}

Cvar(n, L, S) ==
  IF n < L + 1 \/ S < 2 THEN Placeholder(L + 1)
  ELSE Drawn(L + 1, CvarOptimize(L, S) \cup CvarView(S) \cup UNION {CvarTail(L, pct) : pct \in {50, 95, 99}}, {S, L})

-----------------------------------------------------------------------------
(* HawkesProcess: simulation horizon H; e of the moves are significant.     *)

\* The likelihood and the inter-arrival times walk over consecutive events.
HawkesEvents(e) == {All(e), Span(0, (e - 1) - 1, e), Span(1, e - 1, e)}

\* Intensity is sampled at most about 200 times; the last sample is current.
HawkesSamples(T) == LET step == Most(1, T \div 200) IN (T - 1) \div step + 1

\* Ten bins of inter-arrival times, the largest clamped into the last one.
HawkesView(bins) == {Span(0, Least(9, bins), bins)}

Hawkes(n, H, e) ==
  LET events == Least(e, n - 1)
  IN IF n < 30 \/ events < 5 THEN Placeholder(30)
     ELSE Drawn(30, HawkesEvents(events) \cup {LastOf(HawkesSamples(n)), Span(0, n - 1, n)} \cup HawkesView(10),
                {events - 1, n})

-----------------------------------------------------------------------------
(* MarkovSwitchingGARCH: lookback L, R regimes. *)

\* Every candidate has the parameters of two regimes.
MsRegimes == 2
MsFilter(r, R) == {Span(0, R - 1, MsRegimes), All(r), Span(0, r - 2, r), All(R)}

MsView(r, R) == {All(r), LastOf(r), Span(0, R - 1, MsRegimes)}

MsGarch(n, L, R) ==
  IF n < L + 1 THEN Placeholder(L + 1)
  ELSE Drawn(L + 1, MsFilter(L, R) \cup MsView(L, R) \cup {FirstOf(L), LastOf(L)}, {L, R})

-----------------------------------------------------------------------------
(* RoughVolatility: P paths of 50 steps. *)

\* Covariance, its Cholesky factor, and the noise of row i from columns 0..i.
RoughNoise(n) == {All(n), Span(0, n - 1, n)}

\* Volatility and price of step t from step t - 1 and noise t.
RoughPath(steps) == {Span(0, steps - 1, steps), Span(0, (steps - 1) - 1, steps)}

\* Scales with at least four blocks of returns.
RoughHurst(r) == UNION {{Span(0, ((r - scale - 1) \div scale) * scale + scale - 1, r)} : scale \in {s \in {1, 2, 5, 10, 20} : r >= 4 * s}}
RoughBlocks(r) == {(r - scale - 1) \div scale + 1 : scale \in {s \in {1, 2, 5, 10, 20} : r >= 4 * s}}

RoughView(P, steps) == {All(Least(20, P)), All(steps)}

Rough(n, P) ==
  LET r == n - 1  steps == 50
  IN IF n < 40 THEN Placeholder(40)
     ELSE Drawn(40, RoughNoise(steps) \cup RoughPath(steps) \cup RoughHurst(r) \cup {LastOf(n), LastOf(steps)}
                    \cup {Percentile(P, 5), Percentile(P, 95)} \cup RoughView(P, steps),
                {r, Least(30, r), P, steps} \cup RoughBlocks(r))

-----------------------------------------------------------------------------
(* KellyCriterion: lookback L, S symbols. *)

\* The rotations of jacobiEig and the inverse from its eigenvectors.
KellyInverse(S) == {Span(0, S - 1, S), All(S)}
KellyMulti(T, S) == {FirstOf(S), All(T), All(S)}

\* 500 simulated years: median and percentiles of the final wealth.
KellySimulate(sims) == {Percentile(sims, 50), Percentile(sims, 5), Percentile(sims, 95), FirstOf(252)}

KellyView(S) == {All(S), All(252)}

Kelly(n, L, S) ==
  IF n < L + 1 \/ S < 2 THEN Placeholder(L + 1)
  ELSE Drawn(L + 1, KellyMulti(L, S) \cup KellyInverse(S) \cup KellySimulate(500) \cup KellyView(S), {L, L - 1, 500})

-----------------------------------------------------------------------------
(* OptimalStopping: N steps, P paths; it needs no candles.                   *)

\* Backward induction: node j of a step reads nodes j and j + 1 of the next.
StoppingTree(N) == {Span(0, step + 1, step + 2) : step \in {0, 1, N - 1}} \cup {All(N), FirstOf(1)}

\* Paths have N + 1 points; the regression runs on 3 or more in the money.
StoppingPaths(N) == {Span(0, N, N + 1), Span(0, N - 1, N + 1)}

StoppingView(N) == [reads |-> {All(N + 1)}, divs |-> {N}]

Stopping(N, P) ==
  Drawn(0, StoppingTree(N) \cup StoppingPaths(N) \cup {All(P), All(3)} \cup StoppingView(N).reads,
        {N, P} \cup StoppingView(N).divs)

-----------------------------------------------------------------------------
(* RandomMatrixTheory: lookback L, S symbols. *)

RmtEigen(S) == {Span(0, S - 1, S)}
RmtClean(S) == {All(S)}
RmtView(S) == {All(S), FirstOf(S)}

Rmt(n, L, S) ==
  IF n < L + 1 \/ S < 3 THEN Placeholder(L + 1)
  ELSE Drawn(L + 1, RmtEigen(S) \cup RmtClean(S) \cup RmtView(S) \cup {FirstOf(S), All(L)}, {L, S})

-----------------------------------------------------------------------------
(* HamiltonianMonteCarlo: N samples, the first B of them burnt; lookback 100. *)

HmcStep(q) == {All(q), Span(0, q - 1, 3)}

\* Samples kept after the burn-in.
HmcKept(N, B) == Most(0, N - B)
HmcStats(kept) == {Percentile(kept, pct) : pct \in {2, 25, 50, 75, 97}}

\* The last log posterior is printed.
HmcView(kept) == {LastOf(kept), All(3)}

Hmc(n, N, B) ==
  LET kept == HmcKept(N, B)
  IN IF n < 101 THEN Placeholder(101)
     ELSE Drawn(101, HmcStep(3) \cup HmcStats(kept) \cup HmcView(kept), {kept, N - B})

-----------------------------------------------------------------------------
(* BayesianStructuralTimeSeries: lookback L, seasonal period p. *)

\* Level, slope and p - 1 seasonal states: the shift below the diagonal, the
\* observation of level and first season.
BstsState(p) == LET dim == 2 + (p - 1) IN {Span(0, 1, dim), Span(3, (dim - 2) + 1, dim), Span(2, 2, dim), All(dim)}

\* Forecasts are drawn from the last price on.
BstsView(L) ==
  LET all == L + 10 IN [reads |-> {Span(L - 1, L - 1 + 9, all), All(L), FirstOf(10)}, divs |-> {all - 1}]

Bsts(n, L, p) ==
  IF n < L + 1 THEN Placeholder(L + 1)
  ELSE Drawn(L + 1, BstsState(p) \cup {FirstOf(L), LastOf(L), All(L)} \cup BstsView(L).reads, BstsView(L).divs)

-----------------------------------------------------------------------------
(* MalliavinCalculus: P paths of N steps. *)

\* A path has N points, the weight is taken at point N - 1.
MalliavinPaths(N) == {Span(N - 1, N - 1, 1 + (N - 1)), LastOf(N)}
MalliavinGreeks(P, N) == {Span(N - 1, N - 1, N), All(P)}

\* Estimates from the first 100, 200, ... paths: at least one.
MalliavinConvergence(P) == (P - 100) \div Most(50, P \div 10) + 1

MalliavinView(c) == {All(c)}

Malliavin(n, P, N) ==
  LET r == Least(50, n) - 1
  IN IF n < 30 THEN Placeholder(30)
     ELSE Drawn(30, {LastOf(Least(50, n)), FirstOf(MalliavinConvergence(P))} \cup MalliavinPaths(N)
                    \cup MalliavinGreeks(P, N) \cup MalliavinView(MalliavinConvergence(P)),
                {r, N, P})

-----------------------------------------------------------------------------
StochasticPanels == {"Bayes", "Sde", "Cvar", "Hawkes", "MsGarch", "Rough", "Kelly", "Stopping", "Rmt", "Hmc",
                     "Bsts", "Malliavin"}

StochasticPanel(p, n, x, y) ==
  CASE p = "Bayes" -> Bayes(n, x, y)
    [] p = "Sde" -> Sde(n, x)
    [] p = "Cvar" -> Cvar(n, x, y)
    [] p = "Hawkes" -> Hawkes(n, x, y)
    [] p = "MsGarch" -> MsGarch(n, x, y)
    [] p = "Rough" -> Rough(n, x)
    [] p = "Kelly" -> Kelly(n, x, y)
    [] p = "Stopping" -> Stopping(x, y)
    [] p = "Rmt" -> Rmt(n, x, y)
    [] p = "Hmc" -> Hmc(n, x, y)
    [] p = "Bsts" -> Bsts(n, x, y)
    [] p = "Malliavin" -> Malliavin(n, x, y)

StochasticDefault(p) ==
  CASE p = "Bayes" -> <<20, 10>> [] p = "Sde" -> <<50, 0>> [] p = "Cvar" -> <<100, 3>>
    [] p = "Hawkes" -> <<100, 10>> [] p = "MsGarch" -> <<100, 2>> [] p = "Rough" -> <<50, 0>>
    [] p = "Kelly" -> <<50, 3>> [] p = "Stopping" -> <<50, 1000>> [] p = "Rmt" -> <<100, 3>>
    [] p = "Hmc" -> <<500, 100>> [] p = "Bsts" -> <<100, 7>> [] p = "Malliavin" -> <<1000, 50>>

StochasticAccept(p, x, y) ==
  CASE p = "Bayes" -> <<Most(5, x), Most(1, y)>>
    [] p \in {"Sde", "Rough"} -> <<Most(10, x), 0>>
    [] p = "Cvar" -> <<Most(30, x), y>>
    [] p = "Hawkes" -> <<Most(10, x), y>>
    [] p = "MsGarch" -> <<Most(50, x), Clamp(2, 4, y)>>
    [] p = "Kelly" -> <<Most(20, x), y>>
    [] p = "Stopping" -> <<Most(10, x), Most(100, y)>>
    [] p = "Rmt" -> <<Most(50, x), y>>
    [] p = "Hmc" -> <<Most(100, x), Most(0, y)>>
    [] p = "Bsts" -> <<Most(30, x), Most(2, y)>>
    [] p = "Malliavin" -> <<Most(100, x), Most(10, y)>>

-----------------------------------------------------------------------------
(* Panels of transport, control and estimation.  Inputs that only size       *)
(* independent loops range over accepted values; a random sample has the     *)
(* size the input gives it.                                                  *)

\* Steps of a loop from `from` to `to` in strides.
Strides(from, to, stride) == IF from > to THEN 0 ELSE (to - from) \div stride + 1

-----------------------------------------------------------------------------
(* SchrodingerBridge: lookback L, window W; 4 to 20 bins. *)

\* quantize clamps every value into one of the bins.
BridgeQuantize(len, bins) == [reads |-> {Span(0, bins - 1, bins)}, divs |-> {len, bins}]

\* Sinkhorn scales the rows and the columns of the square kernel.
BridgeSinkhorn(bins) == {FirstOf(bins), All(bins)}

\* Pairs of adjacent windows of the returns.
BridgePairs(r, W) == Strides(0, r - 2 * W, Most(5, W \div 4))
BridgeSliding(r, W) ==
  LET k == BridgePairs(r, W) IN IF k = 0 THEN {} ELSE {Span(0, (k - 1) * Most(5, W \div 4) + 2 * W - 1, r)}

\* The transport plan, both histograms and one point per pair of windows.
BridgeView(k, bins) == [reads |-> {All(bins), All(k)}, divs |-> {bins} \cup (IF k = 0 THEN {} ELSE {k})]

Bridge(n, L, W) ==
  LET r == L - 1  half == r \div 2  B == {4, 20}
  IN IF n < L + 1 THEN Placeholder(L + 1)
     ELSE Drawn(L + 1, (UNION {BridgeQuantize(half, b).reads \cup BridgeSinkhorn(b) \cup BridgeView(BridgePairs(r, W), b).reads : b \in B})
                       \cup {Span(0, half - 1, r), Span(half, r - 1, r)} \cup BridgeSliding(r, W),
                UNION {BridgeQuantize(half, b).divs \cup BridgeQuantize(r - half, b).divs \cup BridgeQuantize(W, b).divs
                       \cup BridgeView(BridgePairs(r, W), b).divs : b \in B})

-----------------------------------------------------------------------------
(* BlackLitterman: lookback L, S symbols with enough candles; views are for  *)
(* three assets when the panel opens.                                        *)

\* Only views with one weight per symbol count.
Views(S, K) == IF S = 3 THEN K ELSE 0

\* The inverse sums over the eigenvectors of a square matrix.
BlInverse(k) == {All(k)}

\* Means, covariances and equal market weights.
BlMarket(T, S) == [reads |-> {All(T), FirstOf(S), All(S)}, divs |-> {T, T - 1, S}]

\* K views: P is K by S, its transpose S by K; nothing of it without views.
BlPosterior(S, K) == IF K = 0 THEN {} ELSE {FirstOf(K), All(K), All(S)} \cup BlInverse(K) \cup BlInverse(S)

BlView(S, K) == {All(S), All(K)}

BlackLitterman(n, L, S) ==
  IF n < L + 1 \/ S < 2 THEN Placeholder(L + 1)
  ELSE Drawn(L + 1, {Span(n - L - 1, n - 1, n)} \cup BlMarket(L, S).reads
                    \cup UNION {BlPosterior(S, Views(S, K)) \cup BlView(S, K) : K \in 0..2},
             BlMarket(L, S).divs)

-----------------------------------------------------------------------------
(* RenormalizationGroup: lookback L, largest scale M. *)

\* Sums of blocks of s returns, whole blocks only; a scale with too few blocks counts as 0.
RgBlocks(r, s) == r \div s
RgScale(r, s) == [reads |-> {Span(0, RgBlocks(r, s) * s - 1, r)},
                  divs |-> IF RgBlocks(r, s) < 2 THEN {} ELSE {RgBlocks(r, s)}]

\* Autocorrelation of the blocks up to lag 19, zero where the lag leaves fewer than two.
RgAcf(b) == {Span(lag, b - 1, b) : lag \in {g \in 1..19 : b >= g + 2}}

\* The exponent is fitted over all the scales; fixed points look at both neighbours.
RgFlow(M) == [reads |-> {All(M), Span(0, M - 1, M)}, divs |-> {M}]

\* The horizontal axis is logarithmic: it divides by log M, which is 0 for M = 1.
RgView(M) == [reads |-> {FirstOf(M), All(M), FirstOf(Least(10, M))}, divs |-> {M - 1}]

Renormalization(n, L, M) ==
  LET r == L - 1
  IN IF n < L + 1 THEN Placeholder(L + 1)
     ELSE Drawn(L + 1, (UNION {RgScale(r, s).reads \cup RgAcf(RgBlocks(r, s)) : s \in 1..M})
                       \cup RgFlow(M).reads \cup RgView(M).reads,
                (UNION {RgScale(r, s).divs : s \in 1..M}) \cup RgFlow(M).divs \cup RgView(M).divs)

-----------------------------------------------------------------------------
(* FokkerPlanckEquation: lookback L, horizon; 50 or more steps.              *)

FokkerGrid == 80

\* Inner points use both neighbours; a snapshot every twentieth of the steps.
FokkerEvery(steps) == Most(1, steps \div 20)
FokkerHistory(steps) == 1 + Strides(0, steps - 1, FokkerEvery(steps))
FokkerSolve == [reads |-> {Span(0, FokkerGrid - 1, FokkerGrid)}, divs |-> {FokkerGrid - 1}]

\* The snapshot taken as the forecast, and the steps that lead to snapshot k.
FokkerForecast(steps, horizon) == Least(FokkerHistory(steps) - 1, (horizon * steps) \div 20)
FokkerStepsOf(steps, k) == IF k = 0 THEN 0 ELSE (k - 1) * FokkerEvery(steps) + 1

FokkerView(h) == [reads |-> {All(h), LastOf(FokkerGrid)}, divs |-> {h, FokkerGrid - 1}]

Fokker(n, L, horizon) ==
  LET r == L - 1
  IN IF n < L + 1 THEN Placeholder(L + 1)
     ELSE Drawn(L + 1, {LastOf(r), Span(1, r - 1, r)} \cup FokkerSolve.reads
                       \cup UNION {LET h == FokkerHistory(steps)  k == FokkerForecast(steps, horizon)
                                   IN {Span(k, k, h)} \cup FokkerView(h).reads : steps \in {50, 59, 200}},
                {r, r - 1} \cup FokkerSolve.divs \cup FokkerView(FokkerHistory(200)).divs)

-----------------------------------------------------------------------------
(* MalliavinSteinSensitivity: nSims samples; the lookback is 100.            *)

\* The estimates and their errors are means over the samples.
GreeksOf(sims) == {sims}

GreeksView(strikes) == [reads |-> {All(strikes)}, divs |-> {strikes}]

Greeks(n, sims) ==
  LET r == 99
  IN IF n < 101 THEN Placeholder(101)
     ELSE Drawn(101, {LastOf(100)} \cup GreeksView(9).reads,
                {r} \cup GreeksOf(sims) \cup GreeksOf(Least(5000, sims)) \cup GreeksView(9).divs)

-----------------------------------------------------------------------------
(* CramerRaoBound: lookback L. *)

\* Three parameters perturbed alone and in pairs, and the inverse of the 3 by 3 matrix.
FisherGarch == {Span(0, 2, 3), Span(1, 2, 3)}
Invert3x3 == {All(3)}

\* Sample sizes from 10 on; the axis ends at the last.
CramerSizes(r) == Strides(10, r, Most(5, r \div 15))
CramerView(k) == [reads |-> {LastOf(k), All(k), All(3)}, divs |-> {k}]

Cramer(n, L) ==
  LET r == L - 1
  IN IF n < L + 1 THEN Placeholder(L + 1)
     ELSE Drawn(L + 1, FisherGarch \cup Invert3x3 \cup CramerView(CramerSizes(r)).reads,
                {r, r - 1} \cup CramerView(CramerSizes(r)).divs)

-----------------------------------------------------------------------------
(* StochasticOptimalControl: lookback L, T time steps; 20 or more grid points. *)

\* Backwards from the last of T + 1 times; inner points use both neighbours.
HjbSolve(T, X) == [reads |-> {Span(0, T, T + 1), Span(0, X - 1, X)}, divs |-> {X - 1, T}]

\* The index of the wealth is kept to the inner points.
HjbWealth(X) == {Span(1, X - 2, X)}
HjbSlices(T) == {Span(i, i, T + 1) : i \in {0, T \div 3, (2 * T) \div 3, T - 1}}

HjbView(T, X) == [reads |-> {FirstOf(T + 1), LastOf(X), All(T)}, divs |-> {T}]

Hjb(n, L, T) ==
  LET r == L - 1
  IN IF n < L + 1 THEN Placeholder(L + 1)
     ELSE Drawn(L + 1, (UNION {HjbSolve(T, X).reads \cup HjbWealth(X) \cup HjbView(T, X).reads : X \in {20, 50}}) \cup HjbSlices(T),
                {r} \cup HjbSolve(T, 20).divs \cup HjbView(T, 20).divs)

-----------------------------------------------------------------------------
ControlPanels == {"Bridge", "BlackLitterman", "Renorm", "Fokker", "Greeks", "Cramer", "Hjb"}

ControlPanel(p, n, x, y) ==
  CASE p = "Bridge" -> Bridge(n, x, y)
    [] p = "BlackLitterman" -> BlackLitterman(n, x, y)
    [] p = "Renorm" -> Renormalization(n, x, y)
    [] p = "Fokker" -> Fokker(n, x, y)
    [] p = "Greeks" -> Greeks(n, x)
    [] p = "Cramer" -> Cramer(n, x)
    [] p = "Hjb" -> Hjb(n, x, y)

ControlDefault(p) ==
  CASE p = "Bridge" -> <<120, 30>> [] p = "BlackLitterman" -> <<50, 3>> [] p = "Renorm" -> <<200, 20>>
    [] p = "Fokker" -> <<100, 10>> [] p = "Greeks" -> <<10000, 0>> [] p = "Cramer" -> <<100, 0>>
    [] p = "Hjb" -> <<100, 30>>

ControlAccept(p, x, y) ==
  CASE p = "Bridge" -> <<Most(60, x), Most(10, y)>>
    [] p = "BlackLitterman" -> <<Most(20, x), y>>
    [] p = "Renorm" -> <<Most(50, x), Clamp(5, 50, y)>>
    [] p = "Fokker" -> <<Most(50, x), Most(1, y)>>
    [] p = "Greeks" -> <<Most(1000, x), 0>>
    [] p = "Cramer" -> <<Most(30, x), 0>>
    [] p = "Hjb" -> <<Most(50, x), Most(10, y)>>

-----------------------------------------------------------------------------
(***************************************************************************)
(* Topology, information geometry and function spaces.                     *)
(***************************************************************************)

\* Windows of length w starting every `step` elements of an array of len.
Windows(w, step, len) == IF w > len THEN 0 ELSE (len - w) \div step + 1
WindowReads(w, step, len) ==
  LET k == Windows(w, step, len) IN IF k = 0 THEN {} ELSE {Span(0, (k - 1) * step + w - 1, len)}

-----------------------------------------------------------------------------
(* AffineArithmetic: lookback L; option maturity of T days. *)

\* Two assets with equal weights; every factor of the inexact operations.
AffineOps == {All(2)}

\* Spot from the last price, volatility from the last 20 returns.
AffineEstimate(L, r) == [reads |-> {LastOf(L), Span(r - Least(20, r), r - 1, r)}, divs |-> {r, Least(20, r)}]

Affine(n, L, T) ==
  LET r == L - 1
  IN IF n < L + 1 THEN Placeholder(L + 1)
     ELSE Drawn(L + 1, AffineOps \cup AffineEstimate(L, r).reads, {T} \cup AffineEstimate(L, r).divs)

-----------------------------------------------------------------------------
(* ReproducingKernelHilbertSpace: lookback L, c kernel components. *)

\* Row i holds normR[i], normR[i - 1], normR[i - 2].
RkhsRows(r) == Most(0, r - 2)
RkhsEmbed(r) == {Span(0, r - 1, r)}

\* Kernel and centred kernel are square over the rows.
RkhsKernel(X) == [reads |-> {All(X)}, divs |-> {X}]
RkhsEigen(X, c) == {All(X), Span(0, Least(c, X) - 1, X), FirstOf(Least(c, X))}

\* computeMMD on the two halves of the rows.
RkhsMmd(X) == {X \div 2, X - (X \div 2)}

\* Ridge regression on all rows but the last, targets the returns after them.
RkhsRidge(r, X) == [reads |-> {Span(3, r - 1, r), LastOf(X), LastOf(X - 1)}, divs |-> {X - 1}]

RkhsView(X) == [reads |-> {All(X), All(X - 1)}, divs |-> {X - 1}]

Rkhs(n, L, c) ==
  LET r == L - 1  X == RkhsRows(r)
  IN IF n < L + 1 \/ X < 5 THEN Placeholder(L + 1)
     ELSE Drawn(L + 1, RkhsEmbed(r) \cup RkhsKernel(X).reads \cup RkhsEigen(X, c) \cup RkhsRidge(r, X).reads
                       \cup RkhsView(X).reads,
                {r} \cup RkhsKernel(X).divs \cup RkhsMmd(X) \cup RkhsRidge(r, X).divs \cup RkhsView(X).divs)

-----------------------------------------------------------------------------
(* TensorDecomposition: lookback L, S symbols; timeframes 1, 5 and 15. *)

TensorTimes(L) == L \div 15

\* Window t of a timeframe starts t * tf candles into the lookback; windows
\* of one candle (timeframe 1) have the features zero.
TensorBuild(n, L) ==
  UNION {{Span(n - L, n - L + (TensorTimes(L) - 1) * tf + tf - 1, n)} : tf \in {5, 15}}

\* The alternating updates run over S assets, 3 * times columns, 5 features.
TensorCp(S, J) == {FirstOf(S), All(S), FirstOf(J), All(J), Span(0, 3, 5)}

\* The reconstruction error of every iteration and the last; 5 feature rows.
TensorView(S, iters) == [reads |-> {All(S), All(5), LastOf(iters)}, divs |-> {iters}]

Tensor(n, L, S) ==
  LET J == 3 * TensorTimes(L)
  IN IF n < L \/ S < 2 THEN Placeholder(L)
     ELSE Drawn(L, TensorBuild(n, L) \cup TensorCp(S, J) \cup TensorView(S, 10).reads, {4, 14} \cup TensorView(S, 10).divs)

-----------------------------------------------------------------------------
(* PersistentHomologyLandscape: lookback L, window W; embedding 2 to 6.      *)

LandscapeCloud(r, E) == {Span(0, r - 1, r), All(r - (E - 1))}

\* Merging n points by union-find touches every pair of them.
LandscapePersistence(points) == {All(points)}

\* 51 values of t; at most five layers, each with one value per t.
LandscapeLayers == {Span(0, 50, 51)}

\* Sliding windows: their norms are averaged for the change threshold.
LandscapeNorms(r, W) == Windows(W, Most(5, W \div 4), r)
LandscapeSliding(r, W) == WindowReads(W, Most(5, W \div 4), r)

\* The bars of the norms, one per window.
LandscapeView(k) == [reads |-> {All(k)}, divs |-> {k}]

Landscape(n, L, W) ==
  LET r == L - 1  k == LandscapeNorms(r, W)
  IN IF n < L + 1 THEN Placeholder(L + 1)
     ELSE Drawn(L + 1, (UNION {LandscapeCloud(r, E) : E \in 2..6}) \cup LandscapePersistence(r - 5) \cup LandscapeLayers
                       \cup LandscapeSliding(r, W) \cup LandscapeView(k).reads,
                {r, 50} \cup LandscapeView(k).divs)

-----------------------------------------------------------------------------
(* TopologicalDataAnalysis: lookback L, delay tau; embedding dimension 3,    *)
(* at most F points.                                                         *)

TdaPoints(r, tau) == Most(0, r - 2 * tau)
TdaEmbed(r, tau) == {Span(0, (TdaPoints(r, tau) - 1) + 2 * tau, r)}

\* Every step-th point, at most F of them.
TdaSampled(points, F) ==
  IF points <= F THEN points ELSE LET step == points \div F IN Least(F, (points - 1) \div step + 1)

\* H0 merges components, H1 looks for a path between the ends of each edge.
TdaH0(k) == {All(k), Span(0, k - 2, k)}
TdaH1(k) == {All(k)}

TdaView(k) == {All(k), All(k - 1)}

Tda(n, L, tau) ==
  LET r == L - 1  points == TdaPoints(r, tau)
  IN IF n < L + 1 \/ points < 5 THEN Placeholder(L + 1)
     ELSE Drawn(L + 1, TdaEmbed(r, tau) \cup (UNION {LET k == TdaSampled(points, F) IN TdaH0(k) \cup TdaH1(k) \cup TdaView(k) : F \in {10, 30}})
                       \cup {Span(2, 2, 5)},
                {r, points \div Least(points, 30)})

-----------------------------------------------------------------------------
(* InformationBottleneck: lookback L, lag g; 3 to 20 bins, 2 to 8 clusters.  *)

\* X drops the last g returns, Y the first g: both have r - g values.
IbPairs(r, g) == {All(r - g), Span(g, r - 1, r)}

\* quantize clamps every bin to 0 .. bins - 1.
IbQuantize(bins) == {Span(0, bins - 1, bins)}

\* The tables have one row per bin that occurs, at most `bins` of them.
IbTables(m, bins, k) == [reads |-> {All(m), Span(0, bins - 1, bins), All(k)}, divs |-> {m, bins, k}]

\* Clusters, the last 60 assignments and the history of I iterations.
IbView(k, m, I) == [reads |-> {All(k), Span(m - Least(60, m), m - 1, m), All(I)}, divs |-> {I}]

Ib(n, L, g) ==
  LET r == L + g - 1  m == r - g
  IN IF n < L + g + 1 THEN Placeholder(L + g + 1)
     ELSE Drawn(L + g + 1, IbPairs(r, g) \cup {LastOf(r)} \cup (UNION {IbQuantize(bins) : bins \in {3, 20}})
                           \cup (UNION {IbTables(m, 3, k).reads : k \in {2, 8}}) \cup IbView(8, m, 100).reads,
                IbTables(m, 3, 2).divs \cup IbView(8, m, 100).divs)

-----------------------------------------------------------------------------
(* GraphTheoryNetwork: lookback L, S symbols. *)

GraphCorrelation(S, T) == [reads |-> {FirstOf(S), All(S), All(T)}, divs |-> {T}]

\* The spanning tree of S connected nodes has S - 1 of the S(S-1)/2 edges.
GraphTree(S) == [reads |-> {All(S - 1)}, divs |-> {S - 1, (S * (S - 1)) \div 2}]

\* Betweenness walks parents back from t to s; eigenvector centrality iterates.
GraphCentrality(S) == {All(S)}
GraphClustering(S) == {All(S)}

GraphView(S) == {All(S), All(S - 1)}

Graph(n, L, S) ==
  IF n < L + 1 \/ S < 3 THEN Placeholder(L + 1)
  ELSE Drawn(L + 1, GraphCorrelation(S, L).reads \cup GraphTree(S).reads \cup GraphCentrality(S) \cup GraphClustering(S)
                    \cup GraphView(S),
             {S} \cup GraphCorrelation(S, L).divs \cup GraphTree(S).divs)

-----------------------------------------------------------------------------
(* LieGroupSymmetries: lookback L, window W. *)

LieStep(W) == Most(1, W \div 2)
LieWindows(r, W) == Windows(W, LieStep(W), r)

\* Translation, scaling and Galilean symmetry average over the windows; the
\* time translation needs one return more after each.
LieSymmetries(r, W) == [reads |-> WindowReads(W, LieStep(W), r), divs |-> {LieWindows(r, W), W}]
LieTimeShift(r, W) == [reads |-> {Span(0, W - 2, W), Span(1, W - 1, W)}, divs |-> {Windows(W + 1, LieStep(W), r)}]

\* The newest coefficients are printed.
LieView(k) == [reads |-> {LastOf(k), FirstOf(4)}, divs |-> {k}]

Lie(n, L, W) ==
  LET r == L - 1
  IN IF n < L + 1 THEN Placeholder(L + 1)
     ELSE Drawn(L + 1, LieSymmetries(r, W).reads \cup LieTimeShift(r, W).reads \cup LieView(LieWindows(r, W)).reads,
                LieSymmetries(r, W).divs \cup LieTimeShift(r, W).divs \cup LieView(LieWindows(r, W)).divs)

-----------------------------------------------------------------------------
(* WassersteinBarycenters: lookback L, k windows; 20 or more points. *)

\* A quantile lies between two elements of the sorted sample.
BaryQuantiles(len) == {Span(0, len - 1, len)}

\* Windows of more than five returns become distributions.
BaryWindow(r, k) == r \div k
BaryMix(k, points) == {All(k), All(points)}

BaryView(k, points) == [reads |-> {All(k), All(points)}, divs |-> {k, points}]

Bary(n, L, k) ==
  LET r == L - 1  w == BaryWindow(r, k)
  IN IF n < L + 1 \/ w <= 5 THEN Placeholder(L + 1)
     ELSE Drawn(L + 1, {Span(0, k * w - 1, r)} \cup BaryQuantiles(w) \cup BaryQuantiles(k * w) \cup BaryMix(k, 20)
                       \cup BaryView(k, 20).reads,
                {k, 20} \cup BaryView(k, 20).divs)

-----------------------------------------------------------------------------
(* SobolevSpaceRegularization: lookback L. *)

\* Rolling volatility of the 10 returns before each return from the 11th on.
SobolevRolling(r) == Most(0, r - 10)

\* Gaussian elimination, back substitution, and the norms of the fit.
SobolevFit(m) == [reads |-> {All(m), Span(0, m - 2, m), Span(0, m, m + 1)}, divs |-> {m, m - 1}]

SobolevView(m) == {All(m), All(100), All(5)}

Sobolev(n, L) ==
  LET r == L - 1  m == SobolevRolling(r)
  IN IF n < L + 1 \/ m < 10 THEN Placeholder(L + 1)
     ELSE Drawn(L + 1, {Span(0, r - 2, r)} \cup SobolevFit(m).reads \cup SobolevView(m), {10, 100} \cup SobolevFit(m).divs)

-----------------------------------------------------------------------------
(* FractalAnalyzer: no inputs. *)

\* R/S analysis: lags 2 .. min(n / 2, 30), whole segments of each lag.
FractalLags(r) == 2..Least(r \div 2, 30)
FractalRS(r) == {Span(0, (r \div lag) * lag - 1, r) : lag \in FractalLags(r)}

\* Detrended fluctuation: windows below half the series, at least three.
FractalDfa(r) == LET ws == {w \in {4, 8, 16, 32, 64} : 2 * w < r} IN {Span(0, (r \div w) * w - 1, r) : w \in ws}

\* Autocorrelation up to lag 15, none for fewer than 20 returns.
FractalAcf(r) == IF r < 20 THEN [reads |-> {}, divs |-> {}]
                 ELSE [reads |-> {Span(15, r - 1, r)}, divs |-> {r - lag : lag \in 0..15}]

FractalView(lags) == {All(lags), All(16)}

Fractal(n) ==
  LET m == Least(100, n)  r == m - 1
  IN IF m < 35 \/ r < 30 THEN Placeholder(35)
     ELSE Drawn(35, FractalRS(r) \cup FractalDfa(r) \cup FractalAcf(r).reads \cup {LastOf(m)}
                    \cup FractalView(Least(r \div 2, 30) - 1),
                {r, Least(r \div 2, 30) - 1} \cup FractalAcf(r).divs)

-----------------------------------------------------------------------------
(* ArzelaAscoli: lookback L, largest parameter P. *)

\* Every indicator looks back at most to the first return.
ArzelaIndicator(r, P) == {Span(Most(0, r - P), r - 1, r), FirstOf(r)}

\* Neighbours within delta of each point, cut off at both ends.
ArzelaModulus(r) == {Span(Most(0, (r - 1) - 21), Least(r, r + 21) - 1, r), Span(0, Least(r, 22) - 1, r)}

ArzelaFamily(P) == P \div 2
ArzelaView(family, deltas) == [reads |-> {FirstOf(family), All(family), FirstOf(deltas), LastOf(deltas)}, divs |-> {family, deltas}]

Arzela(n, L, P) ==
  LET r == L - 1
  IN IF n < L + 1 \/ r < 3 * P THEN Placeholder(L + 1)
     ELSE Drawn(L + 1, ArzelaIndicator(r, P) \cup ArzelaModulus(r) \cup ArzelaView(ArzelaFamily(P), 7).reads,
                {r, P + 1} \cup ArzelaView(ArzelaFamily(P), 7).divs)

-----------------------------------------------------------------------------
(* OptimalTransport: window W, B bins. *)

\* Both samples have W returns: the last W and the W before them.
TransportSamples(r, W) == {Span(r - W, r - 1, r), Span(r - 2 * W, r - W - 1, r)}
TransportRolling(r, W) == {Span(0, r - 2, r)}

\* Sinkhorn scales the B by B kernel of the two histograms.
TransportHistogram(B) == [reads |-> {Span(0, B - 1, B)}, divs |-> {B}]
TransportSinkhorn(B) == {All(B)}

TransportView(k, B) == [reads |-> {Span(k - Least(60, k), k - 1, k), All(B)}, divs |-> {B, Most(1, Least(60, k) - 1)}]

Transport(n, W, B) ==
  LET r == n - 1  k == Most(0, r - 2 * W)
  IN IF n < 3 * W THEN Placeholder(3 * W + 1)
     ELSE Drawn(3 * W + 1, TransportSamples(r, W) \cup TransportRolling(r, W) \cup TransportHistogram(B).reads
                           \cup TransportSinkhorn(B) \cup TransportView(k, B).reads,
                {W, k} \cup TransportHistogram(B).divs \cup TransportView(k, B).divs)

-----------------------------------------------------------------------------
GeometryPanels == {"Affine", "Rkhs", "Tensor", "Landscape", "Tda", "Ib", "Graph", "Lie", "Bary", "Sobolev", "Fractal",
                   "Arzela", "Transport"}

GeometryPanel(p, n, x, y) ==
  CASE p = "Affine" -> Affine(n, x, y)
    [] p = "Rkhs" -> Rkhs(n, x, y)
    [] p = "Tensor" -> Tensor(n, x, y)
    [] p = "Landscape" -> Landscape(n, x, y)
    [] p = "Tda" -> Tda(n, x, y)
    [] p = "Ib" -> Ib(n, x, y)
    [] p = "Graph" -> Graph(n, x, y)
    [] p = "Lie" -> Lie(n, x, y)
    [] p = "Bary" -> Bary(n, x, y)
    [] p = "Sobolev" -> Sobolev(n, x)
    [] p = "Fractal" -> Fractal(n)
    [] p = "Arzela" -> Arzela(n, x, y)
    [] p = "Transport" -> Transport(n, x, y)

GeometryDefault(p) ==
  CASE p = "Affine" -> <<50, 30>> [] p = "Rkhs" -> <<60, 3>> [] p = "Tensor" -> <<100, 3>>
    [] p = "Landscape" -> <<100, 40>> [] p = "Tda" -> <<80, 2>> [] p = "Ib" -> <<100, 1>>
    [] p = "Graph" -> <<50, 4>> [] p = "Lie" -> <<100, 20>> [] p = "Bary" -> <<200, 4>>
    [] p = "Sobolev" -> <<80, 0>> [] p = "Fractal" -> <<0, 0>> [] p = "Arzela" -> <<120, 20>>
    [] p = "Transport" -> <<30, 20>>

GeometryAccept(p, x, y) ==
  CASE p = "Affine" -> <<Most(20, x), Most(1, y)>>
    [] p = "Rkhs" -> <<Most(30, x), Clamp(1, 5, y)>>
    [] p = "Tensor" -> <<Most(50, x), y>>
    [] p = "Landscape" -> <<Most(60, x), Most(20, y)>>
    [] p = "Tda" -> <<Most(40, x), Most(1, y)>>
    [] p = "Ib" -> <<Most(50, x), Most(1, y)>>
    [] p = "Graph" -> <<Most(20, x), y>>
    [] p = "Lie" -> <<Most(40, x), Most(10, y)>>
    [] p = "Bary" -> <<Most(100, x), Clamp(2, 8, y)>>
    [] p = "Sobolev" -> <<Most(50, x), 0>>
    [] p = "Fractal" -> <<0, 0>>
    [] p = "Arzela" -> <<Most(60, x), Most(6, y)>>
    [] p = "Transport" -> <<Most(10, x), Most(5, y)>>
=============================================================================
