-------------------------- MODULE PanelsOfSignals ---------------------------
(***************************************************************************)
(* The machine-learning panels and the signal-processing and entropy panels: *)
(* what they read of their candles, features, windows and weights and what *)
(* they divide by (see PanelReads), as functions of the number n of candles *)
(* and of the two inputs that matter for it.                               *)
(***************************************************************************)
EXTENDS PanelReads

-----------------------------------------------------------------------------
(* RecurrentNeuralNetwork: hidden units H, sequence length L. *)

\* One LSTM cell: 4 gates of H rows over the input and the H previous outputs.
RnnCell(H) == {All(4), Span(0, 3 * H + H - 1, 4 * H), All(1 + H), All(H)}

\* Back-propagation over the last five steps; newDh is indexed past the input.
RnnTrain(H, L) ==
  {LastOf(L), Span(L - Least(5, L), L - 1, L), Span(0, 3 * H + H - 1, 4 * H),
   Span(1 - 1, (1 + H) - 1 - 1, H)}

\* prepareSequences: how many sequences, and the returns they take.
RnnSequences(r, L) == Most(0, r - L - 1)
RnnSequenceReads(r, L) ==
  LET s == RnnSequences(r, L) IN {Span(0, s - 1 + L - 1, r), Span(L, s - 1 + L, r)}

\* The loss curve and the predicted and actual returns.
RnnView(train, test) == {LastOf(1), All(Least(30, train)), All(test)}

\* Mutant: the panel does not look at how many sequences it got.
RnnNoSecondGuard(n, H, L) ==
  LET r == n - 1  s == RnnSequences(r, L)  train == (s * 8) \div 10
  IN IF n < 40 THEN Placeholder(40)
     ELSE Drawn(40, {LastOf(s), LastOf(n)} \cup RnnSequenceReads(r, L), {r, train})

\* Mutant: the guard on the sequences is far too strict.
RnnLongGuard(n, H, L) ==
  IF n < 40 \/ RnnSequences(n - 1, L) < 50 THEN Placeholder(40) ELSE Drawn(40, {}, {1})

Rnn(n, H, L) ==
  LET r == n - 1  s == RnnSequences(r, L)  train == (s * 8) \div 10
  IN IF n < 40 \/ s < 10 THEN Placeholder(40)
     ELSE Drawn(40, {LastOf(s), LastOf(n)} \cup RnnSequenceReads(r, L) \cup RnnCell(H)
                    \cup RnnTrain(H, L) \cup RnnView(train, s - train),
                {r, train})

-----------------------------------------------------------------------------
(* SupportVectorMachine: window W, kernel rbf or linear. *)

\* extractSVMFeatures: windows [i - W, i) with the label of return i + 1.
SvmFeatures(r, W) == Most(0, r - 1 - W)
SvmFeatureReads(r, W) ==
  LET f == SvmFeatures(r, W)
  IN {Span(0, W + f - 2, r), LastOf(W), FirstOf(W), Span(W + 1, W + f, r)}

\* The two trainers over t samples; smo draws a second index j # i.
SvmTrain(t, rbf) == IF rbf THEN {All(t), Span(1, 1, t)} ELSE {FirstOf(t), All(t)}

\* The weights (linear only), the confusion matrix and the summary.
SvmView(test, rbf) == {All(test)} \cup (IF rbf THEN {} ELSE {FirstOf(8), All(8)})

Svm(n, W, rbf) ==
  LET r == n - 1  f == SvmFeatures(r, W)  t == (f * 8) \div 10
  IN IF n < 50 \/ f < 20 THEN Placeholder(50)
     ELSE Drawn(50, SvmFeatureReads(r, W) \cup {FirstOf(f), LastOf(f)} \cup SvmTrain(t, rbf)
                    \cup SvmView(f - t, rbf),
                {W, f, t})

-----------------------------------------------------------------------------
(* VariationalAutoencoder: lookback L, window W. *)

\* The encoder and decoder layers over a window and a latent point.
VaeLayers(W, hidden, latent) == {All(W), All(hidden), All(latent), FirstOf(latent)}

\* Loss curves, latent points (an anomaly is a window) and errors.
VaeView(windows, epochs) == {All(windows), All(epochs)}

Vae(n, L, W) ==
  LET r == L - 1  w == Most(0, r - W + 1)
  IN IF n < L + 1 \/ w < 5 THEN Placeholder(L + 1)
     ELSE Drawn(L + 1, {All(r), Span(0, w - 1 + W - 1, r), LastOf(w)}
                       \cup VaeLayers(W, 8, 2) \cup VaeView(w, 50),
                {r, W, w, 100 * W, 50})

-----------------------------------------------------------------------------
(* Autoencoder: hidden units H; windows of 20 candles, 12 features. *)

\* extractAEFeatures: one row per candle from the 20th on.
AeFeatureReads(n, W) ==
  {Span(0, n - 1 - 1, n), LastOf(W), Span(W - 2, W - 2, W), FirstOf(W), Span(1, W - 2, W - 1)}

\* trainAutoencoder over f rows of d features with H hidden units.
AeTrain(f, d, H) == {All(f), All(d), All(H)}

\* The last 60 errors over the last 60 latent points, and the loss curve.
AeView(f, epochs) == {LastOf(epochs), All(Least(60, f))}

Autoenc(n, H) ==
  LET f == Most(0, n - 20)
  IN IF n < 40 \/ f < 20 THEN Placeholder(40)
     ELSE Drawn(40, AeFeatureReads(n, 20) \cup AeTrain(f, 12, H) \cup AeView(f, 200)
                    \cup {FirstOf(f), LastOf(f), Span(0, 1, H)},
                {20, 19, f, 12, H, Least(60, f)})

-----------------------------------------------------------------------------
(* IsolationForest: sub-sample size S. *)

\* buildIsolationForest draws distinct indices until the sub-sample is full.
ForestSample(f, S) == {Span(0, Least(Least(S, f), f) - 1, f)}

\* extractAnomalyFeatures: windows of 20 candles before candle i.
ForestFeatureReads(n) == {Span(0, n - 1, n), LastOf(20), Span(18, 18, 20), All(19)}

\* Score bars and, over them, the price line of the last 60 candles.
ForestView(f) == {All(Least(60, f)), All(7), Span(0, 1, 7)}

Forest(n, S) ==
  LET f == Most(0, n - 20)
  IN IF n < 40 \/ f < 10 THEN Placeholder(40)
     ELSE Drawn(40, ForestFeatureReads(n) \cup ForestSample(f, S) \cup {LastOf(f)}
                    \cup ForestView(f),
                {f, Least(S, f) - 1, Least(60, f)})

-----------------------------------------------------------------------------
(* KMeansClustering: K clusters (manual) or the best of 2..8, window W. *)

\* kmeans, kmeansPlusPlus, kmeansIterate: labels index the k centroids.
KmFit(f, k) == IF f < k THEN {All(f)} ELSE {FirstOf(f), All(f), Span(0, k - 1, k)}

\* extractFeatures: windows [i - W, i); volumes[f.index] is the next candle's.
KmFeatures(r, W) == Most(0, r - W)
KmFeatureReads(n, r, W) ==
  LET f == KmFeatures(r, W)
  IN {Span(0, W + f - 2, r), Span(1, W - 1, W), Span(W, W + f - 1, n)}

\* The k values tried when K is chosen automatically.
KmTried(f) == {k \in 2..8 : f >= k + 1}

\* Scatter plot, cluster cards, transitions: colours are indexed by cluster.
KmView(f, k) == {All(Least(100, f)), Span(0, k - 1, 8), Span(0, k - 1, k)}

KMeans(n, K, W) ==
  LET r == n - 1  f == KmFeatures(r, W)
  IN IF n < 50 \/ f < K + 1 THEN Placeholder(50)
     ELSE Drawn(50, KmFeatureReads(n, r, W) \cup {LastOf(f)}
                    \cup UNION {KmFit(f, k) \cup KmView(f, k) : k \in KmTried(f) \cup {K}},
                {W, f})

-----------------------------------------------------------------------------
(* GaussianMixtureModel: at most K components, lookback L. *)

\* kmeans and fitGMM over the returns with k components.
GmmFit(r, k) == {All(r), All(k)}

\* One colour per component (5 of them), and the K axis of the BIC chart.
GmmView(K) == [reads |-> {Span(0, K - 1, 5), All(30), All(60)}, divs |-> {K - 1, 30, 59}]

Gmm(n, K, L) ==
  IF n < L + 1 THEN Placeholder(L + 1)
  ELSE Drawn(L + 1, (UNION {GmmFit(L, k) : k \in 1..K}) \cup {FirstOf(K), LastOf(L), Span(0, K - 1, K)}
                    \cup GmmView(K).reads,
             {L} \cup GmmView(K).divs)

-----------------------------------------------------------------------------
(* PrincipalComponentAnalysis: lookback L, S symbols with enough candles.   *)
(* (A second number input stands for the number of symbols.)                *)

\* The rotation of rows p and q, and the covariance of T rows of S columns.
PcaDecompose(T, S) == {All(T), All(S), FirstOf(T)}

\* Scree plot, loadings of the first three components (a missing one is 0).
PcaView(T, S) == {FirstOf(S), All(S), All(Least(30, T)), Span(0, Least(3, S) - 1, S)}

Pca(n, L, S) ==
  IF n < L + 1 \/ S < 2 \/ L < 10 THEN Placeholder(L + 1)
  ELSE Drawn(L + 1, PcaDecompose(L, S) \cup {FirstOf(S), Span(1, 1, S), LastOf(L)} \cup PcaView(L, S),
             {L - 1})

-----------------------------------------------------------------------------
(* GaussianProcessRegression: T training points, P points ahead. *)

\* Kernel matrix, Cholesky factor and the two triangular solves.
GpSolve(T) == {All(T), Span(0, T - 1, T)}

\* The band is closed at point N - 1.
GpView(N) == [reads |-> {FirstOf(N), LastOf(N), All(N)}, divs |-> {N - 1}]

Gp(n, T, P) ==
  LET N == T + P
  IN IF n < N + 5 THEN Placeholder(N + 5)
     ELSE Drawn(N + 5, GpSolve(T) \cup {LastOf(n), FirstOf(P), Span(0, T - 1, N)} \cup GpView(N).reads,
                {N, T} \cup GpView(N).divs)

-----------------------------------------------------------------------------
LearningPanels == {"Rnn", "Svm", "Vae", "Autoencoder", "Forest", "KMeans", "Gmm", "Pca", "Gp"}

\* The panels, with what their two inputs mean.
LearningPanel(p, n, x, y) ==
  CASE p = "Rnn" -> Rnn(n, x, y)
    [] p = "Svm" -> Svm(n, x, y = 1)
    [] p = "Vae" -> Vae(n, x, y)
    [] p = "Autoencoder" -> Autoenc(n, x)
    [] p = "Forest" -> Forest(n, x)
    [] p = "KMeans" -> KMeans(n, x, y)
    [] p = "Gmm" -> Gmm(n, x, y)
    [] p = "Pca" -> Pca(n, x, y)
    [] p = "Gp" -> Gp(n, x, y)

\* The useState defaults of the two inputs.
LearningDefault(p) ==
  CASE p = "Rnn" -> <<8, 10>> [] p = "Svm" -> <<20, 0>> [] p = "Vae" -> <<60, 8>>
    [] p = "Autoencoder" -> <<4, 0>> [] p = "Forest" -> <<64, 0>> [] p = "KMeans" -> <<4, 20>>
    [] p = "Gmm" -> <<5, 100>> [] p = "Pca" -> <<50, 3>> [] p = "Gp" -> <<40, 10>>

\* Mutant: the handlers store the number as typed.
LearningAsTyped(p, x, y) == <<x, y>>

\* The onChange handlers: what is stored when x, y are typed.
LearningAccept(p, x, y) ==
  CASE p = "Rnn" -> <<Clamp(2, 32, x), Most(3, y)>>
    [] p = "Svm" -> <<Most(5, x), Clamp(0, 1, y)>>
    [] p = "Vae" -> <<Most(40, x), Clamp(4, 16, y)>>
    [] p = "Autoencoder" -> <<Clamp(2, 8, x), 0>>
    [] p = "Forest" -> <<Most(16, x), 0>>
    [] p = "KMeans" -> <<Clamp(2, 8, x), Most(5, y)>>
    [] p = "Gmm" -> <<Clamp(1, 8, x), Most(50, y)>>
    [] p = "Pca" -> <<Most(20, x), y>>
    [] p = "Gp" -> <<Most(10, x), Most(1, y)>>

-----------------------------------------------------------------------------
(***************************************************************************)
(* Signal processing and entropy.                                          *)
(***************************************************************************)

\* The powers of two up to 2048; no signal is longer.
Pow2(k) == <<1, 2, 4, 8, 16, 32, 64, 128, 256, 512, 1024, 2048>>[k + 1]
Powers == {Pow2(k) : k \in 0..11}

\* Math.pow(2, Math.ceil(Math.log2(n))), the length a signal is padded to.
Pow2Ceil(n) == CHOOSE p \in Powers : p >= n /\ \A q \in Powers : q >= n => p <= q

\* The in-place radix-2 transform over m points: the last index of the last
\* butterfly block of every length.
FftReads(m) == {Span(0, ((m - 1) \div len) * len + len - 1, m) : len \in {l \in Powers : 2 <= l /\ l <= m}}

-----------------------------------------------------------------------------
(* EmpiricalModeDecomposition: at most K intrinsic modes of N = min(128, n) points. *)

\* Natural spline through k knots; h, b, d have k - 1 entries, alpha k - 2.
EmdSpline(k) ==
  IF k = 2 THEN {Span(0, 1, k)}
  ELSE {All(k), Span(0, k - 2, k - 1), Span(0, (k - 2) - 1, k - 2), Span(1, k - 1, k)}

\* Extrema compare each inner point with both neighbours, then the two ends.
EmdExtrema(N) == {Span(0, (N - 2) + 1, N), Span(1, 1, N), Span(N - 2, N - 1, N)}

\* sift fits both envelopes only if there are two maxima and two minima.
EmdSift(N) == EmdExtrema(N) \cup UNION {EmdSpline(k) : k \in {2, 3, N \div 2, N}}

\* The analytic signal over the padded mode; half the spectrum is rotated.
EmdHilbert(N) == LET m == Pow2Ceil(N) IN FftReads(m) \cup {All(m), Span(0, N - 1, m), Span(0, 1, N)}

\* One path and colour per mode; the dominant one by index, of 8 colours.
EmdView(N, modes) == {All(N), Span(0, modes - 1, modes), Span(0, modes - 1, 8)}

Emd(n, K) ==
  LET N == Least(128, n)
  IN IF n < 32 THEN Placeholder(32)
     ELSE Drawn(32, EmdSift(N) \cup EmdHilbert(N) \cup {Span(N - 2, N - 1, N)}
                    \cup UNION {EmdView(N, modes) : modes \in 1..K}, {N})

-----------------------------------------------------------------------------
(* VariationalModeDecomposition: K modes of the mirrored signal. *)

\* fft pads by itself, ifft sums over the length it is given.
VmdFft(m) == FftReads(Pow2Ceil(m)) \cup {All(m)}

\* The updates index the spectrum of the padded signal by the 3N frequencies,
\* and keep the middle third of each mode.
VmdModes(N, K) ==
  LET ext == 3 * N IN {Span(0, ext - 1, Pow2Ceil(ext)), All(K), Span(N, N + N - 1, ext), All(N)}

VmdView(N, K) == {All(N), All(K), Span(0, K - 1, 8)}

Vmd(n, K) ==
  LET N == Least(128, n)
  IN IF n < 32 THEN Placeholder(32)
     ELSE Drawn(32, VmdFft(3 * N) \cup VmdModes(N, K) \cup {Span(N - 2, N - 1, N)} \cup VmdView(N, K),
                {N, 3 * N, K})

-----------------------------------------------------------------------------
(* WaveletPacketDecomposition: lookback L, D levels. *)

\* A node shorter than 4 is passed on with an empty sibling; every level has
\* twice the nodes of the one above, and a pair's parent is at half its index.
WpTree(m, D) ==
  UNION {{Span(0, (Pow2(l) - 2) \div 2, Pow2(l - 1)), Span(0, Pow2(l) - 1, Pow2(l))} : l \in 1..D}

\* The median of a non-empty node.
WpThreshold(m) == {Span(m \div 2, m \div 2, m)}

\* One row of cells per level, the energies below it, costs of the best basis.
WpView(D) == {All(D + 1), All(D), FirstOf(D)}

WaveletPacket(n, L, D) ==
  LET r == L - 1  m == Pow2Ceil(r)
  IN IF n < L + 1 THEN Placeholder(L + 1)
     ELSE Drawn(L + 1, {All(L), Span(0, r - 1, m), LastOf(D + 1), FirstOf(Pow2(D))} \cup WpTree(m, D)
                       \cup WpThreshold(m) \cup WpView(D),
                {r, D + 1} \cup {Pow2(l) : l \in 0..D})

-----------------------------------------------------------------------------
(* WaveletDecomposition: D levels, haar (2 taps) or db4 (4 taps) filter. *)

\* Levels done: at most log2 of the padded length.
WaveletLevels(m, D) == Least(D, CHOOSE k \in 0..11 : Pow2(k) = m)

\* dwt halves, idwt doubles; the filter wraps around the end.
WaveletSteps(m, D) ==
  LET J == WaveletLevels(m, D)
  IN UNION {LET len == m \div Pow2(l)
            IN {Span(0, len \div 2 - 1, len \div 2)} \cup {Span(0, (2 * (len \div 2 - 1) + tap) % len, len) : tap \in 0..3}
            : l \in 0..(J - 1)}

\* Variances of the details and of the approximation.
WaveletDivs(m, D) == {m \div Pow2(l + 1) : l \in 0..(WaveletLevels(m, D) - 1)}

WaveletView(n, J) == [reads |-> {All(n), All(J + 1), LastOf(J + 1)}, divs |-> {n - 1}]

Wavelet(n, D) ==
  LET m == Pow2Ceil(n)  J == WaveletLevels(m, D)
  IN IF n < 16 THEN Placeholder(16)
     ELSE Drawn(16, {Span(0, n - 1, m), LastOf(n), Span(n - 2, n - 1, n), FirstOf(J + 1)}
                    \cup WaveletSteps(m, D) \cup WaveletView(n, J).reads,
                WaveletDivs(m, D) \cup WaveletView(n, J).divs)

-----------------------------------------------------------------------------
(* SpectralAnalysis: Welch's method over at most 128 candles. *)

SpectralSegment(r) == Least(32, r \div 2)

\* Segments of seg returns, half overlapping; seg \div 2 bins each.
SpectralWelch(r, seg) ==
  LET step == seg \div 2  count == (r - seg) \div step + 1
  IN {Span(0, (count - 1) * step + seg - 1, r), All(seg \div 2), Span(0, seg \div 2 - 1, seg)}

\* A peak is compared with both neighbours; its period is bins / bin.
SpectralCycles(bins) == {Span(0, bins - 1, bins), Span(1, bins - 2, bins)}
SpectralPeriodOfBinOne(bins) == bins

SpectralView(bins) == {All(bins), All(Least(3, bins))}

Spectral(n) ==
  LET r == Least(128, n) - 1  seg == SpectralSegment(r)  bins == seg \div 2
  IN IF n < 32 \/ r < 16 THEN Placeholder(32)
     ELSE Drawn(32, SpectralWelch(r, seg) \cup SpectralCycles(bins) \cup SpectralView(bins) \cup {LastOf(n)},
                {r, seg, seg - 1, seg \div 2, bins})

-----------------------------------------------------------------------------
(* NonStationarySpectral: lookback L, window w, hop 4. *)

NsFrames(r, w) == IF w > r THEN 0 ELSE (r - w) \div 4 + 1
NsStft(r, w) == LET f == NsFrames(r, w) IN {Span(0, (f - 1) * 4 + w - 1, r), Span(0, w \div 2 - 1, w)}

\* With no frame at all the charts that divide by the frames draw nothing.
NsView(r, w) ==
  LET f == NsFrames(r, w)
  IN [reads |-> {All(f), All(r)}, divs |-> {r} \cup (IF f > 0 THEN {f, w \div 2} ELSE {})]

NonStationary(n, L, w) ==
  LET r == L - 1
  IN IF n < L + 1 THEN Placeholder(L + 1)
     ELSE Drawn(L + 1, {All(L)} \cup (IF NsFrames(r, w) > 0 THEN NsStft(r, w) ELSE {}) \cup NsView(r, w).reads,
                {r, w - 1, 2 * (w \div 2)} \cup NsView(r, w).divs)

-----------------------------------------------------------------------------
(* CompressedSensing: lookback L, sparsity S, measurements at the smallest  *)
(* ratio 0.1 and at the default 0.5.                                        *)

\* Least squares over the s chosen columns; the right-hand side is column s.
CsLeastSquares(m, s) == {FirstOf(m), All(m), Span(0, s, s + 1), All(s)}

\* omp adds one index per round, ista iterates over all.
CsRecover(m, r, S) == {FirstOf(m), All(r)} \cup UNION {CsLeastSquares(m, s) : s \in 1..S}

CsView(r) == {All(r), All(Least(10, r))}

Compressed(n, L, S) ==
  LET r == L - 1
  IN IF n < L + 1 THEN Placeholder(L + 1)
     ELSE Drawn(L + 1, {All(L)} \cup CsView(r)
                       \cup UNION {CsRecover(m, r, S) : m \in {r \div 10, r \div 2}}, {r, r \div 10})

-----------------------------------------------------------------------------
(* DynamicTimeWarping: window w, Sakoe-Chiba band b. *)

Templates == {16, 17, 18, 19}

\* Rows 1..x and, in row i, the columns within the band; the band is widened
\* to the difference of the lengths, so the last cell, where the path starts,
\* is one of its row's.
DtwBand(x, y, b) == Most(b, IF x > y THEN x - y ELSE y - x)
DtwCells(x, y, b) ==
  LET w == DtwBand(x, y, b)
      low == Most(1, x - w)
      high == Least(y, x + w)
  IN {Span(0, x, x + 1), Span(0, high, y + 1), Span(0, x - 1, x), Span(0, y - 1, y),
      Span(y - low, y - low, high - low + 1)}

\* extractWindows: every w consecutive prices, none if there are fewer.
DtwWindows(n, w) == {Span(0, Most(0, n - w + 1) - 1 + w - 1, n)}

DtwView(x) == [reads |-> {All(x)}, divs |-> {Most(1, x - 1)}]

Dtw(n, w, b) ==
  LET x == Least(w, n)
  IN IF n < 40 THEN Placeholder(40)
     ELSE Drawn(40, DtwView(x).reads \cup (IF w <= n THEN DtwWindows(n, w) ELSE {})
                    \cup UNION {DtwCells(x, y, b) : y \in Templates},
                {x} \cup DtwView(x).divs)

-----------------------------------------------------------------------------
(* KoopmanOperatorTheory: lookback L, highest power P; 3 Fourier pairs.     *)

\* Dictionary functions: constant, powers, sines and cosines.
KoopmanDim(P) == 1 + P + 2 * 3

\* Normal equations over r - 1 pairs, the augmented matrix has 2 dim columns.
KoopmanEdmd(r, dim) == {FirstOf(r - 1), All(r - 1), Span(0, r - 1, r), Span(0, dim + dim - 1, 2 * dim), All(dim)}

\* Eigenvalues (at most 5, each its colour) and the forecast of psi[1].
KoopmanView(dim, steps) == {Span(0, Least(5, dim) - 1, 5), FirstOf(steps), LastOf(steps), All(steps)}

Koopman(n, L, P) ==
  LET r == L - 1  dim == KoopmanDim(P)
  IN IF n < L + 1 THEN Placeholder(L + 1)
     ELSE Drawn(L + 1, {All(L), LastOf(r), Span(1, 1, dim)} \cup KoopmanEdmd(r, dim) \cup KoopmanView(dim, 10),
                {r, r - 1, 10})

-----------------------------------------------------------------------------
(* KolmogorovSinaiEntropy: lookback L; q of the 20 lags have a divergence,  *)
(* none of them if all returns are equal.                                   *)

\* Thresholds of the symbols, blocks of up to 12, order patterns, matches.
KsBlocks(r, blocks) ==
  {Span((r * 1) \div 3, (r * 2) \div 3, r), Span(0, r - 12 + 11, r), Span(0, blocks - 1, blocks), LastOf(blocks),
   Span(0, (r - 3 - 1) + 2, r)}

\* Delay vectors, nearest neighbours and their distance lag steps later.
KsLyapunov(r, lag) == {Span(0, (r - 2) + 1, r), Span(0, ((r - 1) - lag - 1) + lag, r - 1)}

\* Every chart is scaled by its count; the fitted line goes from the first
\* divergence to the last.
KsView(q) == [reads |-> {FirstOf(q), LastOf(q)}, divs |-> {8}]

Ks(n, L, q) ==
  LET r == L - 1
  IN IF n < L + 1 THEN Placeholder(L + 1)
     ELSE Drawn(L + 1, {All(L), Span(8 - 2, 8 - 2, 8)} \cup KsBlocks(r, 8)
                       \cup (UNION {KsLyapunov(r, lag) : lag \in 1..20}) \cup KsView(q).reads,
                {r} \cup KsView(q).divs)

-----------------------------------------------------------------------------
(* TransferEntropy: lookback L, history k of target and source. *)

TeHistories(r, k) == Most(0, (r - 1) - k)
TeReads(r, k) == {Span(k + 1, (r - 2) + 1, r), Span(k - (k - 1), r - 2, r), All(TeHistories(r, k))}

TeView(results) == {FirstOf(results), All(results)}

Te(n, L, k) ==
  LET r == L - 1
  IN IF n < L + 1 THEN Placeholder(L + 1)
     ELSE Drawn(L + 1, {All(L)} \cup TeReads(r, k) \cup TeView(1), {TeHistories(r, k), 5})

-----------------------------------------------------------------------------
(* RenyiEntropyDynamics: lookback L, sliding window w. *)

\* Bin of a value: clamped to the last one.
RenyiHistogram(r, bins) == {All(r), Span(0, bins - 1, bins)}

\* Sliding windows every w / 4 (at least 3) returns.
RenyiWindows(r, w) == IF w > r THEN 0 ELSE (r - w) \div Most(3, w \div 4) + 1

RenyiView(k) == [reads |-> {All(k)}, divs |-> IF k > 0 THEN {k} ELSE {}]

Renyi(n, L, w) ==
  LET r == L - 1  k == RenyiWindows(r, w)
  IN IF n < L + 1 THEN Placeholder(L + 1)
     ELSE Drawn(L + 1, RenyiHistogram(r, 20) \cup RenyiView(k).reads
                       \cup (IF k > 0 THEN {Span(0, (k - 1) * Most(3, w \div 4) + w - 1, r)} ELSE {}),
                {r, 20} \cup RenyiView(k).divs)

-----------------------------------------------------------------------------
SpectralPanels == {"Emd", "Vmd", "WaveletPacket", "Wavelet", "Spectral", "NonStationary", "Compressed", "Dtw",
                   "Koopman", "Ks", "Te", "Renyi"}

SpectralPanel(p, n, x, y) ==
  CASE p = "Emd" -> Emd(n, x)
    [] p = "Vmd" -> Vmd(n, x)
    [] p = "WaveletPacket" -> WaveletPacket(n, x, y)
    [] p = "Wavelet" -> Wavelet(n, x)
    [] p = "Spectral" -> Spectral(n)
    [] p = "NonStationary" -> NonStationary(n, x, y)
    [] p = "Compressed" -> Compressed(n, x, y)
    [] p = "Dtw" -> Dtw(n, x, y)
    [] p = "Koopman" -> Koopman(n, x, y)
    [] p = "Ks" -> Ks(n, x, y)
    [] p = "Te" -> Te(n, x, y)
    [] p = "Renyi" -> Renyi(n, x, y)

SpectralDefault(p) ==
  CASE p = "Emd" -> <<5, 0>> [] p = "Vmd" -> <<4, 0>> [] p = "WaveletPacket" -> <<128, 4>>
    [] p = "Wavelet" -> <<4, 0>> [] p = "Spectral" -> <<0, 0>> [] p = "NonStationary" -> <<100, 16>>
    [] p = "Compressed" -> <<64, 5>> [] p = "Dtw" -> <<20, 5>> [] p = "Koopman" -> <<100, 2>>
    [] p = "Ks" -> <<200, 20>> [] p = "Te" -> <<100, 1>> [] p = "Renyi" -> <<150, 40>>

SpectralAccept(p, x, y) ==
  CASE p \in {"Emd", "Vmd"} -> <<Clamp(2, 8, x), 0>>
    [] p = "WaveletPacket" -> <<Most(32, x), Clamp(2, 7, y)>>
    [] p = "Wavelet" -> <<Clamp(1, 8, x), 0>>
    [] p = "Spectral" -> <<0, 0>>
    [] p = "NonStationary" -> <<Most(50, x), Clamp(4, 64, y)>>
    [] p = "Compressed" -> <<Most(16, x), Clamp(1, 20, y)>>
    [] p = "Dtw" -> <<Most(10, x), Most(1, y)>>
    [] p = "Koopman" -> <<Most(50, x), Clamp(1, 4, y)>>
    [] p = "Ks" -> <<Most(100, x), Clamp(0, 20, y)>>
    [] p = "Te" -> <<Most(50, x), Clamp(1, 3, y)>>
    [] p = "Renyi" -> <<Most(60, x), Most(20, y)>>
=============================================================================
