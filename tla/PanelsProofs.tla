---------------------------- MODULE PanelsProofs ----------------------------
(***************************************************************************)
(* Proofs about the analysis panels.  For each panel one lemma: with any   *)
(* number of candles and with any inputs in the ranges its handlers store, *)
(* every element its computation and its drawing read is there, no length  *)
(* it divides by is zero, and it asks for N candles only below N (Asks).   *)
(* Where that holds for some inputs only, the lemma says for which.  The   *)
(* families put the panels together, and the invariant InputsInv puts the  *)
(* inputs into those ranges in every reachable state.                      *)
(***************************************************************************)
EXTENDS AnalysisPanels, TLAPS

\* A span of elements is in range when it is empty or between both ends.
LEMMA SpanIn ==
  \A a, b, c \in Int : (a > b \/ (0 <= a /\ b < c)) => SpanInRange(Span(a, b, c))
BY DEF SpanInRange, Span

\* All of an array, its first and its last element; the latter two need one.
LEMMA EndsIn ==
  \A len \in Int : /\ SpanInRange(All(len))
                   /\ len > 0 => SpanInRange(FirstOf(len)) /\ SpanInRange(LastOf(len))
BY DEF SpanInRange, Span, All, FirstOf, LastOf

\* A placeholder reads nothing and divides by nothing.
LEMMA WhenNot ==
  ASSUME NEW p, NEW need, p = Placeholder(need)
  PROVE  ReadsOK(p) /\ DivsOK(p) /\ p.need = need
BY DEF ReadsOK, DivsOK, Placeholder

\* A placeholder is true: the panel asks for more candles than there are.
Asks(p, n) == ~p.shown => n < p.need

-----------------------------------------------------------------------------
(* Learning panels.                                                          *)

LEMMA RnnSound ==
  ASSUME NEW n \in Nat, NEW H \in 2..32, NEW L \in Nat, L >= 3
  PROVE  ReadsOK(Rnn(n, H, L)) /\ DivsOK(Rnn(n, H, L)) /\ (L <= 20 => Asks(Rnn(n, H, L), n))
<1> DEFINE r == n - 1  s == RnnSequences(r, L)  train == (s * 8) \div 10
<1>1. CASE n < 40 \/ s < 10
  BY <1>1, WhenNot DEF Rnn, RnnSequences, Most, Asks
<1>2. CASE ~(n < 40 \/ s < 10)
  <2>1. s \in Nat /\ s = r - L - 1 /\ train >= 8 /\ train <= s /\ train \in Int /\ r > 30
    BY <1>2 DEF RnnSequences, Most
  <2>2. Rnn(n, H, L).shown /\ 0 \notin Rnn(n, H, L).divs
    BY <1>2, <2>1 DEF Rnn, Drawn
  <2>3. ReadsOK(Rnn(n, H, L))
    BY <1>2, <2>1, SpanIn, EndsIn
    DEF ReadsOK, Rnn, Drawn, RnnView, Least, RnnTrain, RnnCell, RnnSequenceReads
  <2> QED BY <2>2, <2>3 DEF DivsOK, Asks
<1> QED BY <1>1, <1>2

LEMMA SvmSound ==
  ASSUME NEW n \in Nat, NEW W \in Nat, NEW rbf \in BOOLEAN, W >= 5
  PROVE  ReadsOK(Svm(n, W, rbf)) /\ DivsOK(Svm(n, W, rbf)) /\ (W <= 20 => Asks(Svm(n, W, rbf), n))
<1> DEFINE r == n - 1  f == SvmFeatures(r, W)  t == (f * 8) \div 10
<1>1. CASE n < 50 \/ f < 20
  BY <1>1, WhenNot DEF Svm, SvmFeatures, Most, Asks
<1>2. CASE ~(n < 50 \/ f < 20)
  <2>1. f \in Nat /\ f = r - 1 - W /\ t >= 16 /\ t <= f /\ t \in Int
    BY <1>2 DEF SvmFeatures, Most
  <2>2. Svm(n, W, rbf).shown /\ 0 \notin Svm(n, W, rbf).divs
    BY <1>2, <2>1 DEF Svm, Drawn
  <2>3. ReadsOK(Svm(n, W, rbf))
    BY <1>2, <2>1, SpanIn, EndsIn DEF ReadsOK, Svm, Drawn, SvmFeatureReads, SvmTrain, SvmView
  <2> QED BY <2>2, <2>3 DEF DivsOK, Asks
<1> QED BY <1>1, <1>2

LEMMA VaeSound ==
  ASSUME NEW n \in Nat, NEW L \in Nat, NEW W \in 4..16, L >= 40
  PROVE  ReadsOK(Vae(n, L, W)) /\ DivsOK(Vae(n, L, W)) /\ Asks(Vae(n, L, W), n)
<1> DEFINE r == L - 1  w == Most(0, r - W + 1)
<1>1. w = L - W /\ w >= 24
  BY DEF Most
<1>2. CASE n < L + 1
  BY <1>2, <1>1, WhenNot DEF Vae, Asks
<1>3. CASE n >= L + 1
  <2>1. Vae(n, L, W).shown /\ 0 \notin Vae(n, L, W).divs
    BY <1>3, <1>1 DEF Vae, Drawn
  <2>2. ReadsOK(Vae(n, L, W))
    BY <1>3, <1>1, SpanIn, EndsIn DEF ReadsOK, Vae, Drawn, VaeLayers, VaeView
  <2> QED BY <2>1, <2>2 DEF DivsOK, Asks
<1> QED BY <1>2, <1>3

LEMMA AutoencSound ==
  ASSUME NEW n \in Nat, NEW H \in 2..8
  PROVE  ReadsOK(Autoenc(n, H)) /\ DivsOK(Autoenc(n, H)) /\ Asks(Autoenc(n, H), n)
<1>1. CASE n < 40
  BY <1>1, WhenNot DEF Autoenc, Asks
<1>2. CASE n >= 40
  <2>1. Most(0, n - 20) = n - 20 /\ Least(60, n - 20) \in 20..60
    BY <1>2 DEF Most, Least
  <2>2. Autoenc(n, H).shown /\ 0 \notin Autoenc(n, H).divs
    BY <1>2, <2>1 DEF Autoenc, Drawn
  <2>3. ReadsOK(Autoenc(n, H))
    BY <1>2, <2>1, SpanIn, EndsIn DEF ReadsOK, Autoenc, Drawn, AeFeatureReads, AeTrain, AeView
  <2> QED BY <2>2, <2>3 DEF DivsOK, Asks
<1> QED BY <1>1, <1>2

LEMMA ForestSound ==
  ASSUME NEW n \in Nat, NEW S \in Nat, S >= 16
  PROVE  ReadsOK(Forest(n, S)) /\ DivsOK(Forest(n, S)) /\ Asks(Forest(n, S), n)
<1>1. CASE n < 40
  BY <1>1, WhenNot DEF Forest, Asks
<1>2. CASE n >= 40
  <2>1. Most(0, n - 20) = n - 20 /\ Least(60, n - 20) \in 20..60
    BY <1>2 DEF Most, Least
  <2>2. Forest(n, S).shown /\ 0 \notin Forest(n, S).divs
    BY <1>2, <2>1 DEF Forest, Drawn, Least
  <2>3. ReadsOK(Forest(n, S))
    BY <1>2, <2>1, SpanIn, EndsIn DEF ReadsOK, Forest, Drawn, ForestFeatureReads, ForestSample, ForestView, Least
  <2> QED BY <2>2, <2>3 DEF DivsOK, Asks
<1> QED BY <1>1, <1>2

LEMMA KMeansSound ==
  ASSUME NEW n \in Nat, NEW K \in 2..8, NEW W \in Nat, W >= 5
  PROVE  ReadsOK(KMeans(n, K, W)) /\ DivsOK(KMeans(n, K, W)) /\ (W <= 20 => Asks(KMeans(n, K, W), n))
<1> DEFINE r == n - 1  f == KmFeatures(r, W)
<1>1. CASE n < 50 \/ f < K + 1
  BY <1>1, WhenNot DEF KMeans, KmFeatures, Most, Asks
<1>2. CASE ~(n < 50 \/ f < K + 1)
  <2>1. f \in Nat /\ f = r - W
    BY <1>2 DEF KmFeatures, Most
  <2>2. KMeans(n, K, W).shown /\ 0 \notin KMeans(n, K, W).divs
    BY <1>2, <2>1 DEF KMeans, Drawn
  <2>3. \A k \in KmTried(f) \cup {K} : \A q \in KmFit(f, k) \cup KmView(f, k) : SpanInRange(q)
    BY <1>2, <2>1, SpanIn, EndsIn DEF KmTried, KmFit, KmView, Least
  <2> DEFINE fits == UNION {KmFit(f, k) \cup KmView(f, k) : k \in KmTried(f) \cup {K}}
  <2>5. \A q \in fits : SpanInRange(q)
    BY <2>3
  <2> HIDE DEF fits
  <2>4. ReadsOK(KMeans(n, K, W))
    <3>1. KMeans(n, K, W).reads = KmFeatureReads(n, r, W) \cup {LastOf(f)} \cup fits
      BY <1>2 DEF KMeans, Drawn, fits
    <3> QED BY <3>1, <2>1, <2>5, <1>2, SpanIn, EndsIn DEF ReadsOK, KmFeatureReads
  <2> QED BY <2>2, <2>4 DEF DivsOK, Asks
<1> QED BY <1>1, <1>2

\* Six and more components have no colour, a single one no axis (LeftEmpty, LeftZero).
LEMMA GmmSound ==
  ASSUME NEW n \in Nat, NEW K \in 1..8, NEW L \in Nat, L >= 50
  PROVE  /\ K <= 5 => ReadsOK(Gmm(n, K, L))
         /\ K # 1 => DivsOK(Gmm(n, K, L))
         /\ Asks(Gmm(n, K, L), n)
<1>1. CASE n < L + 1
  BY <1>1, WhenNot DEF Gmm, Asks
<1>2. CASE n >= L + 1
  <2>1. Gmm(n, K, L).shown /\ (K # 1 => 0 \notin Gmm(n, K, L).divs)
    BY <1>2 DEF Gmm, Drawn, GmmView
  <2> DEFINE fits == UNION {GmmFit(L, k) : k \in 1..K}
  <2>2. \A q \in fits : SpanInRange(q)
    BY EndsIn DEF GmmFit
  <2> HIDE DEF fits
  <2>3. Gmm(n, K, L).reads = fits \cup {FirstOf(K), LastOf(L), Span(0, K - 1, K)} \cup GmmView(K).reads
    BY <1>2 DEF Gmm, Drawn, fits
  <2>4. K <= 5 => ReadsOK(Gmm(n, K, L))
    BY <2>2, <2>3, SpanIn, EndsIn DEF ReadsOK, GmmView
  <2> QED BY <2>1, <2>4 DEF DivsOK, Asks
<1> QED BY <1>1, <1>2

LEMMA PcaSound ==
  ASSUME NEW n \in Nat, NEW L \in Nat, NEW S \in Nat, L >= 20
  PROVE  ReadsOK(Pca(n, L, S)) /\ DivsOK(Pca(n, L, S)) /\ (S = 3 => Asks(Pca(n, L, S), n))
<1>1. CASE n < L + 1 \/ S < 2
  BY <1>1, WhenNot DEF Pca, Asks
<1>2. CASE ~(n < L + 1 \/ S < 2)
  <2>1. Pca(n, L, S).shown /\ 0 \notin Pca(n, L, S).divs
    BY <1>2 DEF Pca, Drawn
  <2>2. ReadsOK(Pca(n, L, S))
    BY <1>2, SpanIn, EndsIn DEF ReadsOK, Pca, Drawn, PcaDecompose, PcaView, Least
  <2> QED BY <2>1, <2>2 DEF DivsOK, Asks
<1> QED BY <1>1, <1>2

LEMMA GpSound ==
  ASSUME NEW n \in Nat, NEW T \in Nat, NEW P \in Nat, T >= 10, P >= 1
  PROVE  ReadsOK(Gp(n, T, P)) /\ DivsOK(Gp(n, T, P)) /\ Asks(Gp(n, T, P), n)
<1>1. CASE n < T + P + 5
  BY <1>1, WhenNot DEF Gp, Asks
<1>2. CASE n >= T + P + 5
  <2>1. Gp(n, T, P).shown /\ 0 \notin Gp(n, T, P).divs
    BY <1>2 DEF Gp, Drawn, GpView
  <2>2. ReadsOK(Gp(n, T, P))
    BY <1>2, SpanIn, EndsIn DEF ReadsOK, Gp, Drawn, GpSolve, GpView
  <2> QED BY <2>1, <2>2 DEF DivsOK, Asks
<1> QED BY <1>1, <1>2

-----------------------------------------------------------------------------
(***************************************************************************)
(* Powers of two, and quotients.                                           *)
(***************************************************************************)
\* The powers of two up to 2048, by name and by what they are.
LEMMA PowersAre == Powers = {1, 2, 4, 8, 16, 32, 64, 128, 256, 512, 1024, 2048}
BY DEF Powers, Pow2

LEMMA PowersPositive == \A p \in Powers : p \in Nat \ {0}
BY PowersAre

LEMMA PowerIn == \A k \in 0..11 : Pow2(k) \in Powers
BY DEF Powers

LEMMA Doubles == \A k \in 1..11 : Pow2(k) = 2 * Pow2(k - 1)
BY DEF Pow2

\* The length an FFT pads to: a power of two, not below the length of the data.
LEMMA Pow2CeilIs ==
  ASSUME NEW n \in Nat, n <= 2048
  PROVE  Pow2Ceil(n) \in Powers /\ Pow2Ceil(n) >= n
<1>1. \E p \in Powers : p >= n /\ \A q \in Powers : q >= n => p <= q
  <2>1. CASE n <= 32
    BY <2>1, PowersAre
  <2>2. CASE n > 32
    BY <2>2, PowersAre
  <2> QED BY <2>1, <2>2
<1> QED BY <1>1 DEF Pow2Ceil

\* Division by d of a multiple of d, and of the number just below it.
LEMMA Multiple ==
  ASSUME NEW c \in Nat \ {0}, NEW d \in Nat \ {0}
  PROVE  (c * d - 1) \div d = c - 1 /\ (c * d) \div d = c
BY Z3

\* Whole blocks of d elements fit into a elements.
LEMMA WholeSteps ==
  ASSUME NEW a \in Nat, NEW d \in Nat \ {0}
  PROVE  a \div d \in Nat /\ (a \div d) * d <= a
BY Z3

\* A smaller power of two divides a larger one.
LEMMA PowersDivide ==
  ASSUME NEW p \in Powers, NEW q \in Powers, q <= p
  PROVE  \E c \in Powers : p = c * q
<1>1. CASE q = 1
  BY <1>1, PowersAre
<1>2. CASE q = 2
  BY <1>2, PowersAre
<1>3. CASE q = 4
  BY <1>3, PowersAre
<1>4. CASE q = 8
  BY <1>4, PowersAre
<1>5. CASE q = 16
  BY <1>5, PowersAre
<1>6. CASE q >= 32
  BY <1>6, PowersAre
<1> QED BY <1>1, <1>2, <1>3, <1>4, <1>5, <1>6, PowersAre

\* The butterflies of every stage stay in the padded array.
LEMMA FftIn ==
  ASSUME NEW m \in Powers
  PROVE  \A q \in FftReads(m) : SpanInRange(q)
<1> SUFFICES ASSUME NEW len \in Powers, 2 <= len, len <= m
             PROVE  SpanInRange(Span(0, ((m - 1) \div len) * len + len - 1, m))
  BY DEF FftReads
<1>1. PICK c \in Powers : m = c * len
  BY PowersDivide
<1>2. c \in Nat \ {0} /\ len \in Nat \ {0} /\ m \in Nat
  BY PowersAre
<1>3. (m - 1) \div len = c - 1
  BY <1>1, <1>2, Multiple
<1>4. (c - 1) * len + len = m
  BY <1>1, <1>2, Z3
<1>5. (c - 1) * len \in Int
  BY <1>2, Z3
<1> DEFINE e == (c - 1) * len
<1> HIDE DEF e
<1>6. SpanInRange(Span(0, e + len - 1, m))
  BY <1>2, <1>4, <1>5, SpanIn DEF e
<1> QED BY <1>3, <1>6 DEF e

-----------------------------------------------------------------------------
(* Signal processing and entropy.                                            *)

LEMMA EmdSound ==
  ASSUME NEW n \in Nat, NEW K \in 2..8
  PROVE  ReadsOK(Emd(n, K)) /\ DivsOK(Emd(n, K)) /\ Asks(Emd(n, K), n)
<1> DEFINE N == Least(128, n)
<1>1. CASE n < 32
  BY <1>1, WhenNot DEF Emd, Asks
<1>2. CASE n >= 32
  <2>1. N \in 32..128
    BY <1>2 DEF Least
  <2>2. Emd(n, K).shown /\ 0 \notin Emd(n, K).divs
    BY <1>2, <2>1 DEF Emd, Drawn
  <2> HIDE DEF N
  <2>3. \A k \in {2, 3, N \div 2, N} : \A q \in EmdSpline(k) : SpanInRange(q)
    BY <2>1, SpanIn, EndsIn DEF EmdSpline
  <2>4. \A q \in EmdSift(N) : SpanInRange(q)
    <3>1. \A q \in UNION {EmdSpline(k) : k \in {2, 3, N \div 2, N}} : SpanInRange(q)
      BY <2>3
    <3>2. \A q \in EmdExtrema(N) : SpanInRange(q)
      BY <2>1, SpanIn DEF EmdExtrema
    <3> QED BY <3>1, <3>2 DEF EmdSift
  <2>5. \A q \in EmdHilbert(N) : SpanInRange(q)
    <3>1. Pow2Ceil(N) \in Powers /\ Pow2Ceil(N) >= N
      BY <2>1, Pow2CeilIs
    <3> QED BY <2>1, <3>1, PowersPositive, FftIn, SpanIn, EndsIn DEF EmdHilbert
  <2>6. \A modes \in 1..K : \A q \in EmdView(N, modes) : SpanInRange(q)
    BY <2>1, SpanIn, EndsIn DEF EmdView
  <2>7. Emd(n, K).reads = EmdSift(N) \cup EmdHilbert(N) \cup {Span(N - 2, N - 1, N)}
                          \cup UNION {EmdView(N, modes) : modes \in 1..K}
    BY <1>2 DEF Emd, Drawn, N
  <2>8. ReadsOK(Emd(n, K))
    <3>1. \A q \in UNION {EmdView(N, modes) : modes \in 1..K} : SpanInRange(q)
      BY <2>6
    <3>2. SpanInRange(Span(N - 2, N - 1, N))
      BY <2>1, SpanIn
    <3> QED BY <2>4, <2>5, <2>7, <3>1, <3>2 DEF ReadsOK
  <2> QED BY <2>2, <2>8 DEF DivsOK, Asks
<1> QED BY <1>1, <1>2

LEMMA VmdSound ==
  ASSUME NEW n \in Nat, NEW K \in 2..8
  PROVE  ReadsOK(Vmd(n, K)) /\ DivsOK(Vmd(n, K)) /\ Asks(Vmd(n, K), n)
<1> DEFINE N == Least(128, n)
<1>1. CASE n < 32
  BY <1>1, WhenNot DEF Vmd, Asks
<1>2. CASE n >= 32
  <2>1. N \in 32..128
    BY <1>2 DEF Least
  <2>2. Vmd(n, K).shown /\ 0 \notin Vmd(n, K).divs
    BY <1>2, <2>1 DEF Vmd, Drawn
  <2>3. Pow2Ceil(3 * N) \in Powers /\ Pow2Ceil(3 * N) >= 3 * N
    BY <2>1, Pow2CeilIs
  <2>4. ReadsOK(Vmd(n, K))
    <3> HIDE DEF N
    <3>1. \A q \in VmdFft(3 * N) : SpanInRange(q)
      BY <2>1, <2>3, FftIn, EndsIn DEF VmdFft
    <3>2. \A q \in VmdModes(N, K) : SpanInRange(q)
      BY <2>1, <2>3, PowersPositive, SpanIn, EndsIn DEF VmdModes
    <3>3. \A q \in VmdView(N, K) \cup {Span(N - 2, N - 1, N)} : SpanInRange(q)
      BY <2>1, SpanIn, EndsIn DEF VmdView
    <3>4. Vmd(n, K).reads = VmdFft(3 * N) \cup VmdModes(N, K) \cup {Span(N - 2, N - 1, N)} \cup VmdView(N, K)
      BY <1>2 DEF Vmd, Drawn, N
    <3> QED BY <3>1, <3>2, <3>3, <3>4 DEF ReadsOK
  <2> QED BY <2>2, <2>4 DEF DivsOK, Asks
<1> QED BY <1>1, <1>2

LEMMA WaveletPacketSound ==
  ASSUME NEW n \in Nat, NEW L \in Nat, NEW D \in 2..7, n <= 2048, L >= 32
  PROVE  ReadsOK(WaveletPacket(n, L, D)) /\ DivsOK(WaveletPacket(n, L, D)) /\ Asks(WaveletPacket(n, L, D), n)
<1> DEFINE r == L - 1  m == Pow2Ceil(r)
<1>1. CASE n < L + 1
  BY <1>1, WhenNot DEF WaveletPacket, Asks
<1>2. CASE n >= L + 1
  <2>1. m \in Powers /\ m >= r /\ m \in Nat
    <3>1. r \in 0..2048
      BY <1>2
    <3> QED BY <3>1, Pow2CeilIs, PowersPositive
  <2>2. \A l \in 0..D : Pow2(l) \in Nat \ {0}
    BY PowerIn, PowersAre
  <2>3. WaveletPacket(n, L, D).shown /\ 0 \notin WaveletPacket(n, L, D).divs
    BY <1>2, <2>2 DEF WaveletPacket, Drawn
  <2>4. \A q \in WpTree(m, D) : SpanInRange(q)
    <3> SUFFICES ASSUME NEW l \in 1..D
                 PROVE  /\ SpanInRange(Span(0, (Pow2(l) - 2) \div 2, Pow2(l - 1)))
                        /\ SpanInRange(Span(0, Pow2(l) - 1, Pow2(l)))
      BY DEF WpTree
    <3>1. Pow2(l) = 2 * Pow2(l - 1) /\ Pow2(l - 1) \in Nat \ {0}
      BY <2>2, Doubles
    <3> QED BY <3>1, SpanIn
  <2>5. \A q \in WpThreshold(m) \cup WpView(D) \cup {All(L), Span(0, r - 1, m), LastOf(D + 1), FirstOf(Pow2(D))} :
          SpanInRange(q)
    BY <2>1, <2>2, SpanIn, EndsIn DEF WpThreshold, WpView
  <2>6. WaveletPacket(n, L, D).reads = {All(L), Span(0, r - 1, m), LastOf(D + 1), FirstOf(Pow2(D))} \cup WpTree(m, D)
                                       \cup WpThreshold(m) \cup WpView(D)
    BY <1>2 DEF WaveletPacket, Drawn
  <2>7. ReadsOK(WaveletPacket(n, L, D))
    BY <2>4, <2>5, <2>6 DEF ReadsOK
  <2> QED BY <2>3, <2>7 DEF DivsOK, Asks
<1> QED BY <1>1, <1>2

\* Halving a power of two as often as there are levels.
LEMMA PowerRatio ==
  ASSUME NEW k \in 0..11, NEW l \in 0..k
  PROVE  Pow2(k) \div Pow2(l) = Pow2(k - l)
<1>1. Pow2(k) = Pow2(k - l) * Pow2(l)
  <2>1. CASE l \in 0..3
    BY <2>1 DEF Pow2
  <2>2. CASE l \in 4..7
    BY <2>2 DEF Pow2
  <2>3. CASE l \in 8..11
    BY <2>3 DEF Pow2
  <2> QED BY <2>1, <2>2, <2>3
<1>2. Pow2(k - l) \in Nat \ {0} /\ Pow2(l) \in Nat \ {0}
  BY PowerIn, PowersAre
<1> QED BY <1>1, <1>2, Multiple

LEMMA WaveletSound ==
  ASSUME NEW n \in Nat, NEW D \in 1..8, n <= 2048
  PROVE  ReadsOK(Wavelet(n, D)) /\ DivsOK(Wavelet(n, D)) /\ Asks(Wavelet(n, D), n)
<1> DEFINE m == Pow2Ceil(n)  J == WaveletLevels(m, D)
<1>1. CASE n < 16
  BY <1>1, WhenNot DEF Wavelet, Asks
<1>2. CASE n >= 16
  <2>1. m \in Powers /\ m >= n
    BY Pow2CeilIs
  <2> HIDE DEF m
  <2>2. \E k \in 0..11 : Pow2(k) = m
    BY <2>1 DEF Powers
  <2> DEFINE top == CHOOSE k \in 0..11 : Pow2(k) = m
  <2>3. top \in 0..11 /\ Pow2(top) = m
    BY <2>2
  <2>4. J = Least(D, top)
    BY DEF WaveletLevels
  <2> HIDE DEF top, J
  <2>5. top > 3
    BY <1>2, <2>1, <2>3 DEF Pow2
  <2>6. J \in 1..8 /\ J <= top
    BY <2>3, <2>4, <2>5 DEF Least
  <2>7. \A l \in 0..J : /\ m \div Pow2(l) \in Nat \ {0}
                        /\ l < J => m \div Pow2(l) = 2 * (m \div Pow2(l + 1))
    <3> TAKE l \in 0..J
    <3>1. l \in 0..top /\ m \div Pow2(l) = Pow2(top - l)
      BY <2>3, <2>6, PowerRatio
    <3>2. Pow2(top - l) \in Nat \ {0}
      BY <2>3, <3>1, PowerIn, PowersPositive
    <3>3. ASSUME l < J
          PROVE  m \div Pow2(l) = 2 * (m \div Pow2(l + 1))
      <4>1. l + 1 \in 0..top
        BY <2>3, <2>6, <3>3
      <4>2. m \div Pow2(l + 1) = Pow2(top - (l + 1))
        BY <2>3, <4>1, PowerRatio
      <4>3. top - l \in 1..11 /\ top - (l + 1) = top - l - 1
        BY <2>3, <2>6, <3>3
      <4>4. Pow2(top - l) = 2 * Pow2(top - l - 1)
        BY <4>3, Doubles
      <4> QED BY ONLY <3>1, <4>2, <4>3, <4>4
    <3> QED BY <3>1, <3>2, <3>3
  <2>8. 0 \notin WaveletDivs(m, D)
    BY <2>6, <2>7 DEF WaveletDivs, J
  <2>9. \A q \in WaveletSteps(m, D) : SpanInRange(q)
    <3> SUFFICES ASSUME NEW l \in 0..(J - 1), NEW tap \in 0..3
                 PROVE  LET len == m \div Pow2(l) IN
                        /\ SpanInRange(Span(0, len \div 2 - 1, len \div 2))
                        /\ SpanInRange(Span(0, (2 * (len \div 2 - 1) + tap) % len, len))
      BY DEF WaveletSteps, J
    <3> DEFINE len == m \div Pow2(l)  half == m \div Pow2(l + 1)
    <3>1. len = 2 * half /\ half \in Nat \ {0}
      BY <2>6, <2>7
    <3> HIDE DEF len, half
    <3>2. SpanInRange(Span(0, len \div 2 - 1, len \div 2))
      BY <3>1, SpanIn
    <3>3. (2 * (len \div 2 - 1) + tap) % len \in 0..(len - 1)
      BY <3>1
    <3>4. SpanInRange(Span(0, (2 * (len \div 2 - 1) + tap) % len, len))
      BY <3>1, <3>3, SpanIn
    <3> QED BY <3>2, <3>4 DEF len
  <2>10. Wavelet(n, D).divs = WaveletDivs(m, D) \cup {n - 1} /\ Wavelet(n, D).shown
    BY <1>2 DEF Wavelet, WaveletView, Drawn, m
  <2>11. Wavelet(n, D).reads = {Span(0, n - 1, m), LastOf(n), Span(n - 2, n - 1, n), FirstOf(J + 1)}
                               \cup WaveletSteps(m, D) \cup {All(n), All(J + 1), LastOf(J + 1)}
    BY <1>2 DEF Wavelet, WaveletView, Drawn, m, J
  <2>12. ReadsOK(Wavelet(n, D))
    <3>1. m \in Nat /\ J \in Nat
      BY <2>1, <2>6, PowersPositive
    <3>2. \A q \in {Span(0, n - 1, m), LastOf(n), Span(n - 2, n - 1, n), FirstOf(J + 1)} : SpanInRange(q)
      BY <1>2, <2>1, <3>1, SpanIn, EndsIn
    <3>3. \A q \in {All(n), All(J + 1), LastOf(J + 1)} : SpanInRange(q)
      BY <3>1, EndsIn
    <3> QED BY <2>9, <2>11, <3>2, <3>3 DEF ReadsOK
  <2> QED BY <1>2, <2>8, <2>10, <2>12 DEF DivsOK, Asks
<1> QED BY <1>1, <1>2

LEMMA SpectralSound ==
  ASSUME NEW n \in Nat
  PROVE  ReadsOK(Spectral(n)) /\ DivsOK(Spectral(n)) /\ Asks(Spectral(n), n)
<1> DEFINE r == Least(128, n) - 1  seg == SpectralSegment(r)  bins == seg \div 2
<1>1. CASE n < 32
  BY <1>1, WhenNot DEF Spectral, Asks, Least
<1>2. CASE n >= 32
  <2>1. r \in 31..127
    BY <1>2 DEF Least
  <2> HIDE DEF r
  <2>2. seg \in 15..32 /\ seg <= r
    BY <2>1 DEF SpectralSegment, Least
  <2> HIDE DEF seg
  <2>3. bins \in 7..16
    BY <2>2
  <2> HIDE DEF bins
  <2>4. Spectral(n).shown /\ Spectral(n).divs = {r, seg, seg - 1, bins, bins}
    BY <1>2, <2>1 DEF Spectral, Drawn, r, seg, bins
  <2>5. \A q \in SpectralWelch(r, seg) : SpanInRange(q)
    <3> DEFINE steps == (r - seg) \div bins
    <3>1. r - seg \in Nat /\ bins \in Nat \ {0}
      BY <2>1, <2>2, <2>3
    <3>2. steps \in Nat /\ steps * bins <= r - seg
      BY <3>1, WholeSteps
    <3> HIDE DEF steps
    <3> DEFINE past == steps * bins
    <3>3. past \in Int /\ past <= r - seg
      BY <3>1, <3>2, Z3
    <3> DEFINE count == steps + 1
    <3>4. (count - 1) * bins = past
      BY <3>2
    <3>5. SpectralWelch(r, seg) = {Span(0, past + seg - 1, r), All(bins), Span(0, bins - 1, seg)}
      <4>1. SpectralWelch(r, seg) = {Span(0, (count - 1) * bins + seg - 1, r), All(bins), Span(0, bins - 1, seg)}
        BY DEF SpectralWelch, steps, bins
      <4> HIDE DEF past, count
      <4> QED BY <3>4, <4>1
    <3> HIDE DEF past
    <3>6. bins - 1 < seg
      BY <2>2 DEF bins
    <3> QED BY <2>1, <2>2, <2>3, <3>3, <3>5, <3>6, SpanIn, EndsIn
  <2>6. \A q \in SpectralCycles(bins) \cup SpectralView(bins) \cup {LastOf(n)} : SpanInRange(q)
    BY <1>2, <2>3, SpanIn, EndsIn DEF SpectralCycles, SpectralView, Least
  <2>7. Spectral(n).reads = SpectralWelch(r, seg) \cup SpectralCycles(bins) \cup SpectralView(bins) \cup {LastOf(n)}
    BY <1>2, <2>1 DEF Spectral, Drawn, r, seg, bins
  <2> QED BY <2>1, <2>2, <2>3, <2>4, <2>5, <2>6, <2>7 DEF ReadsOK, DivsOK, Asks
<1> QED BY <1>1, <1>2

LEMMA NonStationarySound ==
  ASSUME NEW n \in Nat, NEW L \in Nat, NEW w \in Nat, L >= 50, w >= 4, w <= 64
  PROVE  ReadsOK(NonStationary(n, L, w)) /\ DivsOK(NonStationary(n, L, w)) /\ Asks(NonStationary(n, L, w), n)
<1> DEFINE r == L - 1  f == NsFrames(r, w)
<1>1. CASE n < L + 1
  BY <1>1, WhenNot DEF NonStationary, Asks
<1>2. CASE n >= L + 1
  <2>1. f \in Nat /\ (f > 0 => (f - 1) * 4 + w <= r)
    BY DEF NsFrames
  <2>2. NonStationary(n, L, w).shown /\ 0 \notin NonStationary(n, L, w).divs
    BY <1>2, <2>1 DEF NonStationary, Drawn, NsView
  <2>3. ReadsOK(NonStationary(n, L, w))
    BY <1>2, <2>1, SpanIn, EndsIn DEF ReadsOK, NonStationary, Drawn, NsView, NsStft
  <2> QED BY <2>2, <2>3 DEF DivsOK, Asks
<1> QED BY <1>1, <1>2

LEMMA CompressedSound ==
  ASSUME NEW n \in Nat, NEW L \in Nat, NEW S \in 1..20, L >= 16
  PROVE  ReadsOK(Compressed(n, L, S)) /\ DivsOK(Compressed(n, L, S)) /\ Asks(Compressed(n, L, S), n)
<1> DEFINE r == L - 1
<1>1. CASE n < L + 1
  BY <1>1, WhenNot DEF Compressed, Asks
<1>2. CASE n >= L + 1
  <2>1. Compressed(n, L, S).shown /\ 0 \notin Compressed(n, L, S).divs
    BY <1>2 DEF Compressed, Drawn
  <2>2. \A m \in {r \div 10, r \div 2} : \A q \in CsRecover(m, r, S) : SpanInRange(q)
    <3> TAKE m \in {r \div 10, r \div 2}
    <3>1. m \in Nat /\ m > 0
      <4>1. r \div 10 \in Nat /\ r \div 10 > 0 /\ r \div 2 \in Nat /\ r \div 2 > 0
        OBVIOUS
      <4> QED BY <4>1
    <3>2. \A s \in 1..S : \A q \in CsLeastSquares(m, s) : SpanInRange(q)
      BY <3>1, SpanIn, EndsIn DEF CsLeastSquares
    <3>3. \A q \in UNION {CsLeastSquares(m, s) : s \in 1..S} : SpanInRange(q)
      BY <3>2
    <3> QED BY <3>1, <3>3, EndsIn DEF CsRecover
  <2>3. \A q \in UNION {CsRecover(m, r, S) : m \in {r \div 10, r \div 2}} : SpanInRange(q)
    BY <2>2
  <2>4. \A q \in {All(L)} \cup CsView(r) : SpanInRange(q)
    BY EndsIn DEF CsView, Least
  <2>5. Compressed(n, L, S).reads = {All(L)} \cup CsView(r) \cup UNION {CsRecover(m, r, S) : m \in {r \div 10, r \div 2}}
    BY <1>2 DEF Compressed, Drawn
  <2>6. ReadsOK(Compressed(n, L, S))
    BY ONLY <2>3, <2>4, <2>5 DEF ReadsOK
  <2> QED BY <2>1, <2>6 DEF DivsOK, Asks
<1> QED BY <1>1, <1>2

LEMMA DtwSound ==
  ASSUME NEW n \in Nat, NEW w \in Nat, NEW b \in Nat, w >= 10, b >= 1
  PROVE  ReadsOK(Dtw(n, w, b)) /\ DivsOK(Dtw(n, w, b)) /\ Asks(Dtw(n, w, b), n)
<1> DEFINE x == Least(w, n)
<1>1. CASE n < 40
  BY <1>1, WhenNot DEF Dtw, Asks
<1>2. CASE n >= 40
  <2>1. x \in Nat /\ x >= 10
    BY <1>2 DEF Least
  <2>2. Dtw(n, w, b).shown /\ 0 \notin Dtw(n, w, b).divs
    BY <1>2, <2>1 DEF Dtw, Drawn, DtwView, Most
  <2> HIDE DEF x
  <2>3. \A y \in Templates : \A q \in DtwCells(x, y, b) : SpanInRange(q)
    <3> TAKE y \in Templates
    <3> DEFINE d == DtwBand(x, y, b)  low == Most(1, x - d)  high == Least(y, x + d)
    <3>1. y \in Nat /\ y > 0 /\ d \in Nat /\ d >= y - x /\ d >= x - y
      BY <2>1 DEF Templates, DtwBand, Most
    <3> HIDE DEF d
    <3>2. low \in Nat /\ low >= 1 /\ low <= y /\ high = y
      BY <2>1, <3>1 DEF Most, Least
    <3>3. DtwCells(x, y, b) = {Span(0, x, x + 1), Span(0, high, y + 1), Span(0, x - 1, x), Span(0, y - 1, y),
                               Span(y - low, y - low, high - low + 1)}
      BY DEF DtwCells, d
    <3> HIDE DEF low, high
    <3> QED BY <2>1, <3>1, <3>2, <3>3, SpanIn
  <2>4. \A q \in UNION {DtwCells(x, y, b) : y \in Templates} : SpanInRange(q)
    BY <2>3
  <2>5. \A q \in DtwView(x).reads \cup (IF w <= n THEN DtwWindows(n, w) ELSE {}) : SpanInRange(q)
    BY <2>1, SpanIn, EndsIn DEF DtwView, DtwWindows, Most
  <2>6. Dtw(n, w, b).reads = DtwView(x).reads \cup (IF w <= n THEN DtwWindows(n, w) ELSE {})
                             \cup UNION {DtwCells(x, y, b) : y \in Templates}
    BY <1>2 DEF Dtw, Drawn, x
  <2>7. ReadsOK(Dtw(n, w, b))
    BY ONLY <2>4, <2>5, <2>6 DEF ReadsOK
  <2> QED BY <2>2, <2>7 DEF DivsOK, Asks
<1> QED BY <1>1, <1>2

LEMMA KoopmanSound ==
  ASSUME NEW n \in Nat, NEW L \in Nat, NEW P \in 1..4, L >= 50
  PROVE  ReadsOK(Koopman(n, L, P)) /\ DivsOK(Koopman(n, L, P)) /\ Asks(Koopman(n, L, P), n)
<1>1. CASE n < L + 1
  BY <1>1, WhenNot DEF Koopman, Asks
<1>2. CASE n >= L + 1
  <2>1. Koopman(n, L, P).shown /\ 0 \notin Koopman(n, L, P).divs
    BY <1>2 DEF Koopman, Drawn
  <2>2. ReadsOK(Koopman(n, L, P))
    BY <1>2, SpanIn, EndsIn DEF ReadsOK, Koopman, Drawn, KoopmanEdmd, KoopmanView, KoopmanDim, Least
  <2> QED BY <2>1, <2>2 DEF DivsOK, Asks
<1> QED BY <1>1, <1>2

\* Without any divergence the fitted line has no first point (LeftEmpty).
LEMMA KsSound ==
  ASSUME NEW n \in Nat, NEW L \in Nat, NEW q \in 0..20, L >= 100
  PROVE  /\ q # 0 => ReadsOK(Ks(n, L, q))
         /\ DivsOK(Ks(n, L, q)) /\ Asks(Ks(n, L, q), n)
<1> DEFINE r == L - 1
<1>1. CASE n < L + 1
  BY <1>1, WhenNot DEF Ks, Asks
<1>2. CASE n >= L + 1
  <2>1. Ks(n, L, q).shown /\ 0 \notin Ks(n, L, q).divs
    BY <1>2 DEF Ks, Drawn, KsView
  <2>2. \A lag \in 1..20 : \A e \in KsLyapunov(r, lag) : SpanInRange(e)
    BY SpanIn DEF KsLyapunov
  <2>3. \A e \in UNION {KsLyapunov(r, lag) : lag \in 1..20} : SpanInRange(e)
    BY <2>2
  <2>4. \A e \in {All(L), Span(8 - 2, 8 - 2, 8)} \cup KsBlocks(r, 8) : SpanInRange(e)
    BY SpanIn, EndsIn DEF KsBlocks
  <2>5. q # 0 => \A e \in KsView(q).reads : SpanInRange(e)
    BY EndsIn DEF KsView
  <2>6. Ks(n, L, q).reads = {All(L), Span(8 - 2, 8 - 2, 8)} \cup KsBlocks(r, 8)
                            \cup (UNION {KsLyapunov(r, lag) : lag \in 1..20}) \cup KsView(q).reads
    BY <1>2 DEF Ks, Drawn
  <2>7. q # 0 => ReadsOK(Ks(n, L, q))
    BY ONLY <2>3, <2>4, <2>5, <2>6 DEF ReadsOK
  <2> QED BY <2>1, <2>7 DEF DivsOK, Asks
<1> QED BY <1>1, <1>2

LEMMA TeSound ==
  ASSUME NEW n \in Nat, NEW L \in Nat, NEW k \in 1..3, L >= 50
  PROVE  ReadsOK(Te(n, L, k)) /\ DivsOK(Te(n, L, k)) /\ Asks(Te(n, L, k), n)
<1>1. CASE n < L + 1
  BY <1>1, WhenNot DEF Te, Asks
<1>2. CASE n >= L + 1
  <2>1. Te(n, L, k).shown /\ 0 \notin Te(n, L, k).divs
    BY <1>2 DEF Te, Drawn, TeHistories, Most
  <2>2. ReadsOK(Te(n, L, k))
    BY <1>2, SpanIn, EndsIn DEF ReadsOK, Te, Drawn, TeReads, TeView, TeHistories, Most
  <2> QED BY <2>1, <2>2 DEF DivsOK, Asks
<1> QED BY <1>1, <1>2

LEMMA RenyiSound ==
  ASSUME NEW n \in Nat, NEW L \in Nat, NEW w \in Nat, L >= 60, w >= 20
  PROVE  ReadsOK(Renyi(n, L, w)) /\ DivsOK(Renyi(n, L, w)) /\ Asks(Renyi(n, L, w), n)
<1> DEFINE r == L - 1  k == RenyiWindows(r, w)  stride == Most(3, w \div 4)
<1>1. CASE n < L + 1
  BY <1>1, WhenNot DEF Renyi, Asks
<1>2. CASE n >= L + 1
  <2>1. stride \in Nat \ {0}
    BY DEF Most
  <2> HIDE DEF stride
  <2>2. k \in Nat /\ (k > 0 => (k - 1) * stride \in Int /\ (k - 1) * stride <= r - w)
    <3>1. CASE w > r
      BY <3>1 DEF RenyiWindows
    <3>2. CASE w <= r
      <4>1. r - w \in Nat
        BY <3>2
      <4> DEFINE steps == (r - w) \div stride
      <4>2. steps \in Nat /\ steps * stride <= r - w
        BY <2>1, <4>1, WholeSteps
      <4>3. k = steps + 1
        BY <3>2 DEF RenyiWindows, stride
      <4> HIDE DEF steps, k
      <4>4. steps * stride \in Int
        BY <2>1, <4>2, Z3
      <4>5. k \in Nat /\ k - 1 = steps
        BY <4>2, <4>3
      <4> QED BY <4>2, <4>4, <4>5
    <3> QED BY <3>1, <3>2
  <2> HIDE DEF k
  <2>3. Renyi(n, L, w).shown /\ Renyi(n, L, w).divs = {r, 20} \cup RenyiView(k).divs
    BY <1>2 DEF Renyi, Drawn, k
  <2>4. 0 \notin Renyi(n, L, w).divs
    BY <2>2, <2>3 DEF RenyiView
  <2>5. Renyi(n, L, w).reads = RenyiHistogram(r, 20) \cup RenyiView(k).reads
                               \cup (IF k > 0 THEN {Span(0, (k - 1) * stride + w - 1, r)} ELSE {})
    BY <1>2 DEF Renyi, Drawn, k, stride
  <2> DEFINE past == (k - 1) * stride
  <2>6. \A q \in RenyiHistogram(r, 20) \cup RenyiView(k).reads : SpanInRange(q)
    BY <2>2, SpanIn, EndsIn DEF RenyiHistogram, RenyiView
  <2>7. k > 0 => SpanInRange(Span(0, past + w - 1, r))
    <3>1. k > 0 => past \in Int /\ past <= r - w
      BY <2>2
    <3> HIDE DEF past
    <3> QED BY <3>1, SpanIn
  <2>8. ReadsOK(Renyi(n, L, w))
    BY <2>5, <2>6, <2>7 DEF ReadsOK
  <2> QED BY <2>3, <2>4, <2>8 DEF DivsOK, Asks
<1> QED BY <1>1, <1>2

-----------------------------------------------------------------------------
(* Stochastic models, risk and sampling.                                     *)

\* A percentile below 100 is an element of a list that is not empty.
LEMMA PercentileIn ==
  ASSUME NEW len \in Nat \ {0}, NEW pct \in 0..99
  PROVE  SpanInRange(Percentile(len, pct))
<1> DEFINE part == len * pct
<1>1. part \in Nat /\ part <= len * 99
  BY Z3
<1> HIDE DEF part
<1>2. part \div 100 \in 0..(len - 1)
  BY <1>1
<1>3. SpanInRange(Span(part \div 100, part \div 100, len))
  BY <1>2, SpanIn
<1> QED BY <1>3 DEF Percentile, part

LEMMA BayesSound ==
  ASSUME NEW n \in Nat, NEW L \in Nat, NEW s \in Nat, L >= 5, s >= 1
  PROVE  ReadsOK(Bayes(n, L, s)) /\ DivsOK(Bayes(n, L, s)) /\ Asks(Bayes(n, L, s), n)
<1> DEFINE r == n - 1  rows == BayesRows(r, L)
<1>1. CASE n < 30
  BY <1>1, WhenNot DEF Bayes, Asks
<1>2. CASE n >= 30
  <2>1. rows \in Nat /\ (rows > 0 => rows = r - 1 - L)
    BY <1>2 DEF BayesRows, Most
  <2>2. Bayes(n, L, s).shown /\ 0 \notin Bayes(n, L, s).divs
    BY <1>2, <2>1 DEF Bayes, Drawn, BayesView, Most, Least
  <2>3. \A q \in BayesRowReads(r, L) : SpanInRange(q)
    BY <1>2, <2>1, SpanIn DEF BayesRowReads, Least
  <2>4. \A q \in BayesRuns(r) \cup BayesNext(r) : SpanInRange(q)
    BY <1>2, SpanIn DEF BayesRuns, BayesNext, Most
  <2>5. \A q \in BayesRidge(rows, 5) \cup BayesView(rows).reads \cup {LastOf(n)} : SpanInRange(q)
    BY <1>2, <2>1, EndsIn DEF BayesRidge, BayesView, Least
  <2>6. Bayes(n, L, s).reads = BayesRuns(r) \cup BayesRowReads(r, L) \cup BayesRidge(rows, 5) \cup BayesNext(r)
                               \cup BayesView(rows).reads \cup {LastOf(n)}
    BY <1>2 DEF Bayes, Drawn
  <2>7. ReadsOK(Bayes(n, L, s))
    BY ONLY <2>3, <2>4, <2>5, <2>6 DEF ReadsOK
  <2> QED BY <2>2, <2>7 DEF DivsOK, Asks
<1> QED BY <1>1, <1>2

LEMMA SdeSound ==
  ASSUME NEW n \in Nat, NEW P \in Nat, P >= 10
  PROVE  ReadsOK(Sde(n, P)) /\ DivsOK(Sde(n, P)) /\ Asks(Sde(n, P), n)
<1>1. CASE n < 30
  BY <1>1, WhenNot DEF Sde, Asks
<1>2. CASE n >= 30
  <2>1. Sde(n, P).shown /\ 0 \notin Sde(n, P).divs
    BY <1>2 DEF Sde, Drawn
  <2>2. ReadsOK(Sde(n, P))
    <3>1. \A q \in {Percentile(P, pct) : pct \in {5, 25, 50, 75, 95}} : SpanInRange(q)
      BY PercentileIn
    <3>2. \A q \in SdeEstimate(n - 1) \cup SdePath(100) \cup {LastOf(n), LastOf(100), All(P)} \cup SdeView(P, 100) :
            SpanInRange(q)
      BY <1>2, SpanIn, EndsIn DEF SdeEstimate, SdePath, SdeView, Least
    <3>3. Sde(n, P).reads = SdeEstimate(n - 1) \cup SdePath(100) \cup {LastOf(n), LastOf(100), All(P)} \cup SdeView(P, 100)
                            \cup {Percentile(P, pct) : pct \in {5, 25, 50, 75, 95}}
      BY <1>2 DEF Sde, Drawn
    <3> QED BY ONLY <3>1, <3>2, <3>3 DEF ReadsOK
  <2> QED BY <2>1, <2>2 DEF DivsOK, Asks
<1> QED BY <1>1, <1>2

LEMMA CvarSound ==
  ASSUME NEW n \in Nat, NEW L \in Nat, NEW S \in Nat, L >= 30
  PROVE  ReadsOK(Cvar(n, L, S)) /\ DivsOK(Cvar(n, L, S)) /\ (S = 3 => Asks(Cvar(n, L, S), n))
<1>1. CASE n < L + 1 \/ S < 2
  BY <1>1, WhenNot DEF Cvar, Asks
<1>2. CASE ~(n < L + 1 \/ S < 2)
  <2>1. Cvar(n, L, S).shown /\ 0 \notin Cvar(n, L, S).divs
    BY <1>2 DEF Cvar, Drawn
  <2>2. \A pct \in {50, 95, 99} : \A q \in CvarTail(L, pct) : SpanInRange(q)
    BY SpanIn DEF CvarTail
  <2>3. \A q \in UNION {CvarTail(L, pct) : pct \in {50, 95, 99}} : SpanInRange(q)
    BY <2>2
  <2>4. \A q \in CvarOptimize(L, S) \cup CvarView(S) : SpanInRange(q)
    BY <1>2, EndsIn DEF CvarOptimize, CvarView
  <2>5. Cvar(n, L, S).reads = CvarOptimize(L, S) \cup CvarView(S) \cup UNION {CvarTail(L, pct) : pct \in {50, 95, 99}}
    BY <1>2 DEF Cvar, Drawn
  <2>6. ReadsOK(Cvar(n, L, S))
    BY ONLY <2>3, <2>4, <2>5 DEF ReadsOK
  <2> QED BY <2>1, <2>6 DEF DivsOK, Asks
<1> QED BY <1>1, <1>2

LEMMA HawkesSound ==
  ASSUME NEW n \in Nat, NEW H \in Nat, NEW e \in Nat
  PROVE  ReadsOK(Hawkes(n, H, e)) /\ DivsOK(Hawkes(n, H, e)) /\ (e = 10 => Asks(Hawkes(n, H, e), n))
<1> DEFINE events == Least(e, n - 1)
<1>1. CASE n < 30 \/ events < 5
  BY <1>1, WhenNot DEF Hawkes, Asks, Least
<1>2. CASE ~(n < 30 \/ events < 5)
  <2>1. events \in Nat /\ events >= 5
    BY <1>2 DEF Least
  <2>2. HawkesSamples(n) \in Nat /\ HawkesSamples(n) > 0
    <3> DEFINE step == Most(1, n \div 200)
    <3>1. step \in Nat \ {0} /\ n - 1 \in Nat
      BY <1>2 DEF Most
    <3> HIDE DEF step
    <3>2. (n - 1) \div step \in Nat
      BY <3>1, WholeSteps
    <3> QED BY <3>2 DEF HawkesSamples, step
  <2>3. Hawkes(n, H, e).shown /\ 0 \notin Hawkes(n, H, e).divs
    BY <1>2, <2>1 DEF Hawkes, Drawn
  <2>4. ReadsOK(Hawkes(n, H, e))
    BY <1>2, <2>1, <2>2, SpanIn, EndsIn DEF ReadsOK, Hawkes, Drawn, HawkesEvents, HawkesView, Least
  <2> QED BY <2>3, <2>4 DEF DivsOK, Asks
<1> QED BY <1>1, <1>2

\* The candidates have the parameters of two regimes, whatever R is (LeftEmpty).
LEMMA MsGarchSound ==
  ASSUME NEW n \in Nat, NEW L \in Nat, NEW R \in 2..4, L >= 50
  PROVE  /\ R <= 2 => ReadsOK(MsGarch(n, L, R))
         /\ DivsOK(MsGarch(n, L, R)) /\ Asks(MsGarch(n, L, R), n)
<1>1. CASE n < L + 1
  BY <1>1, WhenNot DEF MsGarch, Asks
<1>2. CASE n >= L + 1
  <2>1. MsGarch(n, L, R).shown /\ 0 \notin MsGarch(n, L, R).divs
    BY <1>2 DEF MsGarch, Drawn
  <2>2. R <= 2 => ReadsOK(MsGarch(n, L, R))
    BY <1>2, SpanIn, EndsIn DEF ReadsOK, MsGarch, Drawn, MsFilter, MsView, MsRegimes
  <2> QED BY <2>1, <2>2 DEF DivsOK, Asks
<1> QED BY <1>1, <1>2

LEMMA RoughSound ==
  ASSUME NEW n \in Nat, NEW P \in Nat, P >= 10
  PROVE  ReadsOK(Rough(n, P)) /\ DivsOK(Rough(n, P)) /\ Asks(Rough(n, P), n)
<1> DEFINE r == n - 1
<1>1. CASE n < 40
  BY <1>1, WhenNot DEF Rough, Asks
<1>2. CASE n >= 40
  <2>1. \A scale \in {1, 2, 5, 10, 20} :
          r >= 4 * scale => /\ (r - scale - 1) \div scale \in Nat
                            /\ ((r - scale - 1) \div scale) * scale <= r - scale - 1
    BY <1>2
  <2>2. \A q \in RoughHurst(r) : SpanInRange(q)
    <3> SUFFICES ASSUME NEW scale \in {1, 2, 5, 10, 20}, r >= 4 * scale
                 PROVE  SpanInRange(Span(0, ((r - scale - 1) \div scale) * scale + scale - 1, r))
      BY DEF RoughHurst
    <3> QED BY <1>2, <2>1, SpanIn
  <2>3. 0 \notin RoughBlocks(r)
    BY <2>1 DEF RoughBlocks
  <2>4. Rough(n, P).shown /\ 0 \notin Rough(n, P).divs
    BY <1>2, <2>3 DEF Rough, Drawn, Least
  <2>5. \A q \in RoughNoise(50) \cup RoughPath(50) \cup RoughView(P, 50) : SpanInRange(q)
    BY SpanIn, EndsIn DEF RoughNoise, RoughPath, RoughView, Least
  <2>6. \A q \in {LastOf(n), LastOf(50)} \cup {Percentile(P, 5), Percentile(P, 95)} : SpanInRange(q)
    BY <1>2, EndsIn, PercentileIn
  <2>7. Rough(n, P).reads = RoughNoise(50) \cup RoughPath(50) \cup RoughHurst(r) \cup {LastOf(n), LastOf(50)}
                            \cup {Percentile(P, 5), Percentile(P, 95)} \cup RoughView(P, 50)
    BY <1>2 DEF Rough, Drawn
  <2>8. ReadsOK(Rough(n, P))
    BY ONLY <2>2, <2>5, <2>6, <2>7 DEF ReadsOK
  <2> QED BY <2>4, <2>8 DEF DivsOK, Asks
<1> QED BY <1>1, <1>2

LEMMA KellySound ==
  ASSUME NEW n \in Nat, NEW L \in Nat, NEW S \in Nat, L >= 20
  PROVE  ReadsOK(Kelly(n, L, S)) /\ DivsOK(Kelly(n, L, S)) /\ (S = 3 => Asks(Kelly(n, L, S), n))
<1>1. CASE n < L + 1 \/ S < 2
  BY <1>1, WhenNot DEF Kelly, Asks
<1>2. CASE ~(n < L + 1 \/ S < 2)
  <2>1. Kelly(n, L, S).shown /\ 0 \notin Kelly(n, L, S).divs
    BY <1>2 DEF Kelly, Drawn
  <2>2. ReadsOK(Kelly(n, L, S))
    <3>1. \A pct \in {50, 5, 95} : SpanInRange(Percentile(500, pct))
      BY PercentileIn
    <3>2. \A q \in KellySimulate(500) : SpanInRange(q)
      BY <3>1, EndsIn DEF KellySimulate
    <3>3. \A q \in KellyMulti(L, S) \cup KellyInverse(S) \cup KellyView(S) : SpanInRange(q)
      BY <1>2, SpanIn, EndsIn DEF KellyMulti, KellyInverse, KellyView
    <3>4. Kelly(n, L, S).reads = KellyMulti(L, S) \cup KellyInverse(S) \cup KellySimulate(500) \cup KellyView(S)
      BY <1>2 DEF Kelly, Drawn
    <3> QED BY ONLY <3>2, <3>3, <3>4 DEF ReadsOK
  <2> QED BY <2>1, <2>2 DEF DivsOK, Asks
<1> QED BY <1>1, <1>2

\* The tree needs no candles, so it never asks for any.
LEMMA StoppingSound ==
  ASSUME NEW n \in Nat, NEW N \in Nat, NEW P \in Nat, N >= 10, P >= 100
  PROVE  ReadsOK(Stopping(N, P)) /\ DivsOK(Stopping(N, P)) /\ Asks(Stopping(N, P), n)
<1>1. Stopping(N, P).shown /\ 0 \notin Stopping(N, P).divs
  BY DEF Stopping, Drawn, StoppingView
<1>2. \A q \in {Span(0, step + 1, step + 2) : step \in {0, 1, N - 1}} : SpanInRange(q)
  BY SpanIn
<1>3. \A q \in StoppingTree(N) : SpanInRange(q)
  BY <1>2, EndsIn DEF StoppingTree
<1>4. \A q \in StoppingPaths(N) \cup {All(P), All(3)} \cup StoppingView(N).reads : SpanInRange(q)
  BY SpanIn, EndsIn DEF StoppingPaths, StoppingView
<1> QED BY <1>1, <1>3, <1>4 DEF Stopping, Drawn, ReadsOK, DivsOK, Asks

LEMMA RmtSound ==
  ASSUME NEW n \in Nat, NEW L \in Nat, NEW S \in Nat, L >= 50
  PROVE  ReadsOK(Rmt(n, L, S)) /\ DivsOK(Rmt(n, L, S)) /\ (S = 3 => Asks(Rmt(n, L, S), n))
<1>1. CASE n < L + 1 \/ S < 3
  BY <1>1, WhenNot DEF Rmt, Asks
<1>2. CASE ~(n < L + 1 \/ S < 3)
  <2>1. Rmt(n, L, S).shown /\ 0 \notin Rmt(n, L, S).divs
    BY <1>2 DEF Rmt, Drawn
  <2>2. ReadsOK(Rmt(n, L, S))
    BY <1>2, SpanIn, EndsIn DEF ReadsOK, Rmt, Drawn, RmtEigen, RmtClean, RmtView
  <2> QED BY <2>1, <2>2 DEF DivsOK, Asks
<1> QED BY <1>1, <1>2

\* Burning in every sample leaves none to print (LeftEmpty).
LEMMA HmcSound ==
  ASSUME NEW n \in Nat, NEW N \in Nat, NEW B \in Nat, N >= 100
  PROVE  /\ B < N => ReadsOK(Hmc(n, N, B)) /\ DivsOK(Hmc(n, N, B))
         /\ Asks(Hmc(n, N, B), n)
<1> DEFINE kept == HmcKept(N, B)
<1>1. CASE n < 101
  BY <1>1, WhenNot DEF Hmc, Asks
<1>2. CASE n >= 101
  <2>1. kept \in Nat /\ (B < N => kept = N - B)
    BY DEF HmcKept, Most
  <2> HIDE DEF kept
  <2>2. Hmc(n, N, B).shown /\ Hmc(n, N, B).divs = {kept, N - B}
    BY <1>2 DEF Hmc, Drawn, kept
  <2>3. Hmc(n, N, B).reads = HmcStep(3) \cup HmcStats(kept) \cup HmcView(kept)
    BY <1>2 DEF Hmc, Drawn, kept
  <2>4. ASSUME B < N
        PROVE  \A q \in HmcStep(3) \cup HmcStats(kept) \cup HmcView(kept) : SpanInRange(q)
    <3>1. kept \in Nat \ {0}
      BY <2>1, <2>4
    <3>2. \A q \in HmcStats(kept) : SpanInRange(q)
      BY <3>1, PercentileIn DEF HmcStats
    <3> QED BY <3>1, <3>2, SpanIn, EndsIn DEF HmcStep, HmcView
  <2> QED BY <2>1, <2>2, <2>3, <2>4 DEF ReadsOK, DivsOK, Asks
<1> QED BY <1>1, <1>2

LEMMA BstsSound ==
  ASSUME NEW n \in Nat, NEW L \in Nat, NEW p \in Nat, L >= 30, p >= 2
  PROVE  ReadsOK(Bsts(n, L, p)) /\ DivsOK(Bsts(n, L, p)) /\ Asks(Bsts(n, L, p), n)
<1>1. CASE n < L + 1
  BY <1>1, WhenNot DEF Bsts, Asks
<1>2. CASE n >= L + 1
  <2>1. Bsts(n, L, p).shown /\ 0 \notin Bsts(n, L, p).divs
    BY <1>2 DEF Bsts, Drawn, BstsView
  <2>2. ReadsOK(Bsts(n, L, p))
    BY <1>2, SpanIn, EndsIn DEF ReadsOK, Bsts, Drawn, BstsState, BstsView
  <2> QED BY <2>1, <2>2 DEF DivsOK, Asks
<1> QED BY <1>1, <1>2

LEMMA MalliavinSound ==
  ASSUME NEW n \in Nat, NEW P \in Nat, NEW N \in Nat, P >= 100, N >= 10
  PROVE  ReadsOK(Malliavin(n, P, N)) /\ DivsOK(Malliavin(n, P, N)) /\ Asks(Malliavin(n, P, N), n)
<1> DEFINE c == MalliavinConvergence(P)
<1>1. CASE n < 30
  BY <1>1, WhenNot DEF Malliavin, Asks
<1>2. CASE n >= 30
  <2>1. c \in Nat /\ c > 0
    <3> DEFINE step == Most(50, P \div 10)
    <3>1. step \in Nat \ {0} /\ P - 100 \in Nat
      BY DEF Most
    <3> HIDE DEF step
    <3>2. (P - 100) \div step \in Nat
      BY <3>1, WholeSteps
    <3> QED BY <3>2 DEF MalliavinConvergence, step
  <2>2. Malliavin(n, P, N).shown /\ 0 \notin Malliavin(n, P, N).divs
    BY <1>2 DEF Malliavin, Drawn, Least
  <2>3. ReadsOK(Malliavin(n, P, N))
    BY <1>2, <2>1, SpanIn, EndsIn DEF ReadsOK, Malliavin, Drawn, MalliavinPaths, MalliavinGreeks, MalliavinView, Least
  <2> QED BY <2>2, <2>3 DEF DivsOK, Asks
<1> QED BY <1>1, <1>2
-----------------------------------------------------------------------------
(* Transport, control and estimation.                                        *)

\* A loop in strides: how often it runs, and where its last round starts.
LEMMA StridesIn ==
  ASSUME NEW from \in Nat, NEW to \in Int, NEW stride \in Nat \ {0}
  PROVE  /\ Strides(from, to, stride) \in Nat
         /\ from <= to => Strides(from, to, stride) > 0
         /\ Strides(from, to, stride) > 0 => /\ (Strides(from, to, stride) - 1) * stride \in Nat
                                             /\ (Strides(from, to, stride) - 1) * stride <= to - from
<1>1. CASE from > to
  BY <1>1 DEF Strides
<1>2. CASE from <= to
  <2> DEFINE a == to - from  k == a \div stride
  <2>1. a \in Nat
    BY <1>2
  <2>2. Strides(from, to, stride) = k + 1
    BY <1>2 DEF Strides
  <2> HIDE DEF a
  <2>3. k \in Nat /\ k * stride <= a /\ k * stride \in Nat
    BY <2>1, WholeSteps, Z3
  <2> HIDE DEF k
  <2>4. (k + 1) - 1 = k
    BY <2>3
  <2> QED BY <2>2, <2>3, <2>4 DEF a
<1> QED BY <1>1, <1>2

LEMMA BridgeSound ==
  ASSUME NEW n \in Nat, NEW L \in Nat, NEW W \in Nat, L >= 60, W >= 10
  PROVE  ReadsOK(Bridge(n, L, W)) /\ DivsOK(Bridge(n, L, W)) /\ Asks(Bridge(n, L, W), n)
<1> DEFINE r == L - 1  half == r \div 2  B == {4, 20}  k == BridgePairs(r, W)  stride == Most(5, W \div 4)
           ofBin(b) == BridgeQuantize(half, b).reads \cup BridgeSinkhorn(b) \cup BridgeView(BridgePairs(r, W), b).reads
           divsOf(b) == BridgeQuantize(half, b).divs \cup BridgeQuantize(r - half, b).divs \cup BridgeQuantize(W, b).divs
                        \cup BridgeView(BridgePairs(r, W), b).divs
<1>1. CASE n < L + 1
  BY <1>1, WhenNot DEF Bridge, Asks
<1>2. CASE n >= L + 1
  <2>1. stride \in Nat \ {0} /\ half \in Nat /\ half >= 29 /\ half < r
    BY DEF Most
  <2>2. /\ k \in Nat
        /\ k > 0 => (k - 1) * stride \in Nat /\ (k - 1) * stride <= r - 2 * W
    <3> HIDE DEF stride
    <3>1. r - 2 * W \in Int
      OBVIOUS
    <3>2. k = Strides(0, r - 2 * W, stride)
      BY DEF BridgePairs, stride
    <3>3. (r - 2 * W) - 0 = r - 2 * W
      OBVIOUS
    <3> DEFINE to == r - 2 * W
    <3> HIDE DEF to, k
    <3>4. QED BY <2>1, <3>1, <3>2, <3>3, StridesIn DEF to
  <2> HIDE DEF k, stride
  <2>3. \A q \in BridgeSliding(r, W) : SpanInRange(q)
    <3>1. CASE k = 0
      BY <3>1 DEF BridgeSliding, k
    <3>2. CASE k # 0
      <4> DEFINE e == (k - 1) * stride
      <4>1. e \in Nat /\ e <= r - 2 * W
        BY <3>2, <2>2
      <4>2. BridgeSliding(r, W) = {Span(0, e + 2 * W - 1, r)}
        BY <3>2 DEF BridgeSliding, k, stride
      <4> HIDE DEF e
      <4> QED BY <4>1, <4>2, SpanIn
    <3> QED BY <3>1, <3>2
  <2>4. \A b \in B : \A q \in ofBin(b) : SpanInRange(q)
    BY <2>2, SpanIn, EndsIn DEF BridgeQuantize, BridgeSinkhorn, BridgeView, k
  <2>5. \A b \in B : 0 \notin divsOf(b)
    BY <2>1, <2>2 DEF BridgeQuantize, BridgeView, k
  <2>6. Bridge(n, L, W).shown
    BY <1>2 DEF Bridge, Drawn
  <2>7. /\ Bridge(n, L, W).reads = (UNION {ofBin(b) : b \in B}) \cup {Span(0, half - 1, r), Span(half, r - 1, r)}
                                   \cup BridgeSliding(r, W)
        /\ Bridge(n, L, W).divs = UNION {divsOf(b) : b \in B}
    BY <1>2 DEF Bridge, Drawn
  <2>8. \A q \in {Span(0, half - 1, r), Span(half, r - 1, r)} : SpanInRange(q)
    BY <2>1, SpanIn
  <2> HIDE DEF ofBin, divsOf, B, half
  <2>9. \A q \in UNION {ofBin(b) : b \in B} : SpanInRange(q)
    BY <2>4
  <2>10. 0 \notin UNION {divsOf(b) : b \in B}
    BY <2>5
  <2> QED BY ONLY <2>3, <2>6, <2>7, <2>8, <2>9, <2>10 DEF ReadsOK, DivsOK, Asks
<1> QED BY <1>1, <1>2

LEMMA BlackLittermanSound ==
  ASSUME NEW n \in Nat, NEW L \in Nat, NEW S \in Nat, L >= 20
  PROVE  /\ ReadsOK(BlackLitterman(n, L, S)) /\ DivsOK(BlackLitterman(n, L, S))
         /\ S = 3 => Asks(BlackLitterman(n, L, S), n)
<1> DEFINE part(K) == BlPosterior(S, Views(S, K)) \cup BlView(S, K)
<1>1. CASE n < L + 1 \/ S < 2
  BY <1>1, WhenNot DEF BlackLitterman, Asks
<1>2. CASE ~(n < L + 1 \/ S < 2)
  <2>1. BlackLitterman(n, L, S).shown /\ 0 \notin BlackLitterman(n, L, S).divs
    BY <1>2 DEF BlackLitterman, Drawn, BlMarket
  <2>2. \A K \in 0..2 : \A q \in part(K) : SpanInRange(q)
    BY <1>2, EndsIn DEF BlPosterior, Views, BlInverse, BlView
  <2>3. \A q \in {Span(n - L - 1, n - 1, n)} \cup BlMarket(L, S).reads : SpanInRange(q)
    BY <1>2, SpanIn, EndsIn DEF BlMarket
  <2>4. BlackLitterman(n, L, S).reads = {Span(n - L - 1, n - 1, n)} \cup BlMarket(L, S).reads \cup (UNION {part(K) : K \in 0..2})
    BY <1>2 DEF BlackLitterman, Drawn
  <2> HIDE DEF part
  <2>5. \A q \in UNION {part(K) : K \in 0..2} : SpanInRange(q)
    BY <2>2
  <2> QED BY ONLY <2>1, <2>3, <2>4, <2>5 DEF ReadsOK, DivsOK, Asks
<1> QED BY <1>1, <1>2

LEMMA RenormSound ==
  ASSUME NEW n \in Nat, NEW L \in Nat, NEW M \in 5..50, L >= 50
  PROVE  ReadsOK(Renormalization(n, L, M)) /\ DivsOK(Renormalization(n, L, M)) /\ Asks(Renormalization(n, L, M), n)
<1> DEFINE r == L - 1
           part(s) == RgScale(r, s).reads \cup RgAcf(RgBlocks(r, s))
<1>1. CASE n < L + 1
  BY <1>1, WhenNot DEF Renormalization, Asks
<1>2. CASE n >= L + 1
  <2>1. ASSUME NEW s \in 1..M
        PROVE  (\A q \in part(s) : SpanInRange(q)) /\ 0 \notin RgScale(r, s).divs
    <3> DEFINE b == RgBlocks(r, s)  e == b * s
    <3>1. r \in Nat /\ s \in Nat \ {0}
      OBVIOUS
    <3>2. b \in Nat /\ e <= r /\ e \in Nat
      BY <3>1, WholeSteps, Z3 DEF RgBlocks
    <3>3. RgScale(r, s).reads = {Span(0, e - 1, r)} /\ 0 \notin RgScale(r, s).divs
      BY <3>2 DEF RgScale
    <3> HIDE DEF b, e
    <3>4. SpanInRange(Span(0, e - 1, r))
      BY <3>2, SpanIn
    <3>5. \A q \in RgAcf(b) : SpanInRange(q)
      BY <3>2, SpanIn DEF RgAcf
    <3> QED BY <3>3, <3>4, <3>5 DEF b
  <2>2. \A q \in RgFlow(M).reads \cup RgView(M).reads : SpanInRange(q)
    BY SpanIn, EndsIn DEF RgFlow, RgView, Least
  <2>3. 0 \notin RgFlow(M).divs \cup RgView(M).divs
    BY DEF RgFlow, RgView
  <2>4. /\ Renormalization(n, L, M).shown
        /\ Renormalization(n, L, M).reads = (UNION {part(s) : s \in 1..M}) \cup RgFlow(M).reads \cup RgView(M).reads
        /\ Renormalization(n, L, M).divs = (UNION {RgScale(r, s).divs : s \in 1..M}) \cup RgFlow(M).divs \cup RgView(M).divs
    BY <1>2 DEF Renormalization, Drawn
  <2> HIDE DEF part, r
  <2>5. (\A q \in UNION {part(s) : s \in 1..M} : SpanInRange(q)) /\ 0 \notin UNION {RgScale(r, s).divs : s \in 1..M}
    BY <2>1
  <2> QED BY ONLY <2>2, <2>3, <2>4, <2>5 DEF ReadsOK, DivsOK, Asks
<1> QED BY <1>1, <1>2

LEMMA FokkerSound ==
  ASSUME NEW n \in Nat, NEW L \in Nat, NEW horizon \in Nat, L >= 50, horizon >= 1
  PROVE  ReadsOK(Fokker(n, L, horizon)) /\ DivsOK(Fokker(n, L, horizon)) /\ Asks(Fokker(n, L, horizon), n)
<1> DEFINE r == L - 1
           part(steps) == LET h == FokkerHistory(steps)  k == FokkerForecast(steps, horizon)
                          IN {Span(k, k, h)} \cup FokkerView(h).reads
<1>1. CASE n < L + 1
  BY <1>1, WhenNot DEF Fokker, Asks
<1>2. CASE n >= L + 1
  <2>1. \A steps \in {50, 59, 200} :
          FokkerHistory(steps) \in Nat /\ FokkerHistory(steps) > 1 /\ (horizon * steps) \div 20 \in Nat
    BY DEF FokkerHistory, FokkerEvery, Strides, Most
  <2>2. \A steps \in {50, 59, 200} : \A q \in part(steps) : SpanInRange(q)
    <3> TAKE steps \in {50, 59, 200}
    <3> DEFINE h == FokkerHistory(steps)  k == FokkerForecast(steps, horizon)
    <3>1. h \in Nat /\ h > 1 /\ k \in 0..(h - 1)
      BY <2>1 DEF FokkerForecast, Least
    <3> HIDE DEF h, k
    <3>2. \A q \in {Span(k, k, h)} \cup FokkerView(h).reads : SpanInRange(q)
      BY <3>1, SpanIn, EndsIn DEF FokkerView, FokkerGrid
    <3> QED BY <3>2 DEF h, k
  <2>3. \A q \in {LastOf(r), Span(1, r - 1, r)} \cup FokkerSolve.reads : SpanInRange(q)
    BY SpanIn, EndsIn DEF FokkerSolve, FokkerGrid
  <2>4. Fokker(n, L, horizon).shown /\ 0 \notin Fokker(n, L, horizon).divs
    BY <1>2, <2>1 DEF Fokker, Drawn, FokkerSolve, FokkerGrid, FokkerView
  <2>5. Fokker(n, L, horizon).reads = {LastOf(r), Span(1, r - 1, r)} \cup FokkerSolve.reads
                                      \cup (UNION {part(steps) : steps \in {50, 59, 200}})
    BY <1>2 DEF Fokker, Drawn
  <2> HIDE DEF part, r
  <2>6. \A q \in UNION {part(steps) : steps \in {50, 59, 200}} : SpanInRange(q)
    BY <2>2
  <2> QED BY ONLY <2>3, <2>4, <2>5, <2>6 DEF ReadsOK, DivsOK, Asks
<1> QED BY <1>1, <1>2

LEMMA GreeksSound ==
  ASSUME NEW n \in Nat, NEW sims \in Nat, sims >= 1000
  PROVE  ReadsOK(Greeks(n, sims)) /\ DivsOK(Greeks(n, sims)) /\ Asks(Greeks(n, sims), n)
<1>1. CASE n < 101
  BY <1>1, WhenNot DEF Greeks, Asks
<1>2. CASE n >= 101
  <2>1. Greeks(n, sims).shown /\ 0 \notin Greeks(n, sims).divs
    BY <1>2 DEF Greeks, Drawn, GreeksOf, GreeksView, Least
  <2>2. ReadsOK(Greeks(n, sims))
    BY <1>2, EndsIn DEF ReadsOK, Greeks, Drawn, GreeksView
  <2> QED BY <2>1, <2>2 DEF DivsOK, Asks
<1> QED BY <1>1, <1>2

LEMMA CramerSound ==
  ASSUME NEW n \in Nat, NEW L \in Nat, L >= 30
  PROVE  ReadsOK(Cramer(n, L)) /\ DivsOK(Cramer(n, L)) /\ Asks(Cramer(n, L), n)
<1> DEFINE r == L - 1  k == CramerSizes(r)
<1>1. CASE n < L + 1
  BY <1>1, WhenNot DEF Cramer, Asks
<1>2. CASE n >= L + 1
  <2>1. k \in Nat /\ k > 0
    <3> DEFINE stride == Most(5, r \div 15)
    <3>1. stride \in Nat \ {0} /\ r \in Int /\ 10 <= r
      BY DEF Most
    <3>2. k = Strides(10, r, stride)
      BY DEF CramerSizes
    <3> HIDE DEF stride, r
    <3> QED BY <3>1, <3>2, StridesIn
  <2> HIDE DEF k
  <2>2. Cramer(n, L).shown /\ 0 \notin Cramer(n, L).divs
    BY <1>2, <2>1 DEF Cramer, Drawn, CramerView, k
  <2>3. Cramer(n, L).reads = FisherGarch \cup Invert3x3 \cup CramerView(k).reads
    BY <1>2 DEF Cramer, Drawn, k
  <2>4. \A q \in FisherGarch \cup Invert3x3 \cup CramerView(k).reads : SpanInRange(q)
    BY <2>1, SpanIn, EndsIn DEF FisherGarch, Invert3x3, CramerView
  <2> QED BY <2>2, <2>3, <2>4 DEF ReadsOK, DivsOK, Asks
<1> QED BY <1>1, <1>2

LEMMA HjbSound ==
  ASSUME NEW n \in Nat, NEW L \in Nat, NEW T \in Nat, L >= 50, T >= 10
  PROVE  ReadsOK(Hjb(n, L, T)) /\ DivsOK(Hjb(n, L, T)) /\ Asks(Hjb(n, L, T), n)
<1> DEFINE part(X) == HjbSolve(T, X).reads \cup HjbWealth(X) \cup HjbView(T, X).reads
<1>1. CASE n < L + 1
  BY <1>1, WhenNot DEF Hjb, Asks
<1>2. CASE n >= L + 1
  <2>1. Hjb(n, L, T).shown /\ 0 \notin Hjb(n, L, T).divs
    BY <1>2 DEF Hjb, Drawn, HjbSolve, HjbView
  <2>2. \A X \in {20, 50} : \A q \in part(X) : SpanInRange(q)
    BY SpanIn, EndsIn DEF HjbSolve, HjbWealth, HjbView
  <2>3. \A i \in {0, T \div 3, (2 * T) \div 3, T - 1} : i \in 0..T
    OBVIOUS
  <2>4. \A q \in HjbSlices(T) : SpanInRange(q)
    BY <2>3, SpanIn DEF HjbSlices
  <2>5. Hjb(n, L, T).reads = (UNION {part(X) : X \in {20, 50}}) \cup HjbSlices(T)
    BY <1>2 DEF Hjb, Drawn
  <2> HIDE DEF part
  <2>6. \A q \in UNION {part(X) : X \in {20, 50}} : SpanInRange(q)
    BY <2>2
  <2> QED BY ONLY <2>1, <2>4, <2>5, <2>6 DEF ReadsOK, DivsOK, Asks
<1> QED BY <1>1, <1>2
-----------------------------------------------------------------------------
(* Topology, information geometry and function spaces.                       *)

\* Sliding windows end inside the array; there is one as soon as one fits.
LEMMA WindowsIn ==
  ASSUME NEW w \in Nat, NEW step \in Nat \ {0}, NEW len \in Nat
  PROVE  /\ Windows(w, step, len) \in Nat
         /\ w <= len => Windows(w, step, len) > 0
         /\ \A q \in WindowReads(w, step, len) : SpanInRange(q)
<1>1. CASE w > len
  BY <1>1 DEF Windows, WindowReads
<1>2. CASE w <= len
  <2> DEFINE a == len - w  k == a \div step  e == k * step
  <2>1. a \in Nat
    BY <1>2
  <2>2. Windows(w, step, len) = k + 1
    BY <1>2 DEF Windows
  <2> HIDE DEF a
  <2>3. k \in Nat /\ e <= a /\ e \in Nat
    BY <2>1, WholeSteps, Z3
  <2> HIDE DEF k
  <2>4. (k + 1) - 1 = k /\ k + 1 > 0 /\ k + 1 \in Nat
    BY <2>3
  <2>5. WindowReads(w, step, len) = {Span(0, e + w - 1, len)}
    BY <2>2, <2>4 DEF WindowReads
  <2> HIDE DEF e
  <2>6. SpanInRange(Span(0, e + w - 1, len))
    BY <2>1, <2>3, SpanIn DEF a
  <2> QED BY <2>2, <2>4, <2>5, <2>6
<1> QED BY <1>1, <1>2

LEMMA AffineSound ==
  ASSUME NEW n \in Nat, NEW L \in Nat, NEW T \in Nat, L >= 20, T >= 1
  PROVE  ReadsOK(Affine(n, L, T)) /\ DivsOK(Affine(n, L, T)) /\ Asks(Affine(n, L, T), n)
<1>1. CASE n < L + 1
  BY <1>1, WhenNot DEF Affine, Asks
<1>2. CASE n >= L + 1
  <2>1. Affine(n, L, T).shown /\ 0 \notin Affine(n, L, T).divs
    BY <1>2 DEF Affine, Drawn, AffineEstimate, Least
  <2>2. ReadsOK(Affine(n, L, T))
    BY <1>2, SpanIn, EndsIn DEF ReadsOK, Affine, Drawn, AffineOps, AffineEstimate, Least
  <2> QED BY <2>1, <2>2 DEF DivsOK, Asks
<1> QED BY <1>1, <1>2

LEMMA RkhsSound ==
  ASSUME NEW n \in Nat, NEW L \in Nat, NEW c \in 1..5, L >= 30
  PROVE  ReadsOK(Rkhs(n, L, c)) /\ DivsOK(Rkhs(n, L, c)) /\ Asks(Rkhs(n, L, c), n)
<1> DEFINE r == L - 1  X == RkhsRows(r)
<1>1. X = L - 3
  BY DEF RkhsRows, Most
<1>2. CASE n < L + 1
  BY <1>2, WhenNot DEF Rkhs, Asks
<1>3. CASE n >= L + 1
  <2>1. Rkhs(n, L, c).shown /\ 0 \notin Rkhs(n, L, c).divs
    BY <1>3, <1>1 DEF Rkhs, Drawn, RkhsKernel, RkhsMmd, RkhsRidge, RkhsView
  <2>2. Rkhs(n, L, c).reads = RkhsEmbed(r) \cup RkhsKernel(X).reads \cup RkhsEigen(X, c) \cup RkhsRidge(r, X).reads
                              \cup RkhsView(X).reads
    BY <1>3, <1>1 DEF Rkhs, Drawn
  <2>3. \A q \in RkhsEmbed(r) \cup RkhsKernel(X).reads \cup RkhsEigen(X, c) : SpanInRange(q)
    BY <1>1, SpanIn, EndsIn DEF RkhsEmbed, RkhsKernel, RkhsEigen, Least
  <2>4. \A q \in RkhsRidge(r, X).reads \cup RkhsView(X).reads : SpanInRange(q)
    BY <1>1, SpanIn, EndsIn DEF RkhsRidge, RkhsView
  <2> QED BY ONLY <2>1, <2>2, <2>3, <2>4 DEF ReadsOK, DivsOK, Asks
<1> QED BY <1>2, <1>3

LEMMA TensorSound ==
  ASSUME NEW n \in Nat, NEW L \in Nat, NEW S \in Nat, L >= 50
  PROVE  /\ ReadsOK(Tensor(n, L, S)) /\ DivsOK(Tensor(n, L, S))
         /\ S = 3 => Asks(Tensor(n, L, S), n)
<1> DEFINE t == TensorTimes(L)  part(tf) == {Span(n - L, n - L + (t - 1) * tf + tf - 1, n)}
<1>1. CASE n < L \/ S < 2
  BY <1>1, WhenNot DEF Tensor, Asks
<1>2. CASE ~(n < L \/ S < 2)
  <2>1. t \in Nat /\ t >= 3 /\ 15 * t <= L
    BY DEF TensorTimes
  <2>2. \A tf \in {5, 15} : \A q \in part(tf) : SpanInRange(q)
    BY <1>2, <2>1, SpanIn
  <2>3. TensorBuild(n, L) = UNION {part(tf) : tf \in {5, 15}}
    BY DEF TensorBuild
  <2>4. Tensor(n, L, S).shown /\ 0 \notin Tensor(n, L, S).divs
    BY <1>2 DEF Tensor, Drawn, TensorView
  <2>5. \A q \in TensorCp(S, 3 * t) \cup TensorView(S, 10).reads : SpanInRange(q)
    BY <1>2, <2>1, SpanIn, EndsIn DEF TensorCp, TensorView
  <2>6. Tensor(n, L, S).reads = TensorBuild(n, L) \cup TensorCp(S, 3 * t) \cup TensorView(S, 10).reads
    BY <1>2 DEF Tensor, Drawn
  <2> HIDE DEF part, t
  <2>7. \A q \in TensorBuild(n, L) : SpanInRange(q)
    BY <2>2, <2>3
  <2> QED BY ONLY <2>4, <2>5, <2>6, <2>7 DEF ReadsOK, DivsOK, Asks
<1> QED BY <1>1, <1>2

\* A window as long as the lookback leaves no norm to average (LeftZero).
LEMMA LandscapeSound ==
  ASSUME NEW n \in Nat, NEW L \in Nat, NEW W \in Nat, L >= 60, W >= 20
  PROVE  /\ ReadsOK(Landscape(n, L, W))
         /\ W < L => DivsOK(Landscape(n, L, W))
         /\ Asks(Landscape(n, L, W), n)
<1> DEFINE r == L - 1  k == LandscapeNorms(r, W)  step == Most(5, W \div 4)
<1>1. CASE n < L + 1
  BY <1>1, WhenNot DEF Landscape, Asks
<1>2. CASE n >= L + 1
  <2>1. step \in Nat \ {0} /\ r \in Nat
    BY DEF Most
  <2>2. k = Windows(W, step, r) /\ LandscapeSliding(r, W) = WindowReads(W, step, r)
    BY DEF LandscapeNorms, LandscapeSliding
  <2> HIDE DEF step, k
  <2>3. k \in Nat /\ (W <= r => k > 0) /\ \A q \in LandscapeSliding(r, W) : SpanInRange(q)
    BY <2>1, <2>2, WindowsIn
  <2>4. \A E \in 2..6 : \A q \in LandscapeCloud(r, E) : SpanInRange(q)
    BY SpanIn, EndsIn DEF LandscapeCloud
  <2>5. \A q \in UNION {LandscapeCloud(r, E) : E \in 2..6} : SpanInRange(q)
    BY <2>4
  <2>6. \A q \in LandscapePersistence(r - 5) \cup LandscapeLayers \cup LandscapeView(k).reads : SpanInRange(q)
    BY <2>3, SpanIn, EndsIn DEF LandscapePersistence, LandscapeLayers, LandscapeView
  <2>7. /\ Landscape(n, L, W).shown
        /\ Landscape(n, L, W).reads = (UNION {LandscapeCloud(r, E) : E \in 2..6}) \cup LandscapePersistence(r - 5)
                                      \cup LandscapeLayers \cup LandscapeSliding(r, W) \cup LandscapeView(k).reads
        /\ Landscape(n, L, W).divs = {r, 50} \cup {k}
    BY <1>2 DEF Landscape, Drawn, LandscapeView, k
  <2>8. W < L => 0 \notin Landscape(n, L, W).divs
    BY <2>3, <2>7
  <2> QED BY ONLY <2>3, <2>5, <2>6, <2>7, <2>8 DEF ReadsOK, DivsOK, Asks
<1> QED BY <1>1, <1>2

\* Thinning a cloud of points keeps at least one.
LEMMA TdaSampledIn ==
  ASSUME NEW points \in Nat \ {0}, NEW F \in {10, 30}
  PROVE  TdaSampled(points, F) \in Nat \ {0}
<1>1. CASE points <= F
  BY <1>1 DEF TdaSampled
<1>2. CASE points > F
  <2> DEFINE step == points \div F
  <2>1. step \in Nat \ {0} /\ points - 1 \in Nat
    BY <1>2
  <2> HIDE DEF step
  <2>2. (points - 1) \div step \in Nat
    BY <2>1, WholeSteps
  <2> QED BY <1>2, <2>2 DEF TdaSampled, Least, step
<1> QED BY <1>1, <1>2

LEMMA TdaSound ==
  ASSUME NEW n \in Nat, NEW L \in Nat, NEW tau \in Nat, L >= 40, tau >= 1
  PROVE  /\ ReadsOK(Tda(n, L, tau)) /\ DivsOK(Tda(n, L, tau))
         /\ tau = 2 => Asks(Tda(n, L, tau), n)
<1> DEFINE r == L - 1  points == TdaPoints(r, tau)
           part(F) == LET k == TdaSampled(points, F) IN TdaH0(k) \cup TdaH1(k) \cup TdaView(k)
<1>1. points \in Nat /\ (points > 0 => points = r - 2 * tau)
  BY DEF TdaPoints, Most
<1>2. CASE n < L + 1 \/ points < 5
  BY <1>1, <1>2, WhenNot DEF Tda, Asks, TdaPoints, Most
<1>3. CASE ~(n < L + 1 \/ points < 5)
  <2> HIDE DEF points
  <2>1. \A F \in {10, 30} : TdaSampled(points, F) \in Nat \ {0}
    BY <1>1, <1>3, TdaSampledIn
  <2>2. \A F \in {10, 30} : \A q \in part(F) : SpanInRange(q)
    <3> TAKE F \in {10, 30}
    <3> DEFINE k == TdaSampled(points, F)
    <3>1. k \in Nat \ {0}
      BY <2>1
    <3> HIDE DEF k
    <3>2. \A q \in TdaH0(k) \cup TdaH1(k) \cup TdaView(k) : SpanInRange(q)
      BY <3>1, SpanIn, EndsIn DEF TdaH0, TdaH1, TdaView
    <3> QED BY <3>2 DEF k
  <2>3. \A q \in TdaEmbed(r, tau) \cup {Span(2, 2, 5)} : SpanInRange(q)
    BY <1>1, <1>3, SpanIn DEF TdaEmbed, points
  <2>4. points \div Least(points, 30) # 0
    <3>1. CASE points <= 30
      <4>1. Least(points, 30) = points
        BY <3>1, <1>1 DEF Least
      <4>2. points \div points = 1
        BY <1>1, <1>3, Z3
      <4> QED BY <4>1, <4>2
    <3>2. CASE points > 30
      BY <3>2, <1>1 DEF Least
    <3> QED BY <3>1, <3>2, <1>1
  <2>5. Tda(n, L, tau).shown /\ 0 \notin Tda(n, L, tau).divs
    BY <1>3, <2>4 DEF Tda, Drawn, points
  <2>6. Tda(n, L, tau).reads = TdaEmbed(r, tau) \cup (UNION {part(F) : F \in {10, 30}}) \cup {Span(2, 2, 5)}
    BY <1>3 DEF Tda, Drawn, points
  <2> HIDE DEF part
  <2>7. \A q \in UNION {part(F) : F \in {10, 30}} : SpanInRange(q)
    BY <2>2
  <2> QED BY ONLY <2>3, <2>5, <2>6, <2>7 DEF ReadsOK, DivsOK, Asks
<1> QED BY <1>2, <1>3

LEMMA IbSound ==
  ASSUME NEW n \in Nat, NEW L \in Nat, NEW g \in Nat, L >= 50, g >= 1
  PROVE  ReadsOK(Ib(n, L, g)) /\ DivsOK(Ib(n, L, g)) /\ Asks(Ib(n, L, g), n)
<1> DEFINE r == L + g - 1  m == r - g
           bin == UNION {IbQuantize(bins) : bins \in {3, 20}}
           tables == UNION {IbTables(m, 3, k).reads : k \in {2, 8}}
<1>1. CASE n < L + g + 1
  BY <1>1, WhenNot DEF Ib, Asks
<1>2. CASE n >= L + g + 1
  <2>1. Ib(n, L, g).shown /\ 0 \notin Ib(n, L, g).divs
    BY <1>2 DEF Ib, Drawn, IbTables, IbView
  <2>2. \A bins \in {3, 20} : \A q \in IbQuantize(bins) : SpanInRange(q)
    BY SpanIn DEF IbQuantize
  <2>3. \A k \in {2, 8} : \A q \in IbTables(m, 3, k).reads : SpanInRange(q)
    BY SpanIn, EndsIn DEF IbTables
  <2>4. \A q \in IbPairs(r, g) \cup {LastOf(r)} \cup IbView(8, m, 100).reads : SpanInRange(q)
    BY SpanIn, EndsIn DEF IbPairs, IbView, Least
  <2>5. (\A q \in bin : SpanInRange(q)) /\ \A q \in tables : SpanInRange(q)
    BY <2>2, <2>3
  <2>6. Ib(n, L, g).reads = IbPairs(r, g) \cup {LastOf(r)} \cup bin \cup tables \cup IbView(8, m, 100).reads
    BY <1>2 DEF Ib, Drawn
  <2> QED BY ONLY <2>1, <2>4, <2>5, <2>6 DEF ReadsOK, DivsOK, Asks
<1> QED BY <1>1, <1>2

LEMMA GraphSound ==
  ASSUME NEW n \in Nat, NEW L \in Nat, NEW S \in Nat, L >= 20
  PROVE  /\ ReadsOK(Graph(n, L, S)) /\ DivsOK(Graph(n, L, S))
         /\ S = 4 => Asks(Graph(n, L, S), n)
<1>1. CASE n < L + 1 \/ S < 3
  BY <1>1, WhenNot DEF Graph, Asks
<1>2. CASE ~(n < L + 1 \/ S < 3)
  <2> DEFINE pairs == S * (S - 1)
  <2>1. pairs \in Nat /\ pairs >= 2
    BY <1>2, Z3
  <2> HIDE DEF pairs
  <2>2. pairs \div 2 # 0
    BY <2>1
  <2>3. Graph(n, L, S).shown /\ Graph(n, L, S).divs = {S} \cup {L} \cup {S - 1, pairs \div 2}
    BY <1>2 DEF Graph, Drawn, GraphCorrelation, GraphTree, pairs
  <2>4. 0 \notin Graph(n, L, S).divs
    BY <1>2, <2>2, <2>3
  <2>5. Graph(n, L, S).reads = {FirstOf(S), All(S), All(L)} \cup {All(S - 1)} \cup GraphCentrality(S) \cup GraphClustering(S)
                               \cup GraphView(S)
    BY <1>2 DEF Graph, Drawn, GraphCorrelation, GraphTree
  <2>6. ReadsOK(Graph(n, L, S))
    BY <1>2, <2>5, EndsIn DEF ReadsOK, GraphCentrality, GraphClustering, GraphView
  <2> QED BY <2>3, <2>4, <2>6 DEF DivsOK, Asks
<1> QED BY <1>1, <1>2

\* The newest window needs W < L, the shifted one W + 1 < L (LeftEmpty, LeftZero).
LEMMA LieSound ==
  ASSUME NEW n \in Nat, NEW L \in Nat, NEW W \in Nat, L >= 40, W >= 10
  PROVE  /\ W < L => ReadsOK(Lie(n, L, W))
         /\ W < L - 1 => DivsOK(Lie(n, L, W))
         /\ Asks(Lie(n, L, W), n)
<1> DEFINE r == L - 1  k == LieWindows(r, W)  step == LieStep(W)
<1>1. CASE n < L + 1
  BY <1>1, WhenNot DEF Lie, Asks
<1>2. CASE n >= L + 1
  <2>1. step \in Nat \ {0} /\ r \in Nat
    BY DEF LieStep, Most
  <2>2. k = Windows(W, step, r)
    BY DEF LieWindows
  <2> HIDE DEF step, k
  <2>3. k \in Nat /\ (W <= r => k > 0) /\ (\A q \in WindowReads(W, step, r) : SpanInRange(q))
    BY <2>1, <2>2, WindowsIn
  <2>4. W + 1 <= r => Windows(W + 1, step, r) # 0
    BY <2>1, WindowsIn
  <2>5. Lie(n, L, W).shown /\ Lie(n, L, W).divs = {k, W} \cup {Windows(W + 1, step, r)} \cup {k}
    BY <1>2 DEF Lie, Drawn, LieSymmetries, LieTimeShift, LieView, k, step
  <2>6. Lie(n, L, W).reads = WindowReads(W, step, r) \cup {Span(0, W - 2, W), Span(1, W - 1, W)} \cup {LastOf(k), FirstOf(4)}
    BY <1>2 DEF Lie, Drawn, LieSymmetries, LieTimeShift, LieView, k, step
  <2>7. W < L => \A q \in {Span(0, W - 2, W), Span(1, W - 1, W)} \cup {LastOf(k), FirstOf(4)} : SpanInRange(q)
    BY <2>3, SpanIn, EndsIn
  <2>8. W < L => ReadsOK(Lie(n, L, W))
    BY ONLY <2>3, <2>6, <2>7 DEF ReadsOK
  <2>9. W < L - 1 => 0 \notin Lie(n, L, W).divs
    BY <2>3, <2>4, <2>5
  <2> QED BY <2>5, <2>8, <2>9 DEF DivsOK, Asks
<1> QED BY <1>1, <1>2

LEMMA BarySound ==
  ASSUME NEW n \in Nat, NEW L \in Nat, NEW k \in 2..8, L >= 100
  PROVE  ReadsOK(Bary(n, L, k)) /\ DivsOK(Bary(n, L, k)) /\ Asks(Bary(n, L, k), n)
<1> DEFINE r == L - 1  w == BaryWindow(r, k)  used == k * w
<1>1. w \in Nat /\ w >= 12 /\ used \in Nat /\ used <= r /\ used > 0
  BY DEF BaryWindow
<1> HIDE DEF w, used
<1>2. CASE n < L + 1
  BY <1>1, <1>2, WhenNot DEF Bary, Asks, w
<1>3. CASE n >= L + 1
  <2>1. Bary(n, L, k).shown /\ 0 \notin Bary(n, L, k).divs
    BY <1>1, <1>3 DEF Bary, Drawn, BaryView, w
  <2>2. Bary(n, L, k).reads = {Span(0, used - 1, r)} \cup BaryQuantiles(w) \cup BaryQuantiles(used) \cup BaryMix(k, 20)
                              \cup BaryView(k, 20).reads
    BY <1>1, <1>3 DEF Bary, Drawn, w, used
  <2>3. ReadsOK(Bary(n, L, k))
    BY <1>1, <2>2, SpanIn, EndsIn DEF ReadsOK, BaryQuantiles, BaryMix, BaryView
  <2> QED BY <2>1, <2>3 DEF DivsOK, Asks
<1> QED BY <1>2, <1>3

LEMMA SobolevSound ==
  ASSUME NEW n \in Nat, NEW L \in Nat, L >= 50
  PROVE  ReadsOK(Sobolev(n, L)) /\ DivsOK(Sobolev(n, L)) /\ Asks(Sobolev(n, L), n)
<1>1. SobolevRolling(L - 1) = L - 11
  BY DEF SobolevRolling, Most
<1>2. CASE n < L + 1
  BY <1>2, WhenNot DEF Sobolev, Asks
<1>3. CASE n >= L + 1
  <2>1. Sobolev(n, L).shown /\ 0 \notin Sobolev(n, L).divs
    BY <1>1, <1>3 DEF Sobolev, Drawn, SobolevFit
  <2>2. ReadsOK(Sobolev(n, L))
    BY <1>1, <1>3, SpanIn, EndsIn DEF ReadsOK, Sobolev, Drawn, SobolevFit, SobolevView
  <2> QED BY <2>1, <2>2 DEF DivsOK, Asks
<1> QED BY <1>2, <1>3

LEMMA FractalSound ==
  ASSUME NEW n \in Nat
  PROVE  ReadsOK(Fractal(n)) /\ DivsOK(Fractal(n)) /\ Asks(Fractal(n), n)
<1> DEFINE m == Least(100, n)  r == m - 1  lags == Least(r \div 2, 30) - 1
<1>1. CASE n < 35
  BY <1>1, WhenNot DEF Fractal, Asks, Least
<1>2. CASE n >= 35
  <2>1. m \in 35..100 /\ r \in 34..99 /\ lags \in 16..29
    BY <1>2 DEF Least
  <2> HIDE DEF m
  <2>2. \A q \in FractalRS(r) : SpanInRange(q)
    <3> SUFFICES ASSUME NEW lag \in FractalLags(r)
                 PROVE  SpanInRange(Span(0, (r \div lag) * lag - 1, r))
      BY DEF FractalRS
    <3> DEFINE e == (r \div lag) * lag
    <3>1. lag \in Nat \ {0} /\ r \in Nat
      BY <2>1 DEF FractalLags
    <3>2. e \in Nat /\ e <= r
      BY <3>1, WholeSteps, Z3
    <3> HIDE DEF e
    <3>3. SpanInRange(Span(0, e - 1, r))
      BY <3>1, <3>2, SpanIn
    <3> QED BY <3>3 DEF e
  <2>3. \A q \in FractalDfa(r) : SpanInRange(q)
    BY <2>1, SpanIn DEF FractalDfa
  <2>4. (\A q \in FractalAcf(r).reads : SpanInRange(q)) /\ 0 \notin FractalAcf(r).divs
    BY <2>1, SpanIn DEF FractalAcf
  <2>5. \A q \in {LastOf(m)} \cup FractalView(lags) : SpanInRange(q)
    BY <2>1, EndsIn DEF FractalView
  <2>6. /\ Fractal(n).shown
        /\ Fractal(n).reads = FractalRS(r) \cup FractalDfa(r) \cup FractalAcf(r).reads \cup {LastOf(m)} \cup FractalView(lags)
        /\ Fractal(n).divs = {r, lags} \cup FractalAcf(r).divs
    BY <2>1 DEF Fractal, Drawn, m
  <2>7. 0 \notin Fractal(n).divs
    BY <2>1, <2>4, <2>6
  <2> QED BY ONLY <2>2, <2>3, <2>4, <2>5, <2>6, <2>7 DEF ReadsOK, DivsOK, Asks
<1> QED BY <1>1, <1>2

LEMMA ArzelaSound ==
  ASSUME NEW n \in Nat, NEW L \in Nat, NEW P \in Nat, L >= 60, P >= 6
  PROVE  /\ ReadsOK(Arzela(n, L, P)) /\ DivsOK(Arzela(n, L, P))
         /\ L = 120 /\ P = 20 => Asks(Arzela(n, L, P), n)
<1> DEFINE r == L - 1
<1>1. CASE n < L + 1 \/ r < 3 * P
  BY <1>1, WhenNot DEF Arzela, Asks
<1>2. CASE ~(n < L + 1 \/ r < 3 * P)
  <2>1. Arzela(n, L, P).shown /\ 0 \notin Arzela(n, L, P).divs
    BY <1>2 DEF Arzela, Drawn, ArzelaView, ArzelaFamily
  <2>2. \A q \in ArzelaIndicator(r, P) \cup ArzelaModulus(r) : SpanInRange(q)
    BY <1>2, SpanIn, EndsIn DEF ArzelaIndicator, ArzelaModulus, Most, Least
  <2>3. \A q \in ArzelaView(ArzelaFamily(P), 7).reads : SpanInRange(q)
    BY <1>2, EndsIn DEF ArzelaView, ArzelaFamily
  <2>4. Arzela(n, L, P).reads = ArzelaIndicator(r, P) \cup ArzelaModulus(r) \cup ArzelaView(ArzelaFamily(P), 7).reads
    BY <1>2 DEF Arzela, Drawn
  <2> QED BY ONLY <2>1, <2>2, <2>3, <2>4 DEF ReadsOK, DivsOK, Asks
<1> QED BY <1>1, <1>2

LEMMA TransportSound ==
  ASSUME NEW n \in Nat, NEW W \in Nat, NEW B \in Nat, W >= 10, B >= 5
  PROVE  ReadsOK(Transport(n, W, B)) /\ DivsOK(Transport(n, W, B)) /\ Asks(Transport(n, W, B), n)
<1> DEFINE r == n - 1  k == Most(0, r - 2 * W)
<1>1. CASE n < 3 * W
  BY <1>1, WhenNot DEF Transport, Asks
<1>2. CASE n >= 3 * W
  <2>1. k = r - 2 * W /\ k >= 9
    BY <1>2 DEF Most
  <2>2. Transport(n, W, B).shown /\ 0 \notin Transport(n, W, B).divs
    BY <1>2, <2>1 DEF Transport, Drawn, TransportHistogram, TransportView, Most, Least
  <2>3. \A q \in TransportSamples(r, W) \cup TransportRolling(r, W) : SpanInRange(q)
    BY <1>2, SpanIn DEF TransportSamples, TransportRolling
  <2>4. \A q \in TransportHistogram(B).reads \cup TransportSinkhorn(B) \cup TransportView(k, B).reads : SpanInRange(q)
    BY <1>2, <2>1, SpanIn, EndsIn DEF TransportHistogram, TransportSinkhorn, TransportView, Least
  <2>5. Transport(n, W, B).reads = TransportSamples(r, W) \cup TransportRolling(r, W) \cup TransportHistogram(B).reads
                                   \cup TransportSinkhorn(B) \cup TransportView(k, B).reads
    BY <1>2 DEF Transport, Drawn
  <2> QED BY ONLY <2>2, <2>3, <2>4, <2>5 DEF ReadsOK, DivsOK, Asks
<1> QED BY <1>1, <1>2
-----------------------------------------------------------------------------
(* The panels by their families.                                             *)

\* LeftEmpty, LeftZero and the three invariants, of one panel p.
EmptyAt(p, x, y) ==
  \/ p = "Lie" /\ y >= x
  \/ p = "Ks" /\ y = 0
  \/ p = "MsGarch" /\ y > 2
  \/ p = "Hmc" /\ y >= x
  \/ p = "Gmm" /\ x > 5
ZeroAt(p, x, y) ==
  \/ EmptyAt(p, x, y)
  \/ p = "Lie" /\ y = x - 1
  \/ p = "Landscape" /\ y >= x
  \/ p = "Gmm" /\ x = 1

Checked(v, p, n, x, y, default) ==
  /\ ~EmptyAt(p, x, y) => ReadsOK(v)
  /\ ~ZeroAt(p, x, y) => DivsOK(v)
  /\ <<x, y>> = default => Asks(v, n)

LEMMA LearningChecked ==
  ASSUME NEW p \in LearningPanels, NEW n \in Nat, NEW x \in Nat, NEW y \in Nat,
         LearningAccept(p, x, y) = <<x, y>>
  PROVE  Checked(LearningPanel(p, n, x, y), p, n, x, y, LearningDefault(p))
<1>1. CASE p = "Rnn"
  <2>1. x \in 2..32 /\ y >= 3 /\ LearningPanel(p, n, x, y) = Rnn(n, x, y) /\ LearningDefault(p) = <<8, 10>>
    BY <1>1 DEF LearningPanel, LearningDefault, LearningAccept, Clamp, Most, Least
  <2>2. ReadsOK(Rnn(n, x, y)) /\ DivsOK(Rnn(n, x, y)) /\ (y <= 20 => Asks(Rnn(n, x, y), n))
    BY <2>1, RnnSound
  <2> QED BY <1>1, <2>1, <2>2 DEF Checked, EmptyAt, ZeroAt
<1>2. CASE p = "Svm"
  <2>1. LearningPanel(p, n, x, y) = Svm(n, x, y = 1) /\ LearningDefault(p) = <<20, 0>>
    BY <1>2 DEF LearningPanel, LearningDefault
  <2>2. x >= 5
    BY <1>2 DEF LearningAccept, Clamp, Most, Least
  <2>3. (y = 1) \in BOOLEAN
    OBVIOUS
  <2>4. ReadsOK(Svm(n, x, y = 1)) /\ DivsOK(Svm(n, x, y = 1)) /\ (x <= 20 => Asks(Svm(n, x, y = 1), n))
    BY ONLY n \in Nat, x \in Nat, <2>2, <2>3, SvmSound, Zenon
  <2> QED BY <1>2, <2>1, <2>4 DEF Checked, EmptyAt, ZeroAt
<1>3. CASE p = "Vae"
  <2>1. x >= 40 /\ y \in 4..16 /\ LearningPanel(p, n, x, y) = Vae(n, x, y) /\ LearningDefault(p) = <<60, 8>>
    BY <1>3 DEF LearningPanel, LearningDefault, LearningAccept, Clamp, Most, Least
  <2>2. ReadsOK(Vae(n, x, y)) /\ DivsOK(Vae(n, x, y)) /\ Asks(Vae(n, x, y), n)
    BY <2>1, VaeSound
  <2> QED BY <1>3, <2>1, <2>2 DEF Checked, EmptyAt, ZeroAt
<1>4. CASE p = "Autoencoder"
  <2>1. x \in 2..8 /\ LearningPanel(p, n, x, y) = Autoenc(n, x) /\ LearningDefault(p) = <<4, 0>>
    BY <1>4 DEF LearningPanel, LearningDefault, LearningAccept, Clamp, Most, Least
  <2>2. ReadsOK(Autoenc(n, x)) /\ DivsOK(Autoenc(n, x)) /\ Asks(Autoenc(n, x), n)
    BY <2>1, AutoencSound
  <2> QED BY <1>4, <2>1, <2>2 DEF Checked, EmptyAt, ZeroAt
<1>5. CASE p = "Forest"
  <2>1. x >= 16 /\ LearningPanel(p, n, x, y) = Forest(n, x) /\ LearningDefault(p) = <<64, 0>>
    BY <1>5 DEF LearningPanel, LearningDefault, LearningAccept, Clamp, Most, Least
  <2>2. ReadsOK(Forest(n, x)) /\ DivsOK(Forest(n, x)) /\ Asks(Forest(n, x), n)
    BY <2>1, ForestSound
  <2> QED BY <1>5, <2>1, <2>2 DEF Checked, EmptyAt, ZeroAt
<1>6. CASE p = "KMeans"
  <2>1. x \in 2..8 /\ y >= 5 /\ LearningPanel(p, n, x, y) = KMeans(n, x, y) /\ LearningDefault(p) = <<4, 20>>
    BY <1>6 DEF LearningPanel, LearningDefault, LearningAccept, Clamp, Most, Least
  <2>2. ReadsOK(KMeans(n, x, y)) /\ DivsOK(KMeans(n, x, y)) /\ (y <= 20 => Asks(KMeans(n, x, y), n))
    BY <2>1, KMeansSound
  <2> QED BY <1>6, <2>1, <2>2 DEF Checked, EmptyAt, ZeroAt
<1>7. CASE p = "Gmm"
  <2>1. x \in 1..8 /\ y >= 50 /\ LearningPanel(p, n, x, y) = Gmm(n, x, y) /\ LearningDefault(p) = <<5, 100>>
    BY <1>7 DEF LearningPanel, LearningDefault, LearningAccept, Clamp, Most, Least
  <2>2. (x <= 5 => ReadsOK(Gmm(n, x, y))) /\ (x # 1 => DivsOK(Gmm(n, x, y))) /\ Asks(Gmm(n, x, y), n)
    BY <2>1, GmmSound
  <2> QED BY <1>7, <2>1, <2>2 DEF Checked, EmptyAt, ZeroAt
<1>8. CASE p = "Pca"
  <2>1. x >= 20 /\ LearningPanel(p, n, x, y) = Pca(n, x, y) /\ LearningDefault(p) = <<50, 3>>
    BY <1>8 DEF LearningPanel, LearningDefault, LearningAccept, Clamp, Most, Least
  <2>2. ReadsOK(Pca(n, x, y)) /\ DivsOK(Pca(n, x, y)) /\ (y = 3 => Asks(Pca(n, x, y), n))
    BY <2>1, PcaSound
  <2> QED BY <1>8, <2>1, <2>2 DEF Checked, EmptyAt, ZeroAt
<1>9. CASE p = "Gp"
  <2>1. x >= 10 /\ y >= 1 /\ LearningPanel(p, n, x, y) = Gp(n, x, y) /\ LearningDefault(p) = <<40, 10>>
    BY <1>9 DEF LearningPanel, LearningDefault, LearningAccept, Clamp, Most, Least
  <2>2. ReadsOK(Gp(n, x, y)) /\ DivsOK(Gp(n, x, y)) /\ Asks(Gp(n, x, y), n)
    BY <2>1, GpSound
  <2> QED BY <1>9, <2>1, <2>2 DEF Checked, EmptyAt, ZeroAt
<1> QED BY <1>1, <1>2, <1>3, <1>4, <1>5, <1>6, <1>7, <1>8, <1>9 DEF LearningPanels

LEMMA SpectralChecked ==
  ASSUME NEW p \in SpectralPanels, NEW n \in Nat, NEW x \in Nat, NEW y \in Nat, n <= 2048,
         SpectralAccept(p, x, y) = <<x, y>>
  PROVE  Checked(SpectralPanel(p, n, x, y), p, n, x, y, SpectralDefault(p))
<1>1. CASE p = "Emd"
  <2>1. x \in 2..8 /\ SpectralPanel(p, n, x, y) = Emd(n, x) /\ SpectralDefault(p) = <<5, 0>>
    BY <1>1 DEF SpectralPanel, SpectralDefault, SpectralAccept, Clamp, Most, Least
  <2>2. ReadsOK(Emd(n, x)) /\ DivsOK(Emd(n, x)) /\ Asks(Emd(n, x), n)
    BY <2>1, EmdSound
  <2> QED BY <1>1, <2>1, <2>2 DEF Checked, EmptyAt, ZeroAt
<1>2. CASE p = "Vmd"
  <2>1. x \in 2..8 /\ SpectralPanel(p, n, x, y) = Vmd(n, x) /\ SpectralDefault(p) = <<4, 0>>
    BY <1>2 DEF SpectralPanel, SpectralDefault, SpectralAccept, Clamp, Most, Least
  <2>2. ReadsOK(Vmd(n, x)) /\ DivsOK(Vmd(n, x)) /\ Asks(Vmd(n, x), n)
    BY <2>1, VmdSound
  <2> QED BY <1>2, <2>1, <2>2 DEF Checked, EmptyAt, ZeroAt
<1>3. CASE p = "WaveletPacket"
  <2>1. x >= 32 /\ y \in 2..7 /\ SpectralPanel(p, n, x, y) = WaveletPacket(n, x, y) /\ SpectralDefault(p) = <<128, 4>>
    BY <1>3 DEF SpectralPanel, SpectralDefault, SpectralAccept, Clamp, Most, Least
  <2>2. ReadsOK(WaveletPacket(n, x, y)) /\ DivsOK(WaveletPacket(n, x, y)) /\ Asks(WaveletPacket(n, x, y), n)
    BY <2>1, WaveletPacketSound
  <2> QED BY <1>3, <2>1, <2>2 DEF Checked, EmptyAt, ZeroAt
<1>4. CASE p = "Wavelet"
  <2>1. x \in 1..8 /\ SpectralPanel(p, n, x, y) = Wavelet(n, x) /\ SpectralDefault(p) = <<4, 0>>
    BY <1>4 DEF SpectralPanel, SpectralDefault, SpectralAccept, Clamp, Most, Least
  <2>2. ReadsOK(Wavelet(n, x)) /\ DivsOK(Wavelet(n, x)) /\ Asks(Wavelet(n, x), n)
    BY <2>1, WaveletSound
  <2> QED BY <1>4, <2>1, <2>2 DEF Checked, EmptyAt, ZeroAt
<1>5. CASE p = "Spectral"
  <2>1. SpectralPanel(p, n, x, y) = Spectral(n) /\ SpectralDefault(p) = <<0, 0>>
    BY <1>5 DEF SpectralPanel, SpectralDefault
  <2>2. ReadsOK(Spectral(n)) /\ DivsOK(Spectral(n)) /\ Asks(Spectral(n), n)
    BY <2>1, SpectralSound
  <2> QED BY <1>5, <2>1, <2>2 DEF Checked, EmptyAt, ZeroAt
<1>6. CASE p = "NonStationary"
  <2>1. x >= 50 /\ y >= 4 /\ y <= 64 /\ SpectralPanel(p, n, x, y) = NonStationary(n, x, y) /\ SpectralDefault(p) = <<100, 16>>
    BY <1>6 DEF SpectralPanel, SpectralDefault, SpectralAccept, Clamp, Most, Least
  <2>2. ReadsOK(NonStationary(n, x, y)) /\ DivsOK(NonStationary(n, x, y)) /\ Asks(NonStationary(n, x, y), n)
    BY <2>1, NonStationarySound
  <2> QED BY <1>6, <2>1, <2>2 DEF Checked, EmptyAt, ZeroAt
<1>7. CASE p = "Compressed"
  <2>1. x >= 16 /\ y \in 1..20 /\ SpectralPanel(p, n, x, y) = Compressed(n, x, y) /\ SpectralDefault(p) = <<64, 5>>
    BY <1>7 DEF SpectralPanel, SpectralDefault, SpectralAccept, Clamp, Most, Least
  <2>2. ReadsOK(Compressed(n, x, y)) /\ DivsOK(Compressed(n, x, y)) /\ Asks(Compressed(n, x, y), n)
    BY <2>1, CompressedSound
  <2> QED BY <1>7, <2>1, <2>2 DEF Checked, EmptyAt, ZeroAt
<1>8. CASE p = "Dtw"
  <2>1. x >= 10 /\ y >= 1 /\ SpectralPanel(p, n, x, y) = Dtw(n, x, y) /\ SpectralDefault(p) = <<20, 5>>
    BY <1>8 DEF SpectralPanel, SpectralDefault, SpectralAccept, Clamp, Most, Least
  <2>2. ReadsOK(Dtw(n, x, y)) /\ DivsOK(Dtw(n, x, y)) /\ Asks(Dtw(n, x, y), n)
    BY <2>1, DtwSound
  <2> QED BY <1>8, <2>1, <2>2 DEF Checked, EmptyAt, ZeroAt
<1>9. CASE p = "Koopman"
  <2>1. x >= 50 /\ y \in 1..4 /\ SpectralPanel(p, n, x, y) = Koopman(n, x, y) /\ SpectralDefault(p) = <<100, 2>>
    BY <1>9 DEF SpectralPanel, SpectralDefault, SpectralAccept, Clamp, Most, Least
  <2>2. ReadsOK(Koopman(n, x, y)) /\ DivsOK(Koopman(n, x, y)) /\ Asks(Koopman(n, x, y), n)
    BY <2>1, KoopmanSound
  <2> QED BY <1>9, <2>1, <2>2 DEF Checked, EmptyAt, ZeroAt
<1>10. CASE p = "Ks"
  <2>1. x >= 100 /\ y \in 0..20 /\ SpectralPanel(p, n, x, y) = Ks(n, x, y) /\ SpectralDefault(p) = <<200, 20>>
    BY <1>10 DEF SpectralPanel, SpectralDefault, SpectralAccept, Clamp, Most, Least
  <2>2. (y # 0 => ReadsOK(Ks(n, x, y))) /\ DivsOK(Ks(n, x, y)) /\ Asks(Ks(n, x, y), n)
    BY <2>1, KsSound
  <2> QED BY <1>10, <2>1, <2>2 DEF Checked, EmptyAt, ZeroAt
<1>11. CASE p = "Te"
  <2>1. x >= 50 /\ y \in 1..3 /\ SpectralPanel(p, n, x, y) = Te(n, x, y) /\ SpectralDefault(p) = <<100, 1>>
    BY <1>11 DEF SpectralPanel, SpectralDefault, SpectralAccept, Clamp, Most, Least
  <2>2. ReadsOK(Te(n, x, y)) /\ DivsOK(Te(n, x, y)) /\ Asks(Te(n, x, y), n)
    BY <2>1, TeSound
  <2> QED BY <1>11, <2>1, <2>2 DEF Checked, EmptyAt, ZeroAt
<1>12. CASE p = "Renyi"
  <2>1. x >= 60 /\ y >= 20 /\ SpectralPanel(p, n, x, y) = Renyi(n, x, y) /\ SpectralDefault(p) = <<150, 40>>
    BY <1>12 DEF SpectralPanel, SpectralDefault, SpectralAccept, Clamp, Most, Least
  <2>2. ReadsOK(Renyi(n, x, y)) /\ DivsOK(Renyi(n, x, y)) /\ Asks(Renyi(n, x, y), n)
    BY <2>1, RenyiSound
  <2> QED BY <1>12, <2>1, <2>2 DEF Checked, EmptyAt, ZeroAt
<1> QED BY <1>1, <1>2, <1>3, <1>4, <1>5, <1>6, <1>7, <1>8, <1>9, <1>10, <1>11, <1>12 DEF SpectralPanels

LEMMA StochasticChecked ==
  ASSUME NEW p \in StochasticPanels, NEW n \in Nat, NEW x \in Nat, NEW y \in Nat,
         StochasticAccept(p, x, y) = <<x, y>>
  PROVE  Checked(StochasticPanel(p, n, x, y), p, n, x, y, StochasticDefault(p))
<1>1. CASE p = "Bayes"
  <2>1. x >= 5 /\ y >= 1 /\ StochasticPanel(p, n, x, y) = Bayes(n, x, y) /\ StochasticDefault(p) = <<20, 10>>
    BY <1>1 DEF StochasticPanel, StochasticDefault, StochasticAccept, Clamp, Most, Least
  <2>2. ReadsOK(Bayes(n, x, y)) /\ DivsOK(Bayes(n, x, y)) /\ Asks(Bayes(n, x, y), n)
    BY <2>1, BayesSound
  <2> QED BY <1>1, <2>1, <2>2 DEF Checked, EmptyAt, ZeroAt
<1>2. CASE p = "Sde"
  <2>1. x >= 10 /\ StochasticPanel(p, n, x, y) = Sde(n, x) /\ StochasticDefault(p) = <<50, 0>>
    BY <1>2 DEF StochasticPanel, StochasticDefault, StochasticAccept, Clamp, Most, Least
  <2>2. ReadsOK(Sde(n, x)) /\ DivsOK(Sde(n, x)) /\ Asks(Sde(n, x), n)
    BY <2>1, SdeSound
  <2> QED BY <1>2, <2>1, <2>2 DEF Checked, EmptyAt, ZeroAt
<1>3. CASE p = "Cvar"
  <2>1. x >= 30 /\ StochasticPanel(p, n, x, y) = Cvar(n, x, y) /\ StochasticDefault(p) = <<100, 3>>
    BY <1>3 DEF StochasticPanel, StochasticDefault, StochasticAccept, Clamp, Most, Least
  <2>2. ReadsOK(Cvar(n, x, y)) /\ DivsOK(Cvar(n, x, y)) /\ (y = 3 => Asks(Cvar(n, x, y), n))
    BY <2>1, CvarSound
  <2> QED BY <1>3, <2>1, <2>2 DEF Checked, EmptyAt, ZeroAt
<1>4. CASE p = "Hawkes"
  <2>1. StochasticPanel(p, n, x, y) = Hawkes(n, x, y) /\ StochasticDefault(p) = <<100, 10>>
    BY <1>4 DEF StochasticPanel, StochasticDefault
  <2>2. ReadsOK(Hawkes(n, x, y)) /\ DivsOK(Hawkes(n, x, y)) /\ (y = 10 => Asks(Hawkes(n, x, y), n))
    BY <2>1, HawkesSound
  <2> QED BY <1>4, <2>1, <2>2 DEF Checked, EmptyAt, ZeroAt
<1>5. CASE p = "MsGarch"
  <2>1. x >= 50 /\ y \in 2..4 /\ StochasticPanel(p, n, x, y) = MsGarch(n, x, y) /\ StochasticDefault(p) = <<100, 2>>
    BY <1>5 DEF StochasticPanel, StochasticDefault, StochasticAccept, Clamp, Most, Least
  <2>2. (y <= 2 => ReadsOK(MsGarch(n, x, y))) /\ DivsOK(MsGarch(n, x, y)) /\ Asks(MsGarch(n, x, y), n)
    BY <2>1, MsGarchSound
  <2> QED BY <1>5, <2>1, <2>2 DEF Checked, EmptyAt, ZeroAt
<1>6. CASE p = "Rough"
  <2>1. x >= 10 /\ StochasticPanel(p, n, x, y) = Rough(n, x) /\ StochasticDefault(p) = <<50, 0>>
    BY <1>6 DEF StochasticPanel, StochasticDefault, StochasticAccept, Clamp, Most, Least
  <2>2. ReadsOK(Rough(n, x)) /\ DivsOK(Rough(n, x)) /\ Asks(Rough(n, x), n)
    BY <2>1, RoughSound
  <2> QED BY <1>6, <2>1, <2>2 DEF Checked, EmptyAt, ZeroAt
<1>7. CASE p = "Kelly"
  <2>1. x >= 20 /\ StochasticPanel(p, n, x, y) = Kelly(n, x, y) /\ StochasticDefault(p) = <<50, 3>>
    BY <1>7 DEF StochasticPanel, StochasticDefault, StochasticAccept, Clamp, Most, Least
  <2>2. ReadsOK(Kelly(n, x, y)) /\ DivsOK(Kelly(n, x, y)) /\ (y = 3 => Asks(Kelly(n, x, y), n))
    BY <2>1, KellySound
  <2> QED BY <1>7, <2>1, <2>2 DEF Checked, EmptyAt, ZeroAt
<1>8. CASE p = "Stopping"
  <2>1. x >= 10 /\ y >= 100 /\ StochasticPanel(p, n, x, y) = Stopping(x, y) /\ StochasticDefault(p) = <<50, 1000>>
    BY <1>8 DEF StochasticPanel, StochasticDefault, StochasticAccept, Clamp, Most, Least
  <2>2. ReadsOK(Stopping(x, y)) /\ DivsOK(Stopping(x, y)) /\ Asks(Stopping(x, y), n)
    BY <2>1, StoppingSound
  <2> QED BY <1>8, <2>1, <2>2 DEF Checked, EmptyAt, ZeroAt
<1>9. CASE p = "Rmt"
  <2>1. x >= 50 /\ StochasticPanel(p, n, x, y) = Rmt(n, x, y) /\ StochasticDefault(p) = <<100, 3>>
    BY <1>9 DEF StochasticPanel, StochasticDefault, StochasticAccept, Clamp, Most, Least
  <2>2. ReadsOK(Rmt(n, x, y)) /\ DivsOK(Rmt(n, x, y)) /\ (y = 3 => Asks(Rmt(n, x, y), n))
    BY <2>1, RmtSound
  <2> QED BY <1>9, <2>1, <2>2 DEF Checked, EmptyAt, ZeroAt
<1>10. CASE p = "Hmc"
  <2>1. x >= 100 /\ StochasticPanel(p, n, x, y) = Hmc(n, x, y) /\ StochasticDefault(p) = <<500, 100>>
    BY <1>10 DEF StochasticPanel, StochasticDefault, StochasticAccept, Clamp, Most, Least
  <2>2. (y < x => ReadsOK(Hmc(n, x, y)) /\ DivsOK(Hmc(n, x, y))) /\ Asks(Hmc(n, x, y), n)
    BY <2>1, HmcSound
  <2> QED BY <1>10, <2>1, <2>2 DEF Checked, EmptyAt, ZeroAt
<1>11. CASE p = "Bsts"
  <2>1. x >= 30 /\ y >= 2 /\ StochasticPanel(p, n, x, y) = Bsts(n, x, y) /\ StochasticDefault(p) = <<100, 7>>
    BY <1>11 DEF StochasticPanel, StochasticDefault, StochasticAccept, Clamp, Most, Least
  <2>2. ReadsOK(Bsts(n, x, y)) /\ DivsOK(Bsts(n, x, y)) /\ Asks(Bsts(n, x, y), n)
    BY <2>1, BstsSound
  <2> QED BY <1>11, <2>1, <2>2 DEF Checked, EmptyAt, ZeroAt
<1>12. CASE p = "Malliavin"
  <2>1. x >= 100 /\ y >= 10 /\ StochasticPanel(p, n, x, y) = Malliavin(n, x, y) /\ StochasticDefault(p) = <<1000, 50>>
    BY <1>12 DEF StochasticPanel, StochasticDefault, StochasticAccept, Clamp, Most, Least
  <2>2. ReadsOK(Malliavin(n, x, y)) /\ DivsOK(Malliavin(n, x, y)) /\ Asks(Malliavin(n, x, y), n)
    BY <2>1, MalliavinSound
  <2> QED BY <1>12, <2>1, <2>2 DEF Checked, EmptyAt, ZeroAt
<1> QED BY <1>1, <1>2, <1>3, <1>4, <1>5, <1>6, <1>7, <1>8, <1>9, <1>10, <1>11, <1>12 DEF StochasticPanels

LEMMA GeometryChecked ==
  ASSUME NEW p \in GeometryPanels, NEW n \in Nat, NEW x \in Nat, NEW y \in Nat,
         GeometryAccept(p, x, y) = <<x, y>>
  PROVE  Checked(GeometryPanel(p, n, x, y), p, n, x, y, GeometryDefault(p))
<1>1. CASE p = "Affine"
  <2>1. x >= 20 /\ y >= 1 /\ GeometryPanel(p, n, x, y) = Affine(n, x, y) /\ GeometryDefault(p) = <<50, 30>>
    BY <1>1 DEF GeometryPanel, GeometryDefault, GeometryAccept, Clamp, Most, Least
  <2>2. ReadsOK(Affine(n, x, y)) /\ DivsOK(Affine(n, x, y)) /\ Asks(Affine(n, x, y), n)
    BY <2>1, AffineSound
  <2> QED BY <1>1, <2>1, <2>2 DEF Checked, EmptyAt, ZeroAt
<1>2. CASE p = "Rkhs"
  <2>1. x >= 30 /\ y \in 1..5 /\ GeometryPanel(p, n, x, y) = Rkhs(n, x, y) /\ GeometryDefault(p) = <<60, 3>>
    BY <1>2 DEF GeometryPanel, GeometryDefault, GeometryAccept, Clamp, Most, Least
  <2>2. ReadsOK(Rkhs(n, x, y)) /\ DivsOK(Rkhs(n, x, y)) /\ Asks(Rkhs(n, x, y), n)
    BY <2>1, RkhsSound
  <2> QED BY <1>2, <2>1, <2>2 DEF Checked, EmptyAt, ZeroAt
<1>3. CASE p = "Tensor"
  <2>1. x >= 50 /\ GeometryPanel(p, n, x, y) = Tensor(n, x, y) /\ GeometryDefault(p) = <<100, 3>>
    BY <1>3 DEF GeometryPanel, GeometryDefault, GeometryAccept, Clamp, Most, Least
  <2>2. ReadsOK(Tensor(n, x, y)) /\ DivsOK(Tensor(n, x, y)) /\ (y = 3 => Asks(Tensor(n, x, y), n))
    BY <2>1, TensorSound
  <2> QED BY <1>3, <2>1, <2>2 DEF Checked, EmptyAt, ZeroAt
<1>4. CASE p = "Landscape"
  <2>1. x >= 60 /\ y >= 20 /\ GeometryPanel(p, n, x, y) = Landscape(n, x, y) /\ GeometryDefault(p) = <<100, 40>>
    BY <1>4 DEF GeometryPanel, GeometryDefault, GeometryAccept, Clamp, Most, Least
  <2>2. ReadsOK(Landscape(n, x, y)) /\ (y < x => DivsOK(Landscape(n, x, y))) /\ Asks(Landscape(n, x, y), n)
    BY <2>1, LandscapeSound
  <2> QED BY <1>4, <2>1, <2>2 DEF Checked, EmptyAt, ZeroAt
<1>5. CASE p = "Tda"
  <2>1. x >= 40 /\ y >= 1 /\ GeometryPanel(p, n, x, y) = Tda(n, x, y) /\ GeometryDefault(p) = <<80, 2>>
    BY <1>5 DEF GeometryPanel, GeometryDefault, GeometryAccept, Clamp, Most, Least
  <2>2. ReadsOK(Tda(n, x, y)) /\ DivsOK(Tda(n, x, y)) /\ (y = 2 => Asks(Tda(n, x, y), n))
    BY <2>1, TdaSound
  <2> QED BY <1>5, <2>1, <2>2 DEF Checked, EmptyAt, ZeroAt
<1>6. CASE p = "Ib"
  <2>1. x >= 50 /\ y >= 1 /\ GeometryPanel(p, n, x, y) = Ib(n, x, y) /\ GeometryDefault(p) = <<100, 1>>
    BY <1>6 DEF GeometryPanel, GeometryDefault, GeometryAccept, Clamp, Most, Least
  <2>2. ReadsOK(Ib(n, x, y)) /\ DivsOK(Ib(n, x, y)) /\ Asks(Ib(n, x, y), n)
    BY <2>1, IbSound
  <2> QED BY <1>6, <2>1, <2>2 DEF Checked, EmptyAt, ZeroAt
<1>7. CASE p = "Graph"
  <2>1. x >= 20 /\ GeometryPanel(p, n, x, y) = Graph(n, x, y) /\ GeometryDefault(p) = <<50, 4>>
    BY <1>7 DEF GeometryPanel, GeometryDefault, GeometryAccept, Clamp, Most, Least
  <2>2. ReadsOK(Graph(n, x, y)) /\ DivsOK(Graph(n, x, y)) /\ (y = 4 => Asks(Graph(n, x, y), n))
    BY <2>1, GraphSound
  <2> QED BY <1>7, <2>1, <2>2 DEF Checked, EmptyAt, ZeroAt
<1>8. CASE p = "Lie"
  <2>1. x >= 40 /\ y >= 10 /\ GeometryPanel(p, n, x, y) = Lie(n, x, y) /\ GeometryDefault(p) = <<100, 20>>
    BY <1>8 DEF GeometryPanel, GeometryDefault, GeometryAccept, Clamp, Most, Least
  <2>2. (y < x => ReadsOK(Lie(n, x, y))) /\ (y < x - 1 => DivsOK(Lie(n, x, y))) /\ Asks(Lie(n, x, y), n)
    BY <2>1, LieSound
  <2> QED BY <1>8, <2>1, <2>2 DEF Checked, EmptyAt, ZeroAt
<1>9. CASE p = "Bary"
  <2>1. x >= 100 /\ y \in 2..8 /\ GeometryPanel(p, n, x, y) = Bary(n, x, y) /\ GeometryDefault(p) = <<200, 4>>
    BY <1>9 DEF GeometryPanel, GeometryDefault, GeometryAccept, Clamp, Most, Least
  <2>2. ReadsOK(Bary(n, x, y)) /\ DivsOK(Bary(n, x, y)) /\ Asks(Bary(n, x, y), n)
    BY <2>1, BarySound
  <2> QED BY <1>9, <2>1, <2>2 DEF Checked, EmptyAt, ZeroAt
<1>10. CASE p = "Sobolev"
  <2>1. x >= 50 /\ GeometryPanel(p, n, x, y) = Sobolev(n, x) /\ GeometryDefault(p) = <<80, 0>>
    BY <1>10 DEF GeometryPanel, GeometryDefault, GeometryAccept, Clamp, Most, Least
  <2>2. ReadsOK(Sobolev(n, x)) /\ DivsOK(Sobolev(n, x)) /\ Asks(Sobolev(n, x), n)
    BY <2>1, SobolevSound
  <2> QED BY <1>10, <2>1, <2>2 DEF Checked, EmptyAt, ZeroAt
<1>11. CASE p = "Fractal"
  <2>1. GeometryPanel(p, n, x, y) = Fractal(n) /\ GeometryDefault(p) = <<0, 0>>
    BY <1>11 DEF GeometryPanel, GeometryDefault
  <2>2. ReadsOK(Fractal(n)) /\ DivsOK(Fractal(n)) /\ Asks(Fractal(n), n)
    BY <2>1, FractalSound
  <2> QED BY <1>11, <2>1, <2>2 DEF Checked, EmptyAt, ZeroAt
<1>12. CASE p = "Arzela"
  <2>1. x >= 60 /\ y >= 6 /\ GeometryPanel(p, n, x, y) = Arzela(n, x, y) /\ GeometryDefault(p) = <<120, 20>>
    BY <1>12 DEF GeometryPanel, GeometryDefault, GeometryAccept, Clamp, Most, Least
  <2>2. ReadsOK(Arzela(n, x, y)) /\ DivsOK(Arzela(n, x, y)) /\ (x = 120 /\ y = 20 => Asks(Arzela(n, x, y), n))
    BY <2>1, ArzelaSound
  <2> QED BY <1>12, <2>1, <2>2 DEF Checked, EmptyAt, ZeroAt
<1>13. CASE p = "Transport"
  <2>1. x >= 10 /\ y >= 5 /\ GeometryPanel(p, n, x, y) = Transport(n, x, y) /\ GeometryDefault(p) = <<30, 20>>
    BY <1>13 DEF GeometryPanel, GeometryDefault, GeometryAccept, Clamp, Most, Least
  <2>2. ReadsOK(Transport(n, x, y)) /\ DivsOK(Transport(n, x, y)) /\ Asks(Transport(n, x, y), n)
    BY <2>1, TransportSound
  <2> QED BY <1>13, <2>1, <2>2 DEF Checked, EmptyAt, ZeroAt
<1> QED BY <1>1, <1>2, <1>3, <1>4, <1>5, <1>6, <1>7, <1>8, <1>9, <1>10, <1>11, <1>12, <1>13 DEF GeometryPanels

LEMMA ControlChecked ==
  ASSUME NEW p \in ControlPanels, NEW n \in Nat, NEW x \in Nat, NEW y \in Nat,
         ControlAccept(p, x, y) = <<x, y>>
  PROVE  Checked(ControlPanel(p, n, x, y), p, n, x, y, ControlDefault(p))
<1>1. CASE p = "Bridge"
  <2>1. x >= 60 /\ y >= 10 /\ ControlPanel(p, n, x, y) = Bridge(n, x, y) /\ ControlDefault(p) = <<120, 30>>
    BY <1>1 DEF ControlPanel, ControlDefault, ControlAccept, Clamp, Most, Least
  <2>2. ReadsOK(Bridge(n, x, y)) /\ DivsOK(Bridge(n, x, y)) /\ Asks(Bridge(n, x, y), n)
    BY <2>1, BridgeSound
  <2> QED BY <1>1, <2>1, <2>2 DEF Checked, EmptyAt, ZeroAt
<1>2. CASE p = "BlackLitterman"
  <2>1. x >= 20 /\ ControlPanel(p, n, x, y) = BlackLitterman(n, x, y) /\ ControlDefault(p) = <<50, 3>>
    BY <1>2 DEF ControlPanel, ControlDefault, ControlAccept, Clamp, Most, Least
  <2>2. ReadsOK(BlackLitterman(n, x, y)) /\ DivsOK(BlackLitterman(n, x, y)) /\ (y = 3 => Asks(BlackLitterman(n, x, y), n))
    BY <2>1, BlackLittermanSound
  <2> QED BY <1>2, <2>1, <2>2 DEF Checked, EmptyAt, ZeroAt
<1>3. CASE p = "Renorm"
  <2>1. x >= 50 /\ y \in 5..50 /\ ControlPanel(p, n, x, y) = Renormalization(n, x, y) /\ ControlDefault(p) = <<200, 20>>
    BY <1>3 DEF ControlPanel, ControlDefault, ControlAccept, Clamp, Most, Least
  <2>2. ReadsOK(Renormalization(n, x, y)) /\ DivsOK(Renormalization(n, x, y)) /\ Asks(Renormalization(n, x, y), n)
    BY <2>1, RenormSound
  <2> QED BY <1>3, <2>1, <2>2 DEF Checked, EmptyAt, ZeroAt
<1>4. CASE p = "Fokker"
  <2>1. x >= 50 /\ y >= 1 /\ ControlPanel(p, n, x, y) = Fokker(n, x, y) /\ ControlDefault(p) = <<100, 10>>
    BY <1>4 DEF ControlPanel, ControlDefault, ControlAccept, Clamp, Most, Least
  <2>2. ReadsOK(Fokker(n, x, y)) /\ DivsOK(Fokker(n, x, y)) /\ Asks(Fokker(n, x, y), n)
    BY <2>1, FokkerSound
  <2> QED BY <1>4, <2>1, <2>2 DEF Checked, EmptyAt, ZeroAt
<1>5. CASE p = "Greeks"
  <2>1. x >= 1000 /\ ControlPanel(p, n, x, y) = Greeks(n, x) /\ ControlDefault(p) = <<10000, 0>>
    BY <1>5 DEF ControlPanel, ControlDefault, ControlAccept, Clamp, Most, Least
  <2>2. ReadsOK(Greeks(n, x)) /\ DivsOK(Greeks(n, x)) /\ Asks(Greeks(n, x), n)
    BY <2>1, GreeksSound
  <2> QED BY <1>5, <2>1, <2>2 DEF Checked, EmptyAt, ZeroAt
<1>6. CASE p = "Cramer"
  <2>1. x >= 30 /\ ControlPanel(p, n, x, y) = Cramer(n, x) /\ ControlDefault(p) = <<100, 0>>
    BY <1>6 DEF ControlPanel, ControlDefault, ControlAccept, Clamp, Most, Least
  <2>2. ReadsOK(Cramer(n, x)) /\ DivsOK(Cramer(n, x)) /\ Asks(Cramer(n, x), n)
    BY <2>1, CramerSound
  <2> QED BY <1>6, <2>1, <2>2 DEF Checked, EmptyAt, ZeroAt
<1>7. CASE p = "Hjb"
  <2>1. x >= 50 /\ y >= 10 /\ ControlPanel(p, n, x, y) = Hjb(n, x, y) /\ ControlDefault(p) = <<100, 30>>
    BY <1>7 DEF ControlPanel, ControlDefault, ControlAccept, Clamp, Most, Least
  <2>2. ReadsOK(Hjb(n, x, y)) /\ DivsOK(Hjb(n, x, y)) /\ Asks(Hjb(n, x, y), n)
    BY <2>1, HjbSound
  <2> QED BY <1>7, <2>1, <2>2 DEF Checked, EmptyAt, ZeroAt
<1> QED BY <1>1, <1>2, <1>3, <1>4, <1>5, <1>6, <1>7 DEF ControlPanels
-----------------------------------------------------------------------------
(* What the handlers store they would store again: the defaults, and the     *)
(* inputs after one of the two has been typed.                               *)

LEMMA LearningStores ==
  ASSUME NEW p \in LearningPanels
  PROVE  /\ LearningDefault(p) \in Nat \X Nat
         /\ LearningAccept(p, LearningDefault(p)[1], LearningDefault(p)[2]) = LearningDefault(p)
         /\ \A x, y \in Nat : LearningAccept(p, x, y) \in Nat \X Nat
<1>1. LearningDefault(p) \in Nat \X Nat /\ LearningAccept(p, LearningDefault(p)[1], LearningDefault(p)[2]) = LearningDefault(p)
  BY DEF LearningPanels, LearningDefault, LearningAccept, Clamp, Most, Least
<1>2. \A x, y \in Nat : LearningAccept(p, x, y) \in Nat \X Nat
  BY DEF LearningPanels, LearningAccept, Clamp, Most, Least
<1> QED BY <1>1, <1>2

LEMMA LearningTyped ==
  ASSUME NEW p \in LearningPanels, NEW x \in Nat, NEW y \in Nat, NEW z \in Nat, LearningAccept(p, x, y) = <<x, y>>
  PROVE  /\ LearningAccept(p, LearningAccept(p, z, y)[1], y) = <<LearningAccept(p, z, y)[1], y>>
         /\ LearningAccept(p, x, LearningAccept(p, x, z)[2]) = <<x, LearningAccept(p, x, z)[2]>>
<1>1. CASE p = "Rnn"
  BY <1>1 DEF LearningAccept, Clamp, Most, Least
<1>2. CASE p = "Svm"
  BY <1>2 DEF LearningAccept, Clamp, Most, Least
<1>3. CASE p = "Vae"
  BY <1>3 DEF LearningAccept, Clamp, Most, Least
<1>4. CASE p = "Autoencoder"
  BY <1>4 DEF LearningAccept, Clamp, Most, Least
<1>5. CASE p = "Forest"
  BY <1>5 DEF LearningAccept, Clamp, Most, Least
<1>6. CASE p = "KMeans"
  BY <1>6 DEF LearningAccept, Clamp, Most, Least
<1>7. CASE p = "Gmm"
  BY <1>7 DEF LearningAccept, Clamp, Most, Least
<1>8. CASE p = "Pca"
  BY <1>8 DEF LearningAccept, Clamp, Most, Least
<1>9. CASE p = "Gp"
  BY <1>9 DEF LearningAccept, Clamp, Most, Least
<1> QED BY <1>1, <1>2, <1>3, <1>4, <1>5, <1>6, <1>7, <1>8, <1>9 DEF LearningPanels

LEMMA SpectralStores ==
  ASSUME NEW p \in SpectralPanels
  PROVE  /\ SpectralDefault(p) \in Nat \X Nat
         /\ SpectralAccept(p, SpectralDefault(p)[1], SpectralDefault(p)[2]) = SpectralDefault(p)
         /\ \A x, y \in Nat : SpectralAccept(p, x, y) \in Nat \X Nat
<1>1. SpectralDefault(p) \in Nat \X Nat /\ SpectralAccept(p, SpectralDefault(p)[1], SpectralDefault(p)[2]) = SpectralDefault(p)
  BY DEF SpectralPanels, SpectralDefault, SpectralAccept, Clamp, Most, Least
<1>2. \A x, y \in Nat : SpectralAccept(p, x, y) \in Nat \X Nat
  BY DEF SpectralPanels, SpectralAccept, Clamp, Most, Least
<1> QED BY <1>1, <1>2

LEMMA SpectralTyped ==
  ASSUME NEW p \in SpectralPanels, NEW x \in Nat, NEW y \in Nat, NEW z \in Nat, SpectralAccept(p, x, y) = <<x, y>>
  PROVE  /\ SpectralAccept(p, SpectralAccept(p, z, y)[1], y) = <<SpectralAccept(p, z, y)[1], y>>
         /\ SpectralAccept(p, x, SpectralAccept(p, x, z)[2]) = <<x, SpectralAccept(p, x, z)[2]>>
<1>1. CASE p = "Emd"
  BY <1>1 DEF SpectralAccept, Clamp, Most, Least
<1>2. CASE p = "Vmd"
  BY <1>2 DEF SpectralAccept, Clamp, Most, Least
<1>3. CASE p = "WaveletPacket"
  BY <1>3 DEF SpectralAccept, Clamp, Most, Least
<1>4. CASE p = "Wavelet"
  BY <1>4 DEF SpectralAccept, Clamp, Most, Least
<1>5. CASE p = "Spectral"
  BY <1>5 DEF SpectralAccept, Clamp, Most, Least
<1>6. CASE p = "NonStationary"
  BY <1>6 DEF SpectralAccept, Clamp, Most, Least
<1>7. CASE p = "Compressed"
  BY <1>7 DEF SpectralAccept, Clamp, Most, Least
<1>8. CASE p = "Dtw"
  BY <1>8 DEF SpectralAccept, Clamp, Most, Least
<1>9. CASE p = "Koopman"
  BY <1>9 DEF SpectralAccept, Clamp, Most, Least
<1>10. CASE p = "Ks"
  BY <1>10 DEF SpectralAccept, Clamp, Most, Least
<1>11. CASE p = "Te"
  BY <1>11 DEF SpectralAccept, Clamp, Most, Least
<1>12. CASE p = "Renyi"
  BY <1>12 DEF SpectralAccept, Clamp, Most, Least
<1> QED BY <1>1, <1>2, <1>3, <1>4, <1>5, <1>6, <1>7, <1>8, <1>9, <1>10, <1>11, <1>12 DEF SpectralPanels

LEMMA StochasticStores ==
  ASSUME NEW p \in StochasticPanels
  PROVE  /\ StochasticDefault(p) \in Nat \X Nat
         /\ StochasticAccept(p, StochasticDefault(p)[1], StochasticDefault(p)[2]) = StochasticDefault(p)
         /\ \A x, y \in Nat : StochasticAccept(p, x, y) \in Nat \X Nat
<1>1. StochasticDefault(p) \in Nat \X Nat /\ StochasticAccept(p, StochasticDefault(p)[1], StochasticDefault(p)[2]) = StochasticDefault(p)
  BY DEF StochasticPanels, StochasticDefault, StochasticAccept, Clamp, Most, Least
<1>2. \A x, y \in Nat : StochasticAccept(p, x, y) \in Nat \X Nat
  BY DEF StochasticPanels, StochasticAccept, Clamp, Most, Least
<1> QED BY <1>1, <1>2

LEMMA StochasticTyped ==
  ASSUME NEW p \in StochasticPanels, NEW x \in Nat, NEW y \in Nat, NEW z \in Nat, StochasticAccept(p, x, y) = <<x, y>>
  PROVE  /\ StochasticAccept(p, StochasticAccept(p, z, y)[1], y) = <<StochasticAccept(p, z, y)[1], y>>
         /\ StochasticAccept(p, x, StochasticAccept(p, x, z)[2]) = <<x, StochasticAccept(p, x, z)[2]>>
<1>1. CASE p = "Bayes"
  BY <1>1 DEF StochasticAccept, Clamp, Most, Least
<1>2. CASE p = "Sde"
  BY <1>2 DEF StochasticAccept, Clamp, Most, Least
<1>3. CASE p = "Cvar"
  BY <1>3 DEF StochasticAccept, Clamp, Most, Least
<1>4. CASE p = "Hawkes"
  BY <1>4 DEF StochasticAccept, Clamp, Most, Least
<1>5. CASE p = "MsGarch"
  BY <1>5 DEF StochasticAccept, Clamp, Most, Least
<1>6. CASE p = "Rough"
  BY <1>6 DEF StochasticAccept, Clamp, Most, Least
<1>7. CASE p = "Kelly"
  BY <1>7 DEF StochasticAccept, Clamp, Most, Least
<1>8. CASE p = "Stopping"
  BY <1>8 DEF StochasticAccept, Clamp, Most, Least
<1>9. CASE p = "Rmt"
  BY <1>9 DEF StochasticAccept, Clamp, Most, Least
<1>10. CASE p = "Hmc"
  BY <1>10 DEF StochasticAccept, Clamp, Most, Least
<1>11. CASE p = "Bsts"
  BY <1>11 DEF StochasticAccept, Clamp, Most, Least
<1>12. CASE p = "Malliavin"
  BY <1>12 DEF StochasticAccept, Clamp, Most, Least
<1> QED BY <1>1, <1>2, <1>3, <1>4, <1>5, <1>6, <1>7, <1>8, <1>9, <1>10, <1>11, <1>12 DEF StochasticPanels

LEMMA GeometryStores ==
  ASSUME NEW p \in GeometryPanels
  PROVE  /\ GeometryDefault(p) \in Nat \X Nat
         /\ GeometryAccept(p, GeometryDefault(p)[1], GeometryDefault(p)[2]) = GeometryDefault(p)
         /\ \A x, y \in Nat : GeometryAccept(p, x, y) \in Nat \X Nat
<1>1. GeometryDefault(p) \in Nat \X Nat /\ GeometryAccept(p, GeometryDefault(p)[1], GeometryDefault(p)[2]) = GeometryDefault(p)
  BY DEF GeometryPanels, GeometryDefault, GeometryAccept, Clamp, Most, Least
<1>2. \A x, y \in Nat : GeometryAccept(p, x, y) \in Nat \X Nat
  BY DEF GeometryPanels, GeometryAccept, Clamp, Most, Least
<1> QED BY <1>1, <1>2

LEMMA GeometryTyped ==
  ASSUME NEW p \in GeometryPanels, NEW x \in Nat, NEW y \in Nat, NEW z \in Nat, GeometryAccept(p, x, y) = <<x, y>>
  PROVE  /\ GeometryAccept(p, GeometryAccept(p, z, y)[1], y) = <<GeometryAccept(p, z, y)[1], y>>
         /\ GeometryAccept(p, x, GeometryAccept(p, x, z)[2]) = <<x, GeometryAccept(p, x, z)[2]>>
<1>1. CASE p = "Affine"
  BY <1>1 DEF GeometryAccept, Clamp, Most, Least
<1>2. CASE p = "Rkhs"
  BY <1>2 DEF GeometryAccept, Clamp, Most, Least
<1>3. CASE p = "Tensor"
  BY <1>3 DEF GeometryAccept, Clamp, Most, Least
<1>4. CASE p = "Landscape"
  BY <1>4 DEF GeometryAccept, Clamp, Most, Least
<1>5. CASE p = "Tda"
  BY <1>5 DEF GeometryAccept, Clamp, Most, Least
<1>6. CASE p = "Ib"
  BY <1>6 DEF GeometryAccept, Clamp, Most, Least
<1>7. CASE p = "Graph"
  BY <1>7 DEF GeometryAccept, Clamp, Most, Least
<1>8. CASE p = "Lie"
  BY <1>8 DEF GeometryAccept, Clamp, Most, Least
<1>9. CASE p = "Bary"
  BY <1>9 DEF GeometryAccept, Clamp, Most, Least
<1>10. CASE p = "Sobolev"
  BY <1>10 DEF GeometryAccept, Clamp, Most, Least
<1>11. CASE p = "Fractal"
  BY <1>11 DEF GeometryAccept, Clamp, Most, Least
<1>12. CASE p = "Arzela"
  BY <1>12 DEF GeometryAccept, Clamp, Most, Least
<1>13. CASE p = "Transport"
  BY <1>13 DEF GeometryAccept, Clamp, Most, Least
<1> QED BY <1>1, <1>2, <1>3, <1>4, <1>5, <1>6, <1>7, <1>8, <1>9, <1>10, <1>11, <1>12, <1>13 DEF GeometryPanels

LEMMA ControlStores ==
  ASSUME NEW p \in ControlPanels
  PROVE  /\ ControlDefault(p) \in Nat \X Nat
         /\ ControlAccept(p, ControlDefault(p)[1], ControlDefault(p)[2]) = ControlDefault(p)
         /\ \A x, y \in Nat : ControlAccept(p, x, y) \in Nat \X Nat
<1>1. ControlDefault(p) \in Nat \X Nat /\ ControlAccept(p, ControlDefault(p)[1], ControlDefault(p)[2]) = ControlDefault(p)
  BY DEF ControlPanels, ControlDefault, ControlAccept, Clamp, Most, Least
<1>2. \A x, y \in Nat : ControlAccept(p, x, y) \in Nat \X Nat
  BY DEF ControlPanels, ControlAccept, Clamp, Most, Least
<1> QED BY <1>1, <1>2

LEMMA ControlTyped ==
  ASSUME NEW p \in ControlPanels, NEW x \in Nat, NEW y \in Nat, NEW z \in Nat, ControlAccept(p, x, y) = <<x, y>>
  PROVE  /\ ControlAccept(p, ControlAccept(p, z, y)[1], y) = <<ControlAccept(p, z, y)[1], y>>
         /\ ControlAccept(p, x, ControlAccept(p, x, z)[2]) = <<x, ControlAccept(p, x, z)[2]>>
BY DEF ControlPanels, ControlAccept, Clamp, Most, Least

\* Each input is stored for its own value, whatever the other one is.
LEMMA LearningApart ==
  ASSUME NEW p \in LearningPanels, NEW x \in Nat, NEW y \in Nat, NEW z \in Nat
  PROVE  /\ LearningAccept(p, x, z)[1] = LearningAccept(p, x, y)[1]
         /\ LearningAccept(p, z, y)[2] = LearningAccept(p, x, y)[2]
BY DEF LearningPanels, LearningAccept

LEMMA SpectralApart ==
  ASSUME NEW p \in SpectralPanels, NEW x \in Nat, NEW y \in Nat, NEW z \in Nat
  PROVE  /\ SpectralAccept(p, x, z)[1] = SpectralAccept(p, x, y)[1]
         /\ SpectralAccept(p, z, y)[2] = SpectralAccept(p, x, y)[2]
BY DEF SpectralPanels, SpectralAccept

LEMMA StochasticApart ==
  ASSUME NEW p \in StochasticPanels, NEW x \in Nat, NEW y \in Nat, NEW z \in Nat
  PROVE  /\ StochasticAccept(p, x, z)[1] = StochasticAccept(p, x, y)[1]
         /\ StochasticAccept(p, z, y)[2] = StochasticAccept(p, x, y)[2]
BY DEF StochasticPanels, StochasticAccept

LEMMA GeometryApart ==
  ASSUME NEW p \in GeometryPanels, NEW x \in Nat, NEW y \in Nat, NEW z \in Nat
  PROVE  /\ GeometryAccept(p, x, z)[1] = GeometryAccept(p, x, y)[1]
         /\ GeometryAccept(p, z, y)[2] = GeometryAccept(p, x, y)[2]
BY DEF GeometryPanels, GeometryAccept

LEMMA ControlApart ==
  ASSUME NEW p \in ControlPanels, NEW x \in Nat, NEW y \in Nat, NEW z \in Nat
  PROVE  /\ ControlAccept(p, x, z)[1] = ControlAccept(p, x, y)[1]
         /\ ControlAccept(p, z, y)[2] = ControlAccept(p, x, y)[2]
BY DEF ControlPanels, ControlAccept

-----------------------------------------------------------------------------
(* One panel on the screen: its family decides what it reads and stores.     *)

LEMMA LearningFamily ==
  ASSUME NEW p \in LearningPanels
  PROVE  /\ \A n, x, y : PanelOf(p, n, x, y) = LearningPanel(p, n, x, y)
         /\ \A x, y : Accept(p, x, y) = LearningAccept(p, x, y)
         /\ Default(p) = LearningDefault(p)
BY DEF PanelOf, Accept, Default, LearningPanels, SpectralPanels, StochasticPanels, GeometryPanels, ControlPanels

LEMMA SpectralFamily ==
  ASSUME NEW p \in SpectralPanels
  PROVE  /\ \A n, x, y : PanelOf(p, n, x, y) = SpectralPanel(p, n, x, y)
         /\ \A x, y : Accept(p, x, y) = SpectralAccept(p, x, y)
         /\ Default(p) = SpectralDefault(p)
BY DEF PanelOf, Accept, Default, LearningPanels, SpectralPanels, StochasticPanels, GeometryPanels, ControlPanels

LEMMA StochasticFamily ==
  ASSUME NEW p \in StochasticPanels
  PROVE  /\ \A n, x, y : PanelOf(p, n, x, y) = StochasticPanel(p, n, x, y)
         /\ \A x, y : Accept(p, x, y) = StochasticAccept(p, x, y)
         /\ Default(p) = StochasticDefault(p)
BY DEF PanelOf, Accept, Default, LearningPanels, SpectralPanels, StochasticPanels, GeometryPanels, ControlPanels

LEMMA GeometryFamily ==
  ASSUME NEW p \in GeometryPanels
  PROVE  /\ \A n, x, y : PanelOf(p, n, x, y) = GeometryPanel(p, n, x, y)
         /\ \A x, y : Accept(p, x, y) = GeometryAccept(p, x, y)
         /\ Default(p) = GeometryDefault(p)
BY DEF PanelOf, Accept, Default, LearningPanels, SpectralPanels, StochasticPanels, GeometryPanels, ControlPanels

LEMMA ControlFamily ==
  ASSUME NEW p \in ControlPanels
  PROVE  /\ \A n, x, y : PanelOf(p, n, x, y) = ControlPanel(p, n, x, y)
         /\ \A x, y : Accept(p, x, y) = ControlAccept(p, x, y)
         /\ Default(p) = ControlDefault(p)
BY DEF PanelOf, Accept, Default, LearningPanels, SpectralPanels, StochasticPanels, GeometryPanels, ControlPanels

\* A default is stored unchanged, and whatever is stored is a pair of numbers.
LEMMA Stores ==
  ASSUME NEW p \in Panels
  PROVE  /\ Default(p) \in Nat \X Nat
         /\ Accept(p, Default(p)[1], Default(p)[2]) = Default(p)
         /\ \A x, y \in Nat : Accept(p, x, y) \in Nat \X Nat
<1>1. CASE p \in LearningPanels
  <2>1. (\A u, v : Accept(p, u, v) = LearningAccept(p, u, v)) /\ Default(p) = LearningDefault(p)
    BY <1>1, LearningFamily
  <2>2. /\ LearningDefault(p) \in Nat \X Nat
        /\ LearningAccept(p, LearningDefault(p)[1], LearningDefault(p)[2]) = LearningDefault(p)
        /\ \A x, y \in Nat : LearningAccept(p, x, y) \in Nat \X Nat
    BY <1>1, LearningStores
  <2> QED BY ONLY <2>1, <2>2
<1>2. CASE p \in SpectralPanels
  <2>1. (\A u, v : Accept(p, u, v) = SpectralAccept(p, u, v)) /\ Default(p) = SpectralDefault(p)
    BY <1>2, SpectralFamily
  <2>2. /\ SpectralDefault(p) \in Nat \X Nat
        /\ SpectralAccept(p, SpectralDefault(p)[1], SpectralDefault(p)[2]) = SpectralDefault(p)
        /\ \A x, y \in Nat : SpectralAccept(p, x, y) \in Nat \X Nat
    BY <1>2, SpectralStores
  <2> QED BY ONLY <2>1, <2>2
<1>3. CASE p \in StochasticPanels
  <2>1. (\A u, v : Accept(p, u, v) = StochasticAccept(p, u, v)) /\ Default(p) = StochasticDefault(p)
    BY <1>3, StochasticFamily
  <2>2. /\ StochasticDefault(p) \in Nat \X Nat
        /\ StochasticAccept(p, StochasticDefault(p)[1], StochasticDefault(p)[2]) = StochasticDefault(p)
        /\ \A x, y \in Nat : StochasticAccept(p, x, y) \in Nat \X Nat
    BY <1>3, StochasticStores
  <2> QED BY ONLY <2>1, <2>2
<1>4. CASE p \in GeometryPanels
  <2>1. (\A u, v : Accept(p, u, v) = GeometryAccept(p, u, v)) /\ Default(p) = GeometryDefault(p)
    BY <1>4, GeometryFamily
  <2>2. /\ GeometryDefault(p) \in Nat \X Nat
        /\ GeometryAccept(p, GeometryDefault(p)[1], GeometryDefault(p)[2]) = GeometryDefault(p)
        /\ \A x, y \in Nat : GeometryAccept(p, x, y) \in Nat \X Nat
    BY <1>4, GeometryStores
  <2> QED BY ONLY <2>1, <2>2
<1>5. CASE p \in ControlPanels
  <2>1. (\A u, v : Accept(p, u, v) = ControlAccept(p, u, v)) /\ Default(p) = ControlDefault(p)
    BY <1>5, ControlFamily
  <2>2. /\ ControlDefault(p) \in Nat \X Nat
        /\ ControlAccept(p, ControlDefault(p)[1], ControlDefault(p)[2]) = ControlDefault(p)
        /\ \A x, y \in Nat : ControlAccept(p, x, y) \in Nat \X Nat
    BY <1>5, ControlStores
  <2> QED BY ONLY <2>1, <2>2
<1> QED BY <1>1, <1>2, <1>3, <1>4, <1>5 DEF Panels

\* Typing into one input leaves both as the handlers would store them.
LEMMA StoresTyped ==
  ASSUME NEW p \in Panels, NEW x \in Nat, NEW y \in Nat, NEW z \in Nat, Accept(p, x, y) = <<x, y>>
  PROVE  /\ Accept(p, Accept(p, z, y)[1], y) = <<Accept(p, z, y)[1], y>>
         /\ Accept(p, x, Accept(p, x, z)[2]) = <<x, Accept(p, x, z)[2]>>
<1>1. CASE p \in LearningPanels
  <2>1. \A u, v : Accept(p, u, v) = LearningAccept(p, u, v)
    BY <1>1, LearningFamily
  <2>2. LearningAccept(p, x, y) = <<x, y>>
    BY <2>1
  <2>3. /\ LearningAccept(p, LearningAccept(p, z, y)[1], y) = <<LearningAccept(p, z, y)[1], y>>
        /\ LearningAccept(p, x, LearningAccept(p, x, z)[2]) = <<x, LearningAccept(p, x, z)[2]>>
    BY <1>1, <2>2, LearningTyped
  <2> QED BY ONLY <2>1, <2>3
<1>2. CASE p \in SpectralPanels
  <2>1. \A u, v : Accept(p, u, v) = SpectralAccept(p, u, v)
    BY <1>2, SpectralFamily
  <2>2. SpectralAccept(p, x, y) = <<x, y>>
    BY <2>1
  <2>3. /\ SpectralAccept(p, SpectralAccept(p, z, y)[1], y) = <<SpectralAccept(p, z, y)[1], y>>
        /\ SpectralAccept(p, x, SpectralAccept(p, x, z)[2]) = <<x, SpectralAccept(p, x, z)[2]>>
    BY <1>2, <2>2, SpectralTyped
  <2> QED BY ONLY <2>1, <2>3
<1>3. CASE p \in StochasticPanels
  <2>1. \A u, v : Accept(p, u, v) = StochasticAccept(p, u, v)
    BY <1>3, StochasticFamily
  <2>2. StochasticAccept(p, x, y) = <<x, y>>
    BY <2>1
  <2>3. /\ StochasticAccept(p, StochasticAccept(p, z, y)[1], y) = <<StochasticAccept(p, z, y)[1], y>>
        /\ StochasticAccept(p, x, StochasticAccept(p, x, z)[2]) = <<x, StochasticAccept(p, x, z)[2]>>
    BY <1>3, <2>2, StochasticTyped
  <2> QED BY ONLY <2>1, <2>3
<1>4. CASE p \in GeometryPanels
  <2>1. \A u, v : Accept(p, u, v) = GeometryAccept(p, u, v)
    BY <1>4, GeometryFamily
  <2>2. GeometryAccept(p, x, y) = <<x, y>>
    BY <2>1
  <2>3. /\ GeometryAccept(p, GeometryAccept(p, z, y)[1], y) = <<GeometryAccept(p, z, y)[1], y>>
        /\ GeometryAccept(p, x, GeometryAccept(p, x, z)[2]) = <<x, GeometryAccept(p, x, z)[2]>>
    BY <1>4, <2>2, GeometryTyped
  <2> QED BY ONLY <2>1, <2>3
<1>5. CASE p \in ControlPanels
  <2>1. \A u, v : Accept(p, u, v) = ControlAccept(p, u, v)
    BY <1>5, ControlFamily
  <2>2. ControlAccept(p, x, y) = <<x, y>>
    BY <2>1
  <2>3. /\ ControlAccept(p, ControlAccept(p, z, y)[1], y) = <<ControlAccept(p, z, y)[1], y>>
        /\ ControlAccept(p, x, ControlAccept(p, x, z)[2]) = <<x, ControlAccept(p, x, z)[2]>>
    BY <1>5, <2>2, ControlTyped
  <2> QED BY ONLY <2>1, <2>3
<1> QED BY <1>1, <1>2, <1>3, <1>4, <1>5 DEF Panels

LEMMA StoresApart ==
  ASSUME NEW p \in Panels, NEW x \in Nat, NEW y \in Nat, NEW z \in Nat
  PROVE  /\ Accept(p, x, z)[1] = Accept(p, x, y)[1]
         /\ Accept(p, z, y)[2] = Accept(p, x, y)[2]
<1>1. CASE p \in LearningPanels
  <2>1. \A u, v : Accept(p, u, v) = LearningAccept(p, u, v)
    BY <1>1, LearningFamily
  <2>2. /\ LearningAccept(p, x, z)[1] = LearningAccept(p, x, y)[1]
        /\ LearningAccept(p, z, y)[2] = LearningAccept(p, x, y)[2]
    BY <1>1, LearningApart
  <2> QED BY ONLY <2>1, <2>2
<1>2. CASE p \in SpectralPanels
  <2>1. \A u, v : Accept(p, u, v) = SpectralAccept(p, u, v)
    BY <1>2, SpectralFamily
  <2>2. /\ SpectralAccept(p, x, z)[1] = SpectralAccept(p, x, y)[1]
        /\ SpectralAccept(p, z, y)[2] = SpectralAccept(p, x, y)[2]
    BY <1>2, SpectralApart
  <2> QED BY ONLY <2>1, <2>2
<1>3. CASE p \in StochasticPanels
  <2>1. \A u, v : Accept(p, u, v) = StochasticAccept(p, u, v)
    BY <1>3, StochasticFamily
  <2>2. /\ StochasticAccept(p, x, z)[1] = StochasticAccept(p, x, y)[1]
        /\ StochasticAccept(p, z, y)[2] = StochasticAccept(p, x, y)[2]
    BY <1>3, StochasticApart
  <2> QED BY ONLY <2>1, <2>2
<1>4. CASE p \in GeometryPanels
  <2>1. \A u, v : Accept(p, u, v) = GeometryAccept(p, u, v)
    BY <1>4, GeometryFamily
  <2>2. /\ GeometryAccept(p, x, z)[1] = GeometryAccept(p, x, y)[1]
        /\ GeometryAccept(p, z, y)[2] = GeometryAccept(p, x, y)[2]
    BY <1>4, GeometryApart
  <2> QED BY ONLY <2>1, <2>2
<1>5. CASE p \in ControlPanels
  <2>1. \A u, v : Accept(p, u, v) = ControlAccept(p, u, v)
    BY <1>5, ControlFamily
  <2>2. /\ ControlAccept(p, x, z)[1] = ControlAccept(p, x, y)[1]
        /\ ControlAccept(p, z, y)[2] = ControlAccept(p, x, y)[2]
    BY <1>5, ControlApart
  <2> QED BY ONLY <2>1, <2>2
<1> QED BY <1>1, <1>2, <1>3, <1>4, <1>5 DEF Panels

\* Every panel, whatever its family.
LEMMA PanelChecked ==
  ASSUME NEW p \in Panels, NEW n \in Nat, NEW x \in Nat, NEW y \in Nat, n <= 2048,
         Accept(p, x, y) = <<x, y>>
  PROVE  Checked(PanelOf(p, n, x, y), p, n, x, y, Default(p))
<1>1. CASE p \in LearningPanels
  <2>1. /\ PanelOf(p, n, x, y) = LearningPanel(p, n, x, y)
        /\ Accept(p, x, y) = LearningAccept(p, x, y)
        /\ Default(p) = LearningDefault(p)
    BY <1>1, LearningFamily
  <2>2. LearningAccept(p, x, y) = <<x, y>>
    BY <2>1
  <2>3. Checked(LearningPanel(p, n, x, y), p, n, x, y, LearningDefault(p))
    BY <1>1, <2>2, LearningChecked
  <2> QED BY <2>1, <2>3
<1>2. CASE p \in SpectralPanels
  <2>1. /\ PanelOf(p, n, x, y) = SpectralPanel(p, n, x, y)
        /\ Accept(p, x, y) = SpectralAccept(p, x, y)
        /\ Default(p) = SpectralDefault(p)
    BY <1>2, SpectralFamily
  <2>2. SpectralAccept(p, x, y) = <<x, y>>
    BY <2>1
  <2>3. Checked(SpectralPanel(p, n, x, y), p, n, x, y, SpectralDefault(p))
    BY <1>2, <2>2, SpectralChecked
  <2> QED BY <2>1, <2>3
<1>3. CASE p \in StochasticPanels
  <2>1. /\ PanelOf(p, n, x, y) = StochasticPanel(p, n, x, y)
        /\ Accept(p, x, y) = StochasticAccept(p, x, y)
        /\ Default(p) = StochasticDefault(p)
    BY <1>3, StochasticFamily
  <2>2. StochasticAccept(p, x, y) = <<x, y>>
    BY <2>1
  <2>3. Checked(StochasticPanel(p, n, x, y), p, n, x, y, StochasticDefault(p))
    BY <1>3, <2>2, StochasticChecked
  <2> QED BY <2>1, <2>3
<1>4. CASE p \in GeometryPanels
  <2>1. /\ PanelOf(p, n, x, y) = GeometryPanel(p, n, x, y)
        /\ Accept(p, x, y) = GeometryAccept(p, x, y)
        /\ Default(p) = GeometryDefault(p)
    BY <1>4, GeometryFamily
  <2>2. GeometryAccept(p, x, y) = <<x, y>>
    BY <2>1
  <2>3. Checked(GeometryPanel(p, n, x, y), p, n, x, y, GeometryDefault(p))
    BY <1>4, <2>2, GeometryChecked
  <2> QED BY <2>1, <2>3
<1>5. CASE p \in ControlPanels
  <2>1. /\ PanelOf(p, n, x, y) = ControlPanel(p, n, x, y)
        /\ Accept(p, x, y) = ControlAccept(p, x, y)
        /\ Default(p) = ControlDefault(p)
    BY <1>5, ControlFamily
  <2>2. ControlAccept(p, x, y) = <<x, y>>
    BY <2>1
  <2>3. Checked(ControlPanel(p, n, x, y), p, n, x, y, ControlDefault(p))
    BY <1>5, <2>2, ControlChecked
  <2> QED BY <2>1, <2>3
<1> QED BY <1>1, <1>2, <1>3, <1>4, <1>5 DEF Panels

-----------------------------------------------------------------------------
(***************************************************************************)
(* The inductive invariant: the inputs of the panel on the screen are ones *)
(* its handlers store unchanged, and so is the next whole number of an     *)
(* input with a fraction.  Without it nothing relates the inputs to the    *)
(* guards: a window of 0 would pass them.                                  *)
(***************************************************************************)
InputsInv ==
  /\ panel \in Panels
  /\ candles \in Nat /\ candles <= MaxCandles
  /\ first \in Nat /\ second \in Nat
  /\ Accept(panel, first, second) = <<first, second>>
  /\ 1 \in fractions => Accept(panel, first + 1, second)[1] = first + 1
  /\ 2 \in fractions => Accept(panel, first, second + 1)[2] = second + 1

LEMMA InputsInit == Init => InputsInv
<1> SUFFICES ASSUME Init PROVE InputsInv
  OBVIOUS
<1>1. /\ panel \in Panels /\ candles = 0 /\ fractions = {}
      /\ first = Default(panel)[1] /\ second = Default(panel)[2]
  BY DEF Init
<1>2. Default(panel) \in Nat \X Nat /\ Accept(panel, Default(panel)[1], Default(panel)[2]) = Default(panel)
  BY <1>1, Stores
<1> QED BY <1>1, <1>2, PanelsAssumption DEF InputsInv

LEMMA InputsStep == InputsInv /\ [Next]_vars => InputsInv'
<1> SUFFICES ASSUME InputsInv, [Next]_vars PROVE InputsInv'
  OBVIOUS
<1> USE DEF InputsInv
<1>1. CASE Candle
  BY <1>1, PanelsAssumption DEF Candle
<1>2. CASE SelectSymbol
  BY <1>2, PanelsAssumption DEF SelectSymbol
<1>3. CASE TypeFirst
  <2>1. PICK x \in Typed, decimal \in BOOLEAN :
          /\ first' = Accept(panel, x, second)[1]
          /\ fractions' = Stored(1, x, Accept(panel, x, second)[1], Accept(panel, x + 1, second)[1], decimal)
          /\ UNCHANGED <<panel, candles, second>>
    BY <1>3 DEF TypeFirst
  <2>2. x \in Nat /\ x + 1 \in Nat
    BY PanelsAssumption
  <2>3. Accept(panel, x, second) \in Nat \X Nat
    BY <2>2, Stores
  <2>4. Accept(panel, Accept(panel, x, second)[1], second) = <<Accept(panel, x, second)[1], second>>
    BY <2>2, StoresTyped
  <2>5. first' \in Nat /\ Accept(panel, first', second) = <<first', second>>
    BY <2>1, <2>3, <2>4
  <2>6. 1 \in fractions' => Accept(panel, first' + 1, second)[1] = first' + 1
    BY <2>1 DEF Stored
  <2>7. Accept(panel, first', second + 1)[2] = Accept(panel, first, second + 1)[2]
    BY <2>5, StoresApart
  <2>8. 2 \in fractions' => 2 \in fractions
    BY <2>1 DEF Stored
  <2> QED BY <2>1, <2>5, <2>6, <2>7, <2>8
<1>4. CASE TypeSecond
  <2>1. PICK y \in Typed, decimal \in BOOLEAN :
          /\ second' = Accept(panel, first, y)[2]
          /\ fractions' = Stored(2, y, Accept(panel, first, y)[2], Accept(panel, first, y + 1)[2], decimal)
          /\ UNCHANGED <<panel, candles, first>>
    BY <1>4 DEF TypeSecond
  <2>2. y \in Nat /\ y + 1 \in Nat
    BY PanelsAssumption
  <2>3. Accept(panel, first, y) \in Nat \X Nat
    BY <2>2, Stores
  <2>4. Accept(panel, first, Accept(panel, first, y)[2]) = <<first, Accept(panel, first, y)[2]>>
    BY <2>2, StoresTyped
  <2>5. second' \in Nat /\ Accept(panel, first, second') = <<first, second'>>
    BY <2>1, <2>3, <2>4
  <2>6. 2 \in fractions' => Accept(panel, first, second' + 1)[2] = second' + 1
    BY <2>1 DEF Stored
  <2>7. Accept(panel, first + 1, second')[1] = Accept(panel, first + 1, second)[1]
    BY <2>5, StoresApart
  <2>8. 1 \in fractions' => 1 \in fractions
    BY <2>1 DEF Stored
  <2> QED BY <2>1, <2>5, <2>6, <2>7, <2>8
<1>5. CASE UNCHANGED vars
  BY <1>5 DEF vars
<1> QED BY <1>1, <1>2, <1>3, <1>4, <1>5 DEF Next

\* The inputs on the screen are always ones the handlers would store again,
\* whole or decimal, whatever is typed and whichever symbol is selected.
THEOREM InputsAreAccepted == Spec => []InputsInv
BY InputsInit, InputsStep, PTL DEF Spec

\* What a panel works with in place of its inputs it would store too.
LEMMA UsedIsAccepted ==
  InputsInv => /\ FirstUsed \in Nat /\ SecondUsed \in Nat
               /\ Accept(panel, FirstUsed, SecondUsed) = <<FirstUsed, SecondUsed>>
<1> SUFFICES ASSUME InputsInv
             PROVE  /\ FirstUsed \in Nat /\ SecondUsed \in Nat
                    /\ Accept(panel, FirstUsed, SecondUsed) = <<FirstUsed, SecondUsed>>
  OBVIOUS
<1> USE DEF InputsInv
<1>1. FirstUsed \in Nat /\ SecondUsed \in Nat
  BY DEF FirstUsed, SecondUsed
<1>2. Accept(panel, FirstUsed, second)[1] = FirstUsed
  BY DEF FirstUsed
<1>3. Accept(panel, first, SecondUsed)[2] = SecondUsed
  BY DEF SecondUsed
<1>4. Accept(panel, FirstUsed, SecondUsed)[1] = FirstUsed
  BY <1>1, <1>2, StoresApart
<1>5. Accept(panel, FirstUsed, SecondUsed)[2] = SecondUsed
  BY <1>1, <1>3, StoresApart
<1>6. Accept(panel, FirstUsed, SecondUsed) \in Nat \X Nat
  BY <1>1, Stores
<1> QED BY <1>1, <1>4, <1>5, <1>6

\* The panel on the screen, with its candles and what it makes of its inputs.
LEMMA ScreenChecked ==
  InputsInv => Checked(PanelOf(panel, candles, FirstUsed, SecondUsed), panel, candles, FirstUsed, SecondUsed, Default(panel))
<1> SUFFICES ASSUME InputsInv
             PROVE  Checked(PanelOf(panel, candles, FirstUsed, SecondUsed), panel, candles, FirstUsed, SecondUsed, Default(panel))
  OBVIOUS
<1>1. panel \in Panels /\ candles \in Nat /\ candles <= 2048
  BY PanelsAssumption DEF InputsInv
<1> QED BY <1>1, UsedIsAccepted, PanelChecked

\* Without an input that breaks it the panel is drawn from whole numbers.
LEMMA WholeView == ~FractionBreaks => View = PanelOf(panel, candles, FirstUsed, SecondUsed)
BY DEF View

\* The exceptions for what is typed cover those for what is used in its place.
LEMMA UsedExceptions ==
  InputsInv => /\ ~EmptyInputs => ~EmptyAt(panel, FirstUsed, SecondUsed)
               /\ ~LeftZero => ~ZeroAt(panel, FirstUsed, SecondUsed)
BY DEF InputsInv, EmptyInputs, LeftEmpty, LeftZero, EmptyAt, ZeroAt, FirstUsed, SecondUsed, FirstUpPanels, SecondUpPanels

\* No panel uses an element that is not there, for any number of candles and
\* any inputs, whole or decimal, outside the combinations LeftEmpty names: the
\* guard in front of each computation covers every index of its windows,
\* transforms, trees and charts.
THEOREM NothingMissing == Spec => []NoMissingElement
<1>1. InputsInv => NoMissingElement
  BY ScreenChecked, WholeView, UsedExceptions DEF Checked, NoMissingElement, LeftEmpty
<1> QED BY <1>1, InputsAreAccepted, PTL

\* No panel divides by a length, count or axis that is zero, outside the
\* combinations LeftZero names.
THEOREM NothingDividedByZero == Spec => []NoZeroDivisor
<1>1. InputsInv => NoZeroDivisor
  BY ScreenChecked, WholeView, UsedExceptions DEF Checked, NoZeroDivisor, LeftEmpty, LeftZero
<1> QED BY <1>1, InputsAreAccepted, PTL

\* With its default inputs a panel asks for N candles only while there are
\* fewer: every further guard behind the first one holds from N candles on.
THEOREM PlaceholdersAreTrue == Spec => []PlaceholderIsTrue
<1>1. fractions = {} => ~FractionBreaks /\ FirstUsed = first /\ SecondUsed = second
  BY DEF FractionBreaks, FirstUsed, SecondUsed
<1>2. InputsInv => PlaceholderIsTrue
  BY <1>1, ScreenChecked, WholeView DEF Checked, Asks, PlaceholderIsTrue
<1> QED BY <1>2, InputsAreAccepted, PTL
=============================================================================
