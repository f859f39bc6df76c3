--------------------------- MODULE AnalysisPanels ---------------------------
(***************************************************************************)
(* An analysis panel on the screen.  Candles of the selected symbol arrive *)
(* one at a time, the user selects another exchange or symbol (with fewer  *)
(* or more candles) and types into the panel's number inputs; every such   *)
(* change computes and draws the panel again, synchronously, from what is  *)
(* there at that moment.  The handlers store a decimal as it is typed: a   *)
(* number is kept here as its whole part, and whether something comes      *)
(* after the point.                                                        *)
(***************************************************************************)
EXTENDS PanelsOfSignals, PanelsOfModels

CONSTANTS MaxCandles,  \* bound: candles of one symbol
          Typed        \* whole parts of the numbers the user types (an empty input is 0)

\* The feed keeps at most MAX_CANDLES = 500 candles of a symbol; the powers of
\* two the transforms work with are modelled up to 2048.
ASSUME PanelsAssumption == MaxCandles \in Nat /\ MaxCandles <= 2048 /\ Typed \subseteq Nat

VARIABLES panel,       \* the panel on the screen
          candles,     \* candles of the selected exchange and symbol
          first,       \* whole parts of the panel's two inputs that decide what
          second,      \* is read
          fractions    \* those of the two, 1 or 2, that hold a decimal fraction too

vars == <<panel, candles, first, second, fractions>>

Panels == LearningPanels \cup SpectralPanels \cup StochasticPanels \cup GeometryPanels \cup ControlPanels

PanelOf(p, n, x, y) ==
  CASE p \in LearningPanels -> LearningPanel(p, n, x, y)
    [] p \in SpectralPanels -> SpectralPanel(p, n, x, y)
    [] p \in StochasticPanels -> StochasticPanel(p, n, x, y)
    [] p \in GeometryPanels -> GeometryPanel(p, n, x, y)
    [] p \in ControlPanels -> ControlPanel(p, n, x, y)
Default(p) ==
  CASE p \in LearningPanels -> LearningDefault(p)
    [] p \in SpectralPanels -> SpectralDefault(p)
    [] p \in StochasticPanels -> StochasticDefault(p)
    [] p \in GeometryPanels -> GeometryDefault(p)
    [] p \in ControlPanels -> ControlDefault(p)
Accept(p, x, y) ==
  CASE p \in LearningPanels -> LearningAccept(p, x, y)
    [] p \in SpectralPanels -> SpectralAccept(p, x, y)
    [] p \in StochasticPanels -> StochasticAccept(p, x, y)
    [] p \in GeometryPanels -> GeometryAccept(p, x, y)
    [] p \in ControlPanels -> ControlAccept(p, x, y)

\* Panels whose second input is not a number field: a select, the number of
\* symbols or of events, or what the candles are like.
CountPanels == {"Svm", "Pca", "Cvar", "Hawkes", "Kelly", "Rmt", "Ks", "BlackLitterman", "Tensor", "Graph"}

Init == /\ panel \in Panels /\ candles = 0
        /\ first = Default(panel)[1] /\ second = Default(panel)[2] /\ fractions = {}

\* A new candle of the selected symbol.
Candle == candles < MaxCandles /\ candles' = candles + 1 /\ UNCHANGED <<panel, first, second, fractions>>

\* Another exchange or symbol; the inputs keep their values.
SelectSymbol ==
  candles' \in {0, candles \div 2, MaxCandles} /\ UNCHANGED <<panel, first, second, fractions>>

\* The user types x, or x and a fraction, into input i.  The stored number
\* has the fraction unless a range check replaced it, which is when x or the
\* next whole number is not stored as it is: low for x, high for x + 1.
Stored(i, x, low, high, decimal) ==
  IF decimal /\ low = x /\ high = x + 1 THEN fractions \cup {i} ELSE fractions \ {i}

\* The user types into the first or the second input.
TypeFirst ==
  \E x \in Typed, decimal \in BOOLEAN :
    /\ first' = Accept(panel, x, second)[1]
    /\ fractions' = Stored(1, x, Accept(panel, x, second)[1], Accept(panel, x + 1, second)[1], decimal)
    /\ UNCHANGED <<panel, candles, second>>
TypeSecond ==
  \E y \in Typed, decimal \in BOOLEAN :
    /\ decimal => panel \notin CountPanels
    /\ second' = Accept(panel, first, y)[2]
    /\ fractions' = Stored(2, y, Accept(panel, first, y)[2], Accept(panel, first, y + 1)[2], decimal)
    /\ UNCHANGED <<panel, candles, first>>

Next == Candle \/ SelectSymbol \/ TypeFirst \/ TypeSecond
Spec == Init /\ [][Next]_vars

(***************************************************************************)
(* What a fraction does.  As the bound of a loop (i < 2.5) or the length   *)
(* of a window that has to end within the list it acts as the next whole   *)
(* number.  As a length or an end of slice, or in i <= 2.5, it acts as its *)
(* whole part; so does a number that is only computed with.  A guard that  *)
(* compares it with the candles may ask for one candle more, and so may    *)
(* shorten a list of windows by one: both leave fewer elements to read,    *)
(* and are left out.                                                       *)
(***************************************************************************)
FirstUpPanels == {"Forest", "KMeans", "Emd", "Wavelet", "Sde", "Rough", "Hmc", "Malliavin", "Greeks"}
SecondUpPanels == {"WaveletPacket", "NonStationary", "Compressed", "Renyi", "Bridge", "Landscape", "Lie", "Bary"}

FirstUsed == IF 1 \in fractions /\ panel \in FirstUpPanels THEN first + 1 ELSE first
SecondUsed == IF 2 \in fractions /\ panel \in SecondUpPanels THEN second + 1 ELSE second

\* new Array(2.5) throws, and an element with a fraction for its index is
\* not there.  The lookback of the price predictor is such an index once
\* there is a row for it, the band of DTW wherever it is at least the
\* difference of the two lengths.
FirstBreaks == {"Rnn", "Svm", "Autoencoder", "Gp", "Vmd", "Stopping"}
SecondBreaks == {"Rnn", "Vae", "KMeans", "Gp", "Te", "MsGarch", "Stopping", "Bsts", "Malliavin", "Hjb", "Tda", "Transport"}
FractionBreaks ==
  \/ 1 \in fractions /\ panel \in FirstBreaks
  \/ 2 \in fractions /\ panel \in SecondBreaks
  \/ 1 \in fractions /\ panel = "Bayes" /\ BayesRows(candles - 1, first) > 0
  \/ 2 \in fractions /\ panel = "Dtw" /\ \E y \in Templates : DtwBand(Least(first, candles), y, second) = second

\* An element that no list has.
Absent == Span(0, 0, 0)

View ==
  LET drawn == PanelOf(panel, candles, FirstUsed, SecondUsed)
  IN IF drawn.shown /\ FractionBreaks THEN Drawn(drawn.need, drawn.reads \cup {Absent}, drawn.divs) ELSE drawn

-----------------------------------------------------------------------------
(***************************************************************************)
(* The accepted inputs with which a drawn panel is known to use what is    *)
(* not there (see the README).  Of the whole numbers the first four throw: *)
(* a symmetry window as long as the lookback, a market without any         *)
(* divergence, more regimes than the estimator's candidates have, a        *)
(* burn-in of all samples; a mixture of more than five components runs out *)
(* of colours.  A decimal fraction breaks the inputs above.  A mixture of  *)
(* a single component has no K axis, 1.5 components included, and a        *)
(* landscape window as long as the lookback has no norm to average.  With  *)
(* any other values of the two inputs the two invariants below have to     *)
(* hold.                                                                   *)
(***************************************************************************)
EmptyInputs ==
  \/ panel = "Lie" /\ SecondUsed >= first
  \/ panel = "Ks" /\ second = 0
  \/ panel = "MsGarch" /\ second > 2
  \/ panel = "Hmc" /\ second >= first
  \/ panel = "Gmm" /\ first > 5
LeftEmpty == EmptyInputs \/ FractionBreaks
LeftZero ==
  \/ LeftEmpty
  \/ panel = "Lie" /\ SecondUsed = first - 1
  \/ panel = "Landscape" /\ SecondUsed >= first
  \/ panel = "Gmm" /\ first = 1

(***************************************************************************)
(* No panel uses an element that is not there, whatever the candles and    *)
(* whatever is typed into the two inputs, whole or decimal, with the       *)
(* exceptions of LeftEmpty: the guards before the computation (cds.length  *)
(* < ..., sequences.length < 10, features.length < k + 1, ...) cover every *)
(* index the feature windows, the trainers and the charts use.             *)
(***************************************************************************)
NoMissingElement == ~LeftEmpty => ReadsOK(View)

(***************************************************************************)
(* The same without the exception for fractions: a number field whose      *)
(* handler stores what is typed is no length and no index of the panel.    *)
(***************************************************************************)
FractionsAreHarmless == ~EmptyInputs => ReadsOK(View)

(***************************************************************************)
(* No length, count or axis the panel divides by is zero, with the         *)
(* exceptions of LeftZero, so no chart coordinate is NaN for that reason.  *)
(***************************************************************************)
NoZeroDivisor == ~LeftZero => DivsOK(View)

(***************************************************************************)
(* With the inputs it starts with, a panel that shows "Need at least N     *)
(* candles" has fewer than N.                                              *)
(***************************************************************************)
PlaceholderIsTrue ==
  <<first, second>> = Default(panel) /\ fractions = {} /\ ~View.shown => candles < View.need

(***************************************************************************)
(* The same for every value of the inputs: "Need at least N candles" is    *)
(* never shown to a user who has N candles.                                *)
(***************************************************************************)
PlaceholderAlwaysTrue == ~View.shown => candles < View.need

(***************************************************************************)
(* The candle a forecast is for comes after the newest one: sequences end  *)
(* L returns after their start (RNN), labels are return i + 1 (SVM), the   *)
(* "future" points of the GP follow its training points.                   *)
(***************************************************************************)
ForecastCandle ==
  CASE panel = "Rnn" -> RnnSequences(candles - 1, second) - 1 + second + 1
    [] panel = "Svm" -> first + SvmFeatures(candles - 1, first) + 1
    [] panel = "Gp" -> candles - (first + second) + first
    [] OTHER -> candles
ForecastIsAhead == View.shown => ForecastCandle >= candles

(***************************************************************************)
(* The period reported for a spectral peak is a number of samples: the     *)
(* period of bin 1 is the length of the transformed segment.               *)
(***************************************************************************)
PeriodInSamples ==
  panel = "Spectral" /\ View.shown =>
    LET seg == SpectralSegment(Least(128, candles) - 1) IN SpectralPeriodOfBinOne(seg \div 2) = seg

(***************************************************************************)
(* The mode updates of VMD work on the spectrum of the signal: one value   *)
(* per frequency of its frequency axis.                                    *)
(***************************************************************************)
SpectrumMatchesAxis ==
  panel = "Vmd" /\ View.shown => LET ext == 3 * Least(128, candles) IN Pow2Ceil(ext) = ext

(***************************************************************************)
(* The density shown as the Fokker-Planck forecast is the one at the       *)
(* horizon: at most one snapshot away from `horizon` steps.                *)
(***************************************************************************)
ForecastAtHorizon ==
  panel = "Fokker" /\ View.shown =>
    LET shown == FokkerStepsOf(200, FokkerForecast(200, second))
    IN shown - Least(second, 200) <= FokkerEvery(200)
=============================================================================
