----------------------------- MODULE CandleChart -----------------------------
(***************************************************************************)
(* CandleChart.jsx: the main chart, created once when the page appears;    *)
(* the RSI chart below it, created and removed by a button; the line       *)
(* series of the indicators, the custom indicators and the trade markers,  *)
(* brought up to date by one effect.  An action is one change of props or  *)
(* state with the render and the effects it causes: first the clean-ups of *)
(* the effects whose inputs changed, then those effects, in the order they *)
(* are written.  The chart library is external; what its subscribe calls   *)
(* return is undefined, so the clean-up that calls it throws.  An error in *)
(* a clean-up does not stop the others; no panel boundary is around the    *)
(* chart, so TopErrorBoundary.jsx then shows its page in place of all.     *)
(***************************************************************************)
EXTENDS Integers, FiniteSets

CONSTANTS Symbols,      \* symbols the user can select
          Lines,        \* built-in lines: averages, bands, VWAP
          Customs,      \* lines of custom indicators
          MaxCandles    \* bound: candles of one symbol

VARIABLES mounted,      \* the page is on the screen, and the chart with it
          errorPage,    \* TopErrorBoundary: its page is there instead
          symbol,       \* the symbol in the header
          candles,      \* candles the feed has, per symbol
          active,       \* activeIndicators: lines, and "rsi"
          customs,      \* customIndicators
          markers,      \* showMarkers
          chart,        \* chartRef: the main chart exists
          rsiChart,     \* rsiChartRef: the RSI chart exists
          linked,       \* the time scales are subscribed to each other
          drawn         \* what the series hold, see Nothing

vars == <<mounted, errorPage, symbol, candles, active, customs, markers, chart, rsiChart,
          linked, drawn>>

NoSymbol == "none"

\* The lines that are on when the chart appears.
DefaultLines == Lines \cap {"ema9", "ema21"}

\* Symbol and number of the candles drawn, lines with data, custom series on the
\* chart, whether the RSI line and the markers have data.
Nothing == [of |-> NoSymbol, n |-> 0, lines |-> {}, customs |-> {}, rsi |-> FALSE, marked |-> FALSE]

TypeOK ==
  /\ {mounted, errorPage, markers, chart, rsiChart, linked} \subseteq BOOLEAN
  /\ symbol \in Symbols /\ candles \in [Symbols -> 0 .. MaxCandles]
  /\ active \subseteq Lines \cup {"rsi"} /\ customs \subseteq Customs
  /\ drawn.lines \subseteq Lines /\ drawn.customs \subseteq Customs

Init ==
  /\ mounted = FALSE /\ errorPage = FALSE /\ chart = FALSE /\ rsiChart = FALSE /\ linked = FALSE
  /\ symbol \in Symbols /\ candles = [s \in Symbols |-> 0]
  /\ active = DefaultLines /\ customs = {} /\ markers = TRUE
  /\ drawn = Nothing

\* Mutant: unticked custom indicators stay on the chart.
UpdateKeepsCustoms(s, n, on, wanted, mark, rsiThere) ==
  IF n = 0 THEN [drawn EXCEPT !.rsi = @ /\ rsiThere]
  ELSE [of |-> s, n |-> n, lines |-> on \ {"rsi"}, customs |-> drawn.customs \cup wanted,
        rsi |-> IF "rsi" \in on /\ rsiThere THEN TRUE ELSE drawn.rsi /\ rsiThere, marked |-> mark]

\* "Update data": nothing at all without candles; otherwise every series is set
\* or emptied, and custom series that are not wanted are removed.
Update(s, n, on, wanted, mark, rsiThere) ==
  IF n = 0 THEN [drawn EXCEPT !.rsi = @ /\ rsiThere]
  ELSE [of |-> s, n |-> n, lines |-> on \ {"rsi"}, customs |-> wanted,
        rsi |-> IF "rsi" \in on /\ rsiThere THEN TRUE ELSE drawn.rsi /\ rsiThere, marked |-> mark]

-----------------------------------------------------------------------------
(* The page appears and goes. *)

\* The page is loaded, for the first time or from the button of the error page:
\* there is no candle yet, so the update effect returns at once.
Mount ==
  /\ ~mounted /\ mounted' = TRUE /\ errorPage' = FALSE
  /\ symbol' \in Symbols /\ candles' = [s \in Symbols |-> 0] /\ customs' = {}
  /\ active' = DefaultLines /\ markers' = TRUE
  /\ chart' = TRUE /\ rsiChart' = FALSE /\ linked' = FALSE /\ drawn' = Nothing

\* An error replaces the page.  The clean-ups run: the first removes both charts,
\* that of the link throws if there is one, to the same boundary.
ReplacePage ==
  /\ mounted' = FALSE /\ errorPage' = TRUE
  /\ chart' = FALSE /\ rsiChart' = FALSE /\ linked' = FALSE /\ drawn' = Nothing

\* Another part of the page throws.
Unmount ==
  /\ mounted /\ ReplacePage
  /\ UNCHANGED <<symbol, candles, active, customs, markers>>

-----------------------------------------------------------------------------
(* Buttons. *)

\* The RSI chart is made, and the link effect, which runs after it, finds it.
RsiOn ==
  /\ mounted /\ "rsi" \notin active
  /\ active' = active \cup {"rsi"} /\ rsiChart' = TRUE /\ linked' = chart
  /\ drawn' = Update(symbol, candles[symbol], active', customs, markers, TRUE)
  /\ UNCHANGED <<mounted, errorPage, symbol, candles, customs, markers, chart>>

\* The clean-up of the link comes first and throws.  The RSI chart is removed and
\* the other series are drawn, but the error page comes before anyone sees it.
RsiOff ==
  /\ mounted /\ "rsi" \in active
  /\ active' = active \ {"rsi"} /\ ReplacePage
  /\ UNCHANGED <<symbol, candles, customs, markers>>

ToggleRsi == RsiOn \/ RsiOff

ToggleLine(l) ==
  /\ mounted
  /\ active' = IF l \in active THEN active \ {l} ELSE active \cup {l}
  /\ drawn' = Update(symbol, candles[symbol], active', customs, markers, rsiChart)
  /\ UNCHANGED <<mounted, errorPage, symbol, candles, customs, markers, chart, rsiChart, linked>>

ToggleMarkers ==
  /\ mounted /\ markers' = ~markers
  /\ drawn' = Update(symbol, candles[symbol], active, customs, markers', rsiChart)
  /\ UNCHANGED <<mounted, errorPage, symbol, candles, active, customs, chart, rsiChart, linked>>

-----------------------------------------------------------------------------
(* Props. *)

SelectSymbol(s) ==
  /\ mounted /\ s # symbol /\ symbol' = s
  /\ drawn' = Update(s, candles[s], active, customs, markers, rsiChart)
  /\ UNCHANGED <<mounted, errorPage, candles, active, customs, markers, chart, rsiChart, linked>>

NewCandle(s) ==
  /\ mounted /\ candles[s] < MaxCandles
  /\ candles' = [candles EXCEPT ![s] = @ + 1]
  /\ drawn' = Update(symbol, candles'[symbol], active, customs, markers, rsiChart)
  /\ UNCHANGED <<mounted, errorPage, symbol, active, customs, markers, chart, rsiChart, linked>>

\* The indicator builder shows or hides a line.
SetCustom(c) ==
  /\ mounted
  /\ customs' = IF c \in customs THEN customs \ {c} ELSE customs \cup {c}
  /\ drawn' = Update(symbol, candles[symbol], active, customs', markers, rsiChart)
  /\ UNCHANGED <<mounted, errorPage, symbol, candles, active, markers, chart, rsiChart, linked>>

Next ==
  \/ Mount \/ Unmount \/ ToggleRsi \/ ToggleMarkers
  \/ \E l \in Lines : ToggleLine(l)
  \/ \E s \in Symbols : SelectSymbol(s) \/ NewCandle(s)
  \/ \E c \in Customs : SetCustom(c)

Spec == Init /\ [][Next]_vars

-----------------------------------------------------------------------------
(***************************************************************************)
(* With candles to draw, what is on the chart is what the buttons and the  *)
(* indicator builder say, in whatever order panel, indicators, candles and *)
(* symbol came: no line is left over from before, none is missing.         *)
(***************************************************************************)
DrawnIsWanted ==
  mounted /\ candles[symbol] > 0 =>
    /\ drawn.of = symbol /\ drawn.n = candles[symbol]
    /\ drawn.lines = active \ {"rsi"} /\ drawn.customs = customs
    /\ drawn.rsi = ("rsi" \in active) /\ drawn.marked = markers

(***************************************************************************)
(* No chart outlives its container, however the page goes, also when the   *)
(* clean-up of the link throws: without the page there is no chart, the    *)
(* RSI chart is there exactly while its button is on, and the two time     *)
(* scales are tied together exactly while both are there.                  *)
(***************************************************************************)
NoChartLeaks ==
  /\ chart = mounted
  /\ rsiChart = (mounted /\ "rsi" \in active)
  /\ linked = (chart /\ rsiChart)
  /\ ~(mounted /\ errorPage)

(***************************************************************************)
(* A button of the chart changes the chart: the page does not go with it.  *)
(***************************************************************************)
RsiKeepsThePage == [][ToggleRsi => mounted']_vars

(***************************************************************************)
(* The candles on the chart are those of the header, "{symbol} ·           *)
(* {candles.length} candles".                                              *)
(***************************************************************************)
ChartShowsHeader == mounted => drawn.n = candles[symbol] /\ (drawn.n > 0 => drawn.of = symbol)
=============================================================================
