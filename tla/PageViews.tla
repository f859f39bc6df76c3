------------------------------ MODULE PageViews -----------------------------
(***************************************************************************)
(* The parts of the page that draw, play back and compute from what the    *)
(* feed delivers. They share no variable, so each behaviour of this        *)
(* specification follows one part, chosen at the start, while the others   *)
(* stand still.                                                            *)
(***************************************************************************)
EXTENDS Integers, Sequences

CONSTANTS
  \* the main chart: symbols and the one selected at first, lines, bound of candles
  Symbols, First, Lines, Customs, MaxCandles,
  \* the charts of results: names of curves, times of points, bounds
  Curves, Times, MaxPoints, MaxEdits,
  \* the error boundaries: automatic retries, errors before a panel may be disabled, bounds
  MaxRetries, DisableAfter, MaxClicks, MaxChanges,
  \* the sidebar: panels, the advanced ones, and the category of each
  Panels, Advanced, Categories, Category,
  \* panels that can have a window, bounds
  WindowPanels, MaxData, MaxActs,
  \* the replay panels, see ReplayPlayers
  Cap, MinFrames, MaxEvents, FeedPeriod, Steps, ReplayClicks,
  \* the recorder: accounts and their equities, bounds
  NAccounts, Levels, MaxTrades, MaxSaved,
  \* snapshots and recordings, when the user edits the list and when he imports files
  LibrarySnaps, LibraryIds, ImportSnaps, ImportIds

ASSUME ChartAssumption == First \in Symbols /\ "rsi" \notin Lines /\ MaxCandles \in Nat
ASSUME ResultAssumption == Times \subseteq Nat /\ MaxPoints \in Nat /\ MaxEdits \in Nat
ASSUME BoundaryAssumption == MaxRetries \in Nat /\ MaxClicks \in Nat
ASSUME WindowAssumption == MaxData \in Nat /\ MaxActs \in Nat
ASSUME ReplayAssumption ==
  MaxEvents \in Nat /\ FeedPeriod \in Nat /\ Steps \subseteq Nat \ {0} /\ MinFrames \in Nat
ASSUME RecorderAssumption ==
  {NAccounts, MaxSaved, LibrarySnaps, LibraryIds, ImportSnaps, ImportIds} \subseteq Nat

VARIABLE part  \* the part that this behaviour follows

\* CandleChart
VARIABLES mounted, errorPage, symbol, candles, active, customs, markers, chart, rsiChart, linked,
          drawn
candleVars == <<mounted, errorPage, symbol, candles, active, customs, markers, chart, rsiChart,
                linked, drawn>>

\* the charts of results
VARIABLES open, data, resultChart, resultDrawn, edits, timer, asked, crashed
resultVars == <<open, data, resultChart, resultDrawn, edits, timer, asked, crashed>>

\* the error boundaries of a panel
VARIABLES net, faulty, lazy, chunk, timers, outer, boundaryAsked, autos, manuals, clicks,
          changes
boundaryVars == <<net, faulty, lazy, chunk, timers, outer, boundaryAsked, autos, manuals,
                  clicks, changes>>

\* the panels of the sidebar
VARIABLES flagStore, showAdvanced, flagState, visible, collapsed, stored, dirty, settings,
          last, sidebarClicks
sidebarVars == <<flagStore, showAdvanced, flagState, visible, collapsed, stored, dirty,
                 settings, last, sidebarClicks>>

\* panels in windows of their own
VARIABLES win, popups, orphans, built, content, windowData, windowDrawn, icon, flag, app,
          clicked, acts
windowVars == <<win, popups, orphans, built, content, windowData, windowDrawn, icon, flag,
                app, clicked, acts>>

\* the replay panels
VARIABLES feed, position, playing, interval, armed, quiet, replayClicks
replayVars == <<feed, position, playing, interval, armed, quiet, replayClicks>>

\* the session recorder
VARIABLES market, rec, saved, storage, picked, viewing, seekIdx, isPlaying, recMounted,
          started, apart, deleted
recorderVars == <<market, rec, saved, storage, picked, viewing, seekIdx, isPlaying,
                  recMounted, started, apart, deleted>>

\* the indicators
VARIABLES seriesCandles
seriesVars == <<seriesCandles>>

\* the backtest engine
VARIABLES lists, rules, btI, run, phase
engineVars == <<lists, rules, btI, run, phase>>

\* Two panels of one category, and an advanced one.
SomeCategory == {<<"p1", "c1">>, <<"p2", "c1">>, <<"adv", "c2">>}

\* Four candles: up, down, flat, and a wide one without volume.
Bar(o, h, l, c, v) == [open |-> o, high |-> h, low |-> l, close |-> c, volume |-> v]
SomeBars == {Bar(100, 130, 90, 120, 3), Bar(120, 125, 80, 85, 2), Bar(100, 100, 100, 100, 1),
             Bar(90, 150, 60, 110, 0)}

\* Cheap quiet and dear busy candles; strategies that open, close and reverse on
\* overlapping conditions.
Rule(c, v, a) == [condition |-> c, value |-> v, action |-> a]
SomeCandles == {[close |-> 100, volume |-> 1], [close |-> 200, volume |-> 9]}
SomeRules ==
  {<<Rule("price_above", 100, "buy"), Rule("price_below", 150, "close_all"), Rule("price_below", 150, "sell")>>,
   <<Rule("rsi_below", 50, "buy"), Rule("rsi_above", 50, "close_all"), Rule("price_above", 100, "sell")>>,
   <<Rule("ema_cross_up", 0, "buy"), Rule("ema_cross_down", 0, "close_all"), Rule("volume_spike", 1, "sell")>>,
   <<Rule("price_change_5", 10, "buy"), Rule("price_below", 150, "alert")>>}

\* The backtest before it is given candles.
NoBacktest == lists = {} /\ rules = <<>> /\ btI = 0 /\ run = {} /\ phase = "done"

Chart == INSTANCE CandleChart

Results == INSTANCE ResultChart WITH
  chart <- resultChart, drawn <- resultDrawn, Hosts <- {"comparison", "performance"}
Local == INSTANCE ResultChart WITH
  chart <- resultChart, drawn <- resultDrawn, Hosts <- {"strategy", "runner"}

Boundary == INSTANCE PanelBoundary WITH
  asked <- boundaryAsked

Sidebar == INSTANCE PanelContainer WITH
  clicks <- sidebarClicks

Windows == INSTANCE DetachedPanels WITH
  data <- windowData, drawn <- windowDrawn, Panels <- WindowPanels

Ticks == INSTANCE ReplayPlayers WITH
  clicks <- replayClicks, Player <- "tick", MaxClicks <- ReplayClicks
Trades == INSTANCE ReplayPlayers WITH
  clicks <- replayClicks, Player <- "trade", MaxClicks <- ReplayClicks
Depth == INSTANCE ReplayPlayers WITH
  clicks <- replayClicks, Player <- "depth", MaxClicks <- ReplayClicks

Library == INSTANCE SessionRecorder WITH
  mounted <- recMounted, MaxSnaps <- LibrarySnaps, MaxIds <- LibraryIds, Files <- {},
  Candles <- TRUE
Import == INSTANCE SessionRecorder WITH
  mounted <- recMounted, MaxSnaps <- ImportSnaps, MaxIds <- ImportIds, Files <- {"full"},
  Candles <- FALSE
Sums == INSTANCE SessionRecorder WITH
  mounted <- recMounted, NAccounts <- 1, Levels <- {2, 3, 4}, MaxTrades <- 2, MaxSnaps <- 3,
  MaxSaved <- 2, MaxIds <- 1, Files <- {}, Candles <- FALSE

Series == INSTANCE Indicators WITH
  candles <- seriesCandles, Bars <- SomeBars, Keep <- 5, Period <- 2, Fast <- 1, Slow <- 2

Engine == INSTANCE BacktestEngine WITH
  i <- btI, CandleKinds <- SomeCandles, Lengths <- {3, 7}, Common <- 3, MinCandles <- 4,
  RuleSets <- SomeRules, InitialBalance <- 10000, FeePct <- 1, SlippagePct <- 5,
  PositionSizePct <- 10, BorrowFee <- 1, SizeDivisor <- 100

vars == <<part, candleVars, resultVars, boundaryVars, sidebarVars, windowVars, replayVars,
          recorderVars, seriesVars, engineVars>>

Init ==
  /\ part \in {"candles", "results", "local", "boundary", "sidebar", "windows", "ticks",
              "trades", "depth", "library", "import", "summary", "indicators", "backtest"}
  /\ Chart!Init /\ (part # "candles" => symbol = First)
  /\ IF part = "local" THEN Local!Init ELSE Results!Init
  /\ Boundary!Init /\ (part # "boundary" => net = TRUE)
  /\ Sidebar!Init
  /\ Windows!Init
  /\ IF part = "depth" THEN Depth!Init ELSE Ticks!Init
  /\ (part \notin {"ticks", "trades", "depth"} => interval = CHOOSE s \in Steps : TRUE)
  /\ IF part = "summary" THEN Sums!Init ELSE Library!Init
  /\ Series!Init
  /\ IF part = "backtest" THEN Engine!Init ELSE NoBacktest

\* The parts that are not followed stand still.
Next ==
  \/ part = "candles" /\ Chart!Next
     /\ UNCHANGED <<part, resultVars, boundaryVars, sidebarVars, windowVars, replayVars,
                   recorderVars, seriesVars, engineVars>>
  \/ part = "results" /\ Results!Next
     /\ UNCHANGED <<part, candleVars, boundaryVars, sidebarVars, windowVars, replayVars,
                   recorderVars, seriesVars, engineVars>>
  \/ part = "local" /\ Local!Next
     /\ UNCHANGED <<part, candleVars, boundaryVars, sidebarVars, windowVars, replayVars,
                   recorderVars, seriesVars, engineVars>>
  \/ part = "boundary" /\ Boundary!Next
     /\ UNCHANGED <<part, candleVars, resultVars, sidebarVars, windowVars, replayVars,
                   recorderVars, seriesVars, engineVars>>
  \/ part = "sidebar" /\ Sidebar!Next
     /\ UNCHANGED <<part, candleVars, resultVars, boundaryVars, windowVars, replayVars,
                   recorderVars, seriesVars, engineVars>>
  \/ part = "windows" /\ Windows!Next
     /\ UNCHANGED <<part, candleVars, resultVars, boundaryVars, sidebarVars, replayVars,
                   recorderVars, seriesVars, engineVars>>
  \/ part = "ticks" /\ Ticks!Next
     /\ UNCHANGED <<part, candleVars, resultVars, boundaryVars, sidebarVars, windowVars,
                   recorderVars, seriesVars, engineVars>>
  \/ part = "trades" /\ Trades!Next
     /\ UNCHANGED <<part, candleVars, resultVars, boundaryVars, sidebarVars, windowVars,
                   recorderVars, seriesVars, engineVars>>
  \/ part = "depth" /\ Depth!Next
     /\ UNCHANGED <<part, candleVars, resultVars, boundaryVars, sidebarVars, windowVars,
                   recorderVars, seriesVars, engineVars>>
  \/ part = "library" /\ Library!Next
     /\ UNCHANGED <<part, candleVars, resultVars, boundaryVars, sidebarVars, windowVars,
                   replayVars, seriesVars, engineVars>>
  \/ part = "import" /\ Import!Next
     /\ UNCHANGED <<part, candleVars, resultVars, boundaryVars, sidebarVars, windowVars,
                   replayVars, seriesVars, engineVars>>
  \/ part = "summary" /\ Sums!Next
     /\ UNCHANGED <<part, candleVars, resultVars, boundaryVars, sidebarVars, windowVars,
                   replayVars, seriesVars, engineVars>>
  \/ part = "indicators" /\ Series!Next
     /\ UNCHANGED <<part, candleVars, resultVars, boundaryVars, sidebarVars, windowVars,
                   replayVars, recorderVars, engineVars>>
  \/ part = "backtest" /\ Engine!Next
     /\ UNCHANGED <<part, candleVars, resultVars, boundaryVars, sidebarVars, windowVars,
                   replayVars, recorderVars, seriesVars>>

\* Each part has the fairness of its own specification.
Fairness ==
  /\ WF_resultVars(part = "local" /\ Local!LocalDone)
  /\ WF_boundaryVars(part = "boundary" /\ Boundary!StartImport)
  /\ WF_boundaryVars(part = "boundary" /\ Boundary!ImportEnds)
  /\ WF_boundaryVars(part = "boundary" /\ Boundary!ChunkThrows)
  /\ WF_boundaryVars(part = "boundary" /\ Boundary!RetryTimer)
  /\ WF_boundaryVars(part = "boundary" /\ Boundary!PanelThrows)
  /\ WF_replayVars(part = "ticks" /\ Ticks!Clock)
  /\ WF_replayVars(part = "ticks" /\ Ticks!Broadcast)
  /\ WF_replayVars(part = "ticks" /\ Ticks!Fire)
  /\ WF_replayVars(part = "trades" /\ Trades!Clock)
  /\ WF_replayVars(part = "trades" /\ Trades!Broadcast)
  /\ WF_replayVars(part = "trades" /\ Trades!Fire)
  /\ WF_recorderVars(part = "import" /\ Import!captureSnapshot)

Spec == Init /\ [][Next]_vars /\ Fairness

-----------------------------------------------------------------------------
(***************************************************************************)
(* What is on the screen is current.  The chart shows the candles, lines   *)
(* and markers that are wanted and no chart outlives its page; a result    *)
(* chart shows the last result, with nothing left over and nothing that    *)
(* the library throws on, and it is the result of the click.  A panel that *)
(* fails is retried as often as promised; windows show the page's data and *)
(* close with it.  A replay's interval runs exactly while it plays, and    *)
(* its position exists; the recorder's list is the stored one.             *)
(***************************************************************************)
DrawnIsCurrent ==
  /\ part = "candles" => Chart!TypeOK /\ Chart!DrawnIsWanted /\ Chart!NoChartLeaks
  /\ part = "results" => Results!ResultDrawn /\ Results!NeverThrows
  /\ part = "local" => Local!ResultIsOfClick
  /\ part = "boundary" => Boundary!TypeOK /\ Boundary!RetriesBounded /\ Boundary!OuterReplacesInner
  /\ part = "sidebar" => Sidebar!TypeOK
  /\ part = "windows" => Windows!TypeOK /\ Windows!FedWhenRendered /\ Windows!ClosedWithPage
  /\ part = "ticks" => Ticks!TypeOK /\ Ticks!IntervalIffPlaying /\ Ticks!ShownExists
  /\ part = "trades" => Trades!TypeOK /\ Trades!IntervalIffPlaying
  /\ part = "depth" => Depth!TypeOK /\ Depth!IntervalIffPlaying
  /\ part = "library" =>
       Library!TypeOK /\ Library!ListIsStored /\ Library!DeletedIsGone /\ Library!SeekInRange
  /\ part = "import" => Import!TypeOK /\ Import!ListIsStored /\ Import!DrawnHasSummary

(***************************************************************************)
(* Computed series and sums are what their names say: indicators start     *)
(* where documented, the running sum is the window's and oscillators stay  *)
(* in range; a backtest accounts for its balance, decides without looking  *)
(* ahead and reports its largest fall; a recording counts a trade once.    *)
(***************************************************************************)
SeriesSound ==
  /\ part = "indicators" =>
       Series!WarmUpAsDocumented /\ Series!RunningSumIsWindow /\ Series!OscillatorsInRange
  /\ part = "backtest" =>
       Engine!BalanceAccounted /\ Engine!NoLookahead /\ Engine!DrawdownIsLargestFall
  /\ part = "summary" => Sums!TradesCountedOnce /\ Sums!MaxDrawdownIsLargestFall

(***************************************************************************)
(* The past stands: a new candle changes no value an indicator had, nor    *)
(* does dropping the oldest one change a windowed value; closing a         *)
(* position never pays; a saved recording stays until it is deleted or     *)
(* pushed out; a reload shows the sidebar as it was.                       *)
(***************************************************************************)
PastStands ==
  /\ [][part = "indicators" => Series!OldValuesStand /\ Series!WindowsStand]_vars
  /\ [][part = "backtest" => Engine!ClosingCosts]_vars
  /\ [][part = "library" => Library!RecordingsStay]_vars
  /\ [][part = "sidebar" => Sidebar!ReloadShowsSame]_vars

(***************************************************************************)
(* What the user waits for ends: the skeleton of a loading panel goes, a   *)
(* replay that is left alone comes to its end although the feed goes on, a *)
(* local backtest gives its button back, and a recording of a feed without *)
(* candles takes a snapshot.                                               *)
(***************************************************************************)
Waiting ==
  \/ part = "boundary" /\ Boundary!Loading
  \/ part \in {"ticks", "trades"} /\ playing
  \/ part = "local" /\ timer # 0
  \/ part = "import" /\ Import!NothingYet
WaitsEnd == Waiting ~> ~Waiting
=============================================================================
