# HFT trading simulator: verification project

TLA+ models of the parts of the trading simulator whose correctness depends on the order
of events, on long sequences of calls or on boundaries: the shared memory between the two
bots, the simulated exchange, the signal bot, the C++ bot, and the web page with its
feeds, orders, records, charts, computations and analysis panels. The models are checked
with TLC on small instances, and nearly all of their safety properties are proved with
TLAPS for every value of the constants.

`PROJECT.json` holds the details behind this text: the map from definitions to source
lines, the runs and their mutants, the findings, the hazards and the theorems. Paths in
sections 1 and 2 are relative to `src/`.

## 1. The system

| Part | State | Operations | Talks to |
|---|---|---|---|
| Exchange simulator (`exchange_simulator/`, Python, one asyncio thread) | orders, four books of pending orders, OCO groups, account with positions, order-history counters, insurance fund | submit, cancel, cancel all, close position; per tick: SL/TP and liquidation, sweep of the books, funding | clients over WebSocket |
| WebSocket gateway (`ws_*.py`, `websocket_server.py`) | clients, rate-limit windows, client-order-id table, sequence numbers, pause, speed | authenticate, dispatch, dedup, broadcast loop | exchange, bots, web page |
| AI signal bot (`ai-signal-bot/`, Python, asyncio) | circuit breaker, kill-switch latch, trading and connection flags, live adapter | a wave of signals per interval: one task per symbol; computations asked by the page | exchange (orders), C++ bot (ring, snapshots), web page |
| Shared-memory channel (`hft-trade-bot/src/ipc/` and its Python mirror) | ring of signals, fills and kill-switch messages; snapshot slots; heartbeat | try_push, try_pop, bulk_push, bulk_pop, size; seqlock read and write | both bots |
| C++ bot (`hft-trade-bot/`, several threads) | positions, pending orders, active symbols, kill switch, connection, reconnect thread | process signals, apply fills, reconcile, activate the kill switch, reconnect, shut down | exchange, signal bot |
| Web page: feeds (`web-ui/src/hooks/`) | socket, queue of unsent messages, retry timers; book, orders, candles, fills; requests under way | connect, retry, send; snapshots, deltas, resync; ask, answer, time out | gateway, signal bot |
| Web page: actions | order form, slicing run, alerts, webhooks, journal, saved backtests | submit, slice, notify, save, reload | feeds, localStorage, other tabs |
| Web page: views | charts and their series, lazy panels, windows, replays, recordings, indicators, backtests | draw, load, retry, detach, play, record, compute | feeds, localStorage |
| Web page: analysis panels (`web-ui/src/components/`) | two or more inputs each; everything else is computed from the candles | recompute on every candle and every input | feeds |
| Strategies, pricing, LLM engine, persistence, deployment | numerics, infrastructure | | |

What is hard in it:

- **Interleaving.** Producer and consumer of the ring share memory without locks, as do
  the writer and the reader of a snapshot slot. The tasks of a signal wave interleave at
  every await. The C++ bot has socket, reconnect, watchdog, monitor and main threads. In
  the page, timers, socket events, renders and effects interleave.
- **Stale state.** The sweep of the exchange iterates over copies of the books while fills
  cancel siblings. A task of the signal bot uses flags read before an await; the C++ bot
  uses a permission to trade read at the top of the tick; callbacks of the page use the
  closure of the render that made them.
- **Long sequences.** Margin is locked, shared and given back over fills, partial closes,
  flips and liquidations; icebergs execute over many ticks; charts live through many
  changes of symbol, lines and data.
- **Failure.** A send that fails, is lost, or raises what nobody catches; a bot that
  restarts while the other uses the segment; a reconnect during a reconnect; broadcasts
  that are dropped; storage that is full; a chunk of the page that does not load.
- **Boundaries.** Wrapping counters, a full ring, an order that expires on the tick that
  would fill it, probes and thresholds of the breaker, histories shorter than a window,
  inputs that are empty, zero or too large.

Properties that make each part correct:

- ring and snapshots: no torn read, FIFO order without loss or duplication, elements
  leave, the latest snapshot is read;
- exchange, orders: an order is in a book exactly while pending; decided orders never
  change; one fill per OCO group; expiry beats fill; trailing stops only ratchet;
- exchange, money: conserved; margin follows the position; the position is the sum of
  the executions;
- signal bot: the breaker counts the streaks it claims to count, closes only when earned,
  and does not stay open; after the kill switch nothing is sent;
- C++ bot: the book follows the exchange, no symbol is blocked or doubled, a killed tick
  sends nothing, a lost connection comes back, shutdown is final;
- page: what is shown is what the server has once nothing is under way; an answer, a
  timer, a notice belongs to the request it is shown for; what was saved is there; what the
  user waits for ends; no computation reads what is not there.

## 2. Modules

| Module | Content |
|---|---|
| `ShmQueue`, `ShmRing`, `ShmRingProofs` | the ring: its promise (a bounded FIFO queue), its algorithm, the proof |
| `MarketSlot` | one snapshot slot: seqlock writer and reader |
| `Account`, `Exchange`, `MCExchange`, `ExchangeProofs` | the exchange: operators on an account, the state machine, the requests of the runs, the proofs |
| `SignalBot`, `MCSignalBot`, `SignalBotProofs` | waves of tasks, circuit breaker, kill switch; both configurations; the proofs |
| `HftBot` | trading loop, fill callback, reconciliation and kill switch of the C++ bot |
| `OrderExecutor` | its connection: client thread, sleeper, watchdog, main thread |
| `NativeBot`, `NativeBotProofs` | composite: `HftBot`, `OrderExecutor`, `MarketSlot`; the proofs |
| `WebSocketClient`, `ExchangeFeed`, `ServerCompute`, `Tournament`, `SimulationClock` | the page against the servers |
| `PageFeeds`, `PageFeedsProofs` | composite of these; the proofs |
| `OrderForm`, `ExecutionBot`, `PriceAlerts`, `FillNotices`, `TradeJournal`, `SavedBacktests` | what the user does and is told |
| `PageActions`, `PageActionsProofs` | composite of these; the proofs |
| `CandleChart`, `ResultChart`, `PanelBoundary`, `PanelContainer`, `DetachedPanels`, `ReplayPlayers`, `SessionRecorder`, `Indicators`, `BacktestEngine` | what the page draws, plays and computes |
| `PageViews`, `PageViewsProofs` | composite of these; the proofs |
| `PanelReads`, `PanelsOfSignals`, `PanelsOfModels`, `AnalysisPanels`, `PanelsProofs` | 53 analysis panels: what is read and divided by; the proofs |

### The composites

`NativeBot`, `PageFeeds`, `PageActions` and `PageViews` put components side by side that
share no variable and, in the code, no mutable state: their product would only multiply
the states. A behaviour of a composite follows one part, chosen in `Init` and kept in the
variable `part`; the variables of the others keep their initial values. So the behaviours
of the composite are the sum of the behaviours of the components, and a property of the
form `part = "x" => X!P` is checked of every behaviour of component `x` alone. A component
may appear as several parts with different constants, each a fault model or a bound of its
own; the constants of the composites are given in their configurations. `Next` and the fairness of a part are those of its module. The type invariants of the
components are conjuncts of the composite's invariants. Parts that do interact are
composed inside their module: `HftBot` with the exchange, `ExchangeFeed` with the gateway
and the connection, `SimulationClock` with the broadcast loop, `SavedBacktests` with other
tabs.

`MCSignalBot` does the same for the two values of `config.paper_trading`.

### ShmRing

`head`, `tail` and `data` are the segment; `prod` and `cons` are the local variables of
the thread inside a call (its program counter, the counter it loaded, what it copies),
`mon` those of the status thread inside `size()`. A call is four kinds of step: load the
own counter, load the other counter and decide how much fits, copy one element, publish.
`try_push`/`try_pop` and `bulk_push`/`bulk_pop` share these steps and differ in `Room`,
`Take` and the test for full and empty. Copying is by element, so a batch that wraps is
copied in two chunks (`ChunkSlot`). The counters wrap at `CounterMod`, standing for 2^64.
The release stores and acquire loads of the code order the copies against the counters,
so steps are interleaved as in sequential consistency; elements are copied atomically
because the property shown is that the two copy windows never meet.

### MarketSlot

The writer raises the sequence number, stores the data words and raises it again; the
reader loads the number, copies the words, loads it again and accepts if both loads agree
and are even. The data are two words, stored and copied in any order, each with the number
of the write it comes from, which is how a torn copy is told from a whole one. The file
and the mapping are distinct: `close()` removes the file and a new `init()` makes another,
while a reader keeps what it mapped. `Crashes` lets the writer stop anywhere and start
again on the file it left; `Sinks` lets the copy be done after the second load, which an
acquire load does not forbid. There is one slot, and `init()` clears the segment in one
step.

### Account and Exchange

All handlers of the simulator run to completion on one asyncio thread, so a client
request is one action: `SubmitRejected`, `SubmitCancelled`, `SubmitRests`,
`SubmitRaises` and `SubmitFills` are the five ends of `submit_order` (`Fate` is its
sequence of checks), then `CancelOrder`, `CancelAllOrders` and `HandleClosePosition`.
A tick moves all prices (`MarketMoves`) and then takes one exchange after the other; the
broadcast of the fills of one (ws_exchange_events.py:65) lets clients in before the turn of
the next, so `due` says that the turn of this exchange is still to come. The turn has no
await until its end; it is cut into `StartSweep` (triggered positions close), one action per
resting order examined in the order of the sweep (limits, stop-limits, trailing stops,
icebergs, each in submission order) and `EndTick` (funding). No client action is enabled
inside the turn. When the tick of another exchange raises, the turn is skipped, and the market
may move again first. `UpdateConfig` changes leverage, fee and slippage at any time
between turns; an open position keeps the margin it has locked, while liquidation prices
follow the new leverage. `ResolveOco` is the whole of
`_resolve_oco`, inside the action that fills.

The record of an order carries what the code keeps (status, filled quantity, hidden
quantity, trigger and trailing state), the flag `heard` (the history has registered its
listener) and the history variable `done`, the quantity that executions really moved.
The account record carries balance, realised profit, fees, the insurance fund and one
position, and the terms that `update_config` changes. Of the position, the history field
`fills` counts the executions it was made of, each of which rounds its margin down once, and
`lo` and `hi` are the lowest and the highest leverage these locked margin at; `funding` sums the funding payments, which the code only adds to the balance.

Abstractions. Money is an integer number of ticks and quotients are rounded down. A
position stores its cost instead of the average entry price, so `MarginBacksPosition` allows
one tick for each of its executions (not for each order: an iceberg executes in slices).
Leverages are whole numbers, and a slippage is at most the whole price; `update_config` takes
any finite number.
`TrailingRatchets` is about trails of at most 100 percent: `submit_order` accepts any
positive percentage (exchange_order_submission.py:169), and with more than 100 a sell stop
lies below zero and falls as the price rises. There is one symbol and one
account. Quantities are below the thresholds of market impact and partial fills. Trade
statistics, price rounding, the audit log, the largest-quantity check and the slice
bookkeeping of icebergs that decides nothing are left out. The code removes orders from
a book at the end of that book's loop; nothing reads the book in between, so the model
removes them at once. A partial liquidation of an odd quantity closes the larger half.

### SignalBot

`state`, `failures`, `successes`, `probes` are the fields of `CircuitBreaker`; `cooling`
says that the cooldown since the last trip is not over. A read of the breaker's state
moves it from OPEN to HALF_OPEN after the cooldown; reads happen in `Allow` (a signal)
and in `PollStatus` (the status task). `task[s]` is what the task of symbol `s` awaits:
its broadcast, its socket send, or the creation of the live adapter. Between two awaits
a task runs alone, so the gates after the broadcast and the decision to send are one
action: `StopAtGate`, `Unsized`, `Disconnected`, `SendOrder`, `CreateAdapter`,
`SkipLive`. A send ends as `OrderSent`, `SendFails` (a caught exception) or `SendRaises`
(an exception that `_execute_paper_order` does not catch: `websockets` reports a closed
connection with its own class). The asyncio locks of the breaker and of the publisher are
never held across an await that suspends for long, so an operation of the breaker is one
step.

A wave starts after the sleep, runs stat-arb signals (which pass the breaker and record
no outcome), starts the tasks of an arbitrary set of symbols and ends when all are done.
`losses` and `wins` are history variables: the failures since the last success and the
successes since the last failure, in any state, as far as the thresholds look back.
`healthy` marks that from now on the environment does nothing wrong. Strategy, validation,
sizing, database and LLM calls are an arbitrary choice of the symbols that reach the
breaker; `reset` has no caller in production and is left out. A live order is always
skipped because a `Signal` has no `position_size`.

### HftBot and OrderExecutor

`HftBot`: `xpos` and `resting` are the exchange, `up` and `down` the messages between the
two, `pos`, `pending`, `active`, `misses` and `closing` the fields of the position manager,
`pc`, `sym` and `canTrade` the loop, `killed`, `killPc` and `killer` the kill switch. A tick
reads `can_trade`, checks the risk limits, closes what reached a limit, takes a signal, asks
`has_position`, submits and then calls `add_pending_order`; each is a step, since the fill
callback runs on another thread and the switch may be activated by either. The activation is
three steps of the thread in it: the flag, the cancel of all orders, the closes. Orders and
positions are of one unit, long or short (`Units`); the signals and the risk limits are
arbitrary. Everything the bot sends goes over one connection and arrives in order, unless the
client refuses the send.

The exchange fills an order, lets it rest or rejects it; it answers what it cannot do with an
`error`, which the bot's receiver has no handler for, so that the order stays pending; it closes
positions by itself (stop loss, take profit, liquidation) and ends resting orders by a fill, an
expiry or a cancel. Fills are broadcast to every client and `apply_fill` takes them as they
come: `OtherClients` are fills of other clients of the account, which open and close positions
under the bot, also by a SELL for a symbol it has no position in. A broadcast of the account
leads to `sync_position` (which adopts and corrects quantities but keeps the side) and, for a
position that the exchange does not report, to a miss; `MissLimit` misses close it (3 in the
code). `FastFills = FALSE` assumes that no answer arrives between the submission and
`add_pending_order`; `hft_fast` is the run without that assumption.

`overtaken` marks a symbol that had a position when `add_pending_order` recorded an order for
it (the answer came first, or another client traded meanwhile). For these alone
`active_symbols_` may keep a symbol with neither position nor order (`AlwaysEngagedIffActive`
fails, section 4); `EngagedIffActive` is about all others. What the switch promises is
`KillCancelsEarlier`: once the cancel has reached the exchange no order rests there that was
sent before the activation. Orders sent after the flag by a tick that had read `can_trade`
before it do leave (`KilledSendsNothing` fails, section 4).

`OrderExecutor`: `io` is the client's thread (`ws_thread_`), `rec` the reconnect thread
(the sleeper), `wd` the watchdog and `main` the thread that calls `disconnect()`. They
share `should_reconnect_`, `cancel`, the delay and `reconnect_mtx_`; joins are steps that
wait for the joined thread. `Refuses` lets an attempt be refused, `Shutdown` lets
`disconnect()` be called, `SlowThreads` removes the assumption that a close handler is done
before the watchdog's next round, 5 s later. The delay doubles up to `MaxDelay` (30 s in
the code). Exceptions in `do_connect` are left out.

### The page

The page is one thread; a handler, an effect or a timer callback is one action, and a
render is an action where state is used after it. What is external (React's `lazy`, the
chart library, `localStorage`, the socket) is modelled from how the code uses it.

- `WebSocketClient` is `useWebSocket`: sockets that connect, open, fail and close, the
  retry timer with backoff and its budget, the queue of unsent messages, the ping, the
  reconnect button (`"retry"`), a change of token and the unmount.
- `ExchangeFeed` is `useExchangeData` against the gateway: broadcasts with sequence
  numbers that may be dropped, snapshots, resync with its throttle of 5 s, the promise of
  `submitOrder` with its timeout. Candles and fills are capped (`CandleCap`, `FillCap`; 50
  fills in the code).
- `ServerCompute` and `Tournament` are the panels that ask the signal bot to compute: one
  value of state takes all answers, each panel picks its own and has a timeout; two panels
  display that value itself (`direct`). ELO ratings are left out. When the minute of a
  tournament is over, an updater of `pending` calls `finishTournament` and returns the old
  value: depending on whether React calls it at once or in the next render, the tournament
  runs on or ends, and `Timeout` does either.
- `SimulationClock` is pause, speed and scrub against `_broadcast_loop`, for one browser
  with its connection up.
- `OrderForm` counts quantities in lots of 1/10000 because `toFixed(4)` rounds; fractions
  typed by hand and the displays of fee and risk are left out. `ExecutionBot` keeps the
  interval and its closure; the length of its delays is not modelled.
- `PriceAlerts` has the alerts, the toasts that carry them (`MaxToasts`, 5 in the code) and
  the webhooks fed by the toasts. The effect that finds a hit raises a toast and queues the
  note that the alert was hit (`setTriggered`). The toast store renders the page at once, and
  with it comes a new `onAlert`, on which the effect depends: until React renders the note the
  effect runs again with the old set (`Rerun`) and announces the hit again. Whether the note is
  rendered first is left open (`Apply`); React 18 ends a row of such renders by an error after 50
  of them (`MaxRuns`), and the panel's boundary drops the panel with its alerts (`GivesUp`).
  `FillNotices` has the webhook with its set of seen keys
  (`SeenCap` and `SeenKeep`, 500 and 200 in the code), the toast, the sounds and the daily
  summary.
- `TradeJournal` has the three users of the journal: the history as a tab and as a panel, and
  the journal panel, any of them on the page together; both panels are in the default layout.
  Each reads the one `localStorage` key when it mounts and writes its whole copy back, which may
  fail; none hears of another's write. `unseen` and `lost` tell which notes were saved elsewhere
  since a view mounted and which were overwritten. `Window` stands for the 20 trades shown;
  sorting, searching and statistics are left out, as are views in another browser tab, which
  would be further users.
  `SavedBacktests` has the list, its comparison and the storage events of other tabs
  (`Keep` stands for 10; `Quota` lets a write fail).
- `CandleChart` and `ResultChart` have the life of chart, series, price lines and markers;
  what the library throws on (times that do not ascend, a removed chart) is part of the
  state. `subscribeVisibleLogicalRangeChange` returns nothing in the library's version 4.2, and
  the clean-up of the RSI link calls what it returned: it throws when the RSI is switched off or
  the page goes. No panel boundary is around the chart, so `TopErrorBoundary` then shows its page
  in place of everything (`RsiOff`, `ReplacePage`), whose button loads the page anew.
- `PanelBoundary` has the lazy import, the two nested boundaries and their retries;
  `preloadCategory` is left out. `PanelContainer` has the visible and collapsed panels, the
  advanced flag in its three copies and the reload; the panel of feature flags is assumed
  to be on the screen. `DetachedPanels` has popups that outlive a reload.
- `ReplayPlayers` is one module for the tick, the trade and the depth player, which differ
  in what the playback effect depends on (`Cap` and `MinFrames` stand for 100 and 10).
  `SessionRecorder` has recording, list, import and viewer (`MaxSnaps` and `MaxSaved` stand
  for 5000 and 20; drawdown is a whole percentage). A write to storage may fail, which the code
  catches, and an import that ends after its panel has gone writes storage only; `apart` marks
  that list and storage were set to different values by such a write.
- `Indicators` computes every series of `utils/indicators.js` over whole numbers with
  reduced periods, as the list grows and is cut at its cap; `BacktestEngine` runs every
  rule set on several candle lists with a common beginning (`Common`) side by side, so that
  a decision that looks ahead shows as two runs that part too early. Floating-point error
  is out of scope: properties are stated with exact integers or rational comparisons.

### The analysis panels

For a panel, a count of candles and two inputs, `PanelsOfSignals` (learning, signal
processing and entropy) and `PanelsOfModels` (stochastic models, risk, transport, control,
geometry) give a record (`PanelReads`): whether the panel is drawn, which element of which array is read at most
and at least, by which counts it divides, and the number of candles its placeholder names.
The lengths of all intermediate arrays (returns, windows, features, embeddings, train and
test parts, spectra, histories) follow the code's slices and loops; the values are floating
point and left out. `AnalysisPanels` lets candles arrive, the symbol change and the user
type, with the clamping of each panel's input handlers (`Accept`). Loops whose inputs do not decide
what is read range over the accepted values. The handlers store decimals as they are typed, so the
two inputs have a whole part and possibly a fraction (`fractions`). What a fraction does depends
on its use: as the bound of a loop or a window that must end within the list it counts as the
next whole number (`FirstUsed`, `SecondUsed`), as a length of slice or in `i <= x` as its whole
part, and as an array length or an index it breaks the panel (`FractionBreaks`: `new Array(2.5)`
throws, `returns[10.5]` is not there). Which of these holds was read off every use in the panel.
Third inputs (epochs, bins, latent dimensions and the like) range over whole representatives.
Six panels use what is not there for whole inputs they accept, and seventeen for a decimal; the
operators `LeftEmpty` and `LeftZero` name these inputs, the two invariants hold for all
others, and the list in section 4 tells what happens with them.
Powers of two are a table up to 2048 (`Pow2`), four times the 500 candles the feed keeps.

## 3. Runs

| Run | Shows | Instance | States |
|---|---|---|---|
| `ring` | `RingInv`, `NoTornRead`, `IsFifoQueue`, `ElementsLeave` | 2 slots, counters modulo 6, batches up to 3, 2 values | 40,691 |
| `exchange_orders` | `RestingIsPending`, `OcoOneFilled`, `DecidedIsFinal`, `NoFillPastExpiry`, `TrailingRatchets` | 3 client orders out of 9 requests, 3 prices, 2 ticks | 590,339 |
| `exchange_money` | `TypeOK`, `MoneyConserved`, `MarginBacksPosition`, `PositionIsSumOfFills` | 3 client orders out of 4 requests, 3 prices, 2 leverages with their fees and slippages, a funding rate that longs pay and shorts receive, 2 ticks | 2,455,628 |
| `signal` | `CountsAreStreaks`, `CloseIsEarned`, `KillStops`, `OpenEnds` | 3 symbols, trip at 2 failures, 1 probe, 2 successes, paper and live | 41,418 |
| `native_bot` | `EngagedIffActive`, `BookFollowsExchange`, `KillCancelsEarlier`, `ComesBack`, `DownStaysDown`, `NotTorn`, `LatestRead` | 8 parts: the book with 2 symbols and 2 orders; with lost messages, other clients and fast answers; with the kill switch; the executor; its shutdown with refusals and slow threads; the slot with 5 writes, a crash, 3 starts | 314,811 |
| `page_feeds` | `SocketSound`, `FeedAgrees`, `AnswersAreOwn`, `PauseIsTrue`, `WaitsEnd` | 6 parts | 204,270 |
| `page_actions` | `OrdersUnderControl`, `NoticesExact`, `SavedIsShown`, `WaitsEnd` | 7 parts | 618,535 |
| `page_views` | `DrawnIsCurrent`, `SeriesSound`, `PastStands`, `WaitsEnd` | 14 parts | 352,607 |
| `panels` | `NoMissingElement`, `NoZeroDivisor`, `PlaceholderIsTrue` | 53 panels, up to 220 candles, typed numbers 0, 1, 2, 3, 12, 40, 64, 300 with and without a fraction | 609,297 |
| `exchange_fok` | violation of `FokIsDecided` | one fill-or-kill order | |
| `signal_recovers` | violation of `Recovers` | 2 symbols | |
| `hft_fast` | violation of `PositionsBooked` | 1 symbol, 1 order, a fast fill | |

The comment above each property says what its conjuncts are about, and the conjuncts are
defined and explained in the modules of the parts.

Why the bounds are enough. With 2 slots and batches of up to 3 the ring is full, empty,
wrapped at every position, and asked for more than it can hold; counters modulo 6 wrap
three times the capacity. Three orders are the smallest number with an OCO group of which
one member fills and one is cancelled while an unrelated order rests, and they open,
extend and flip a position; two ticks let a trailing stop activate and then trail, an
iceberg execute two slices, and an order expire on a tick that would fill it. The prices
cross every limit and stop from both sides, and 50 is far enough from 100 for a full
liquidation with a deficit. `MaxOrders` counts client orders and forced closes together
and stops only new client orders. Three tasks let two failures trip the breaker while a
third is in flight.

Two symbols and two orders of the C++ bot let one symbol open and close while the other
has an order on its way; with one symbol, orders of both signs meet a lost message, a fill of
another client and an answer that overtakes `add_pending_order`, or both threads in the
activation of the kill switch. Two misses are the smallest limit that is not the first miss.
Two words and four writes let a copy span two whole writes. In the page, caps are one or two
above nothing, so that lists overflow and old entries are pushed out: sockets open six times
with a budget of three retries, one broadcast of three is lost at any place, three requests
overlap a timeout of the first, four fills pass a set that remembers three, three saved
backtests go through a list of two, three clicks interleave with four frames of a replay
whose feed comes every second tick. Indicators have a period of 2 and lists of up to five
of four different candles, so that the window is filled, moves and drops its oldest;
backtests have lists of 3 and 7 of two candles and four rule sets that open, close and
reverse. 220 candles are above every guard and every slice of the 53 panels, and the typed
numbers lie below, inside and above the accepted ranges.

Deadlock is checked for the ring and the signal bot. The other configurations switch it
off: their bounded counters (orders, ticks, clicks, writes) are used up, and a shut-down
executor or an unmounted panel has ended.

Fairness. `ring`: the consumer polls for as long as the bot runs and a thread inside a
push is scheduled again; nothing makes the producer start a push. Signal bot: every await
ends (broadcasts have a timeout of 5 s and sockets fail), the cooldown elapses, the status
task polls every 5 s and the main loop only sleeps for its interval; nothing makes a
symbol have a signal. Only `signal_recovers` assumes more, `BusySpec`: again and again all
symbols have a signal. That makes its counterexample stronger, since the breaker stays
half open although signals keep coming and every order could be sent. C++ bot: the loop
finishes a submission it began, the exchange handles and broadcasts, the client receives,
each thread of the executor goes on, writer and reader go on with what they began. Page:
timers that are armed fire, socket events come, the server handles what it got, React
renders what changed, an import settles. Nothing makes a user act, an answer arrive or a
broadcast survive; where an answer may be lost it is the timeout that is fair.

Each property of a passing run has a mutant: an operator beside the original, marked
`Mutant` in its comment, that changes it the way a slip in the code would, and with which
the run finds the property violated. The properties of the composites are conjunctions, and
their mutants break one of the parts.

## 4. Disagreements between the code and its documents

Three have a run of their own:

1. `exchange_fok`. A marketable fill-or-kill limit order raises a `TypeError` in
   `_depth_covers` (`OrderBookLevel` objects unpacked as pairs; the tests mock the book with
   tuples) and stays PENDING, in no book.
2. `signal_recovers`. With the default settings (1 probe, 2 successes) a tripped circuit
   breaker never closes again. A probe whose task ends without an outcome has the same
   effect for any setting.
3. `hft_fast`. A fill that arrives between the submission of an order and
   `add_pending_order` is dropped, and the position never comes on the book.

The others were met while modelling. Each is a property that a module defines, that states
what a document, a comment, a label or a test says, and that TLC violates with the constants
given beside it (under `Spec` unless another specification is named). They stay in the
modules so that a change of the code can be followed by a run.

**ShmRing** (`Values = {a}`, `Zero = zero`, `Running = running`, `Capacity = 2`, `CounterMod = 6`, `MaxBatch = 1`)

- `SizeIsPossible` (src/hft-trade-bot/src/ipc/shm_ring_buffer.h:291). size() loads head, then tail; when the producer and the consumer both move between the two loads, tail is past the loaded head and the unsigned difference wraps to nearly 2^64. The status thread calls it through pending() (src/hft-trade-bot/src/core/bot_loop.cpp:497). The comment above it says "Current number of elements in the buffer" (src/hft-trade-bot/src/ipc/shm_ring_buffer.h:290); the run reaches a size larger than the capacity.

**Exchange** (in `MCExchange`, money as in `exchange_orders`, `MaxTicks = 2`)

- `OcoOneExecutes` [`Requests <- OcoIcebergRequests`, `Prices = {100, 110}`, `MaxOrders = 2`] (src/exchange_simulator/exchange_advanced_orders.py:191). _resolve_oco runs for an iceberg only when its last slice fills, so earlier slices trade while the other members of the group are still live and one of them can fill. The document says "**Idempotency**: Ensures only one order from the group can execute" (src/docs/ADVANCED_ORDER_TYPES.md:186).
- `FilledIsTraded` [`Requests <- IcebergRequests`, `Prices = {100}`, `MaxOrders = 1`] (src/exchange_simulator/exchange_advanced_orders.py:188). hidden_quantity starts as quantity - visible_quantity (src/exchange_simulator/exchange_order_submission.py:183) and slices are cut from it alone, so the first visible part never trades, yet the finished order reports filled_quantity = quantity. The document describes an iceberg as "Buy 10 BTC, but only show 0.1 BTC at a time" (src/docs/ADVANCED_ORDER_TYPES.md:270).
- `RejectionsCounted` [`Requests <- RestingRequests`, `Prices = {90, 100}`, `MaxOrders = 4`] (src/exchange_simulator/exchange_advanced_orders.py:208). _check_margin sets a resting order REJECTED, which the status listener counts, and then appends the order to the history again, which counts it once more. The docstring says "terminal transitions are counted through a status listener registered on append" (src/exchange_simulator/exchange.py:36).

**SignalBot** (`Symbols = {s1, s2}`, `FailureThreshold = 2`, `MaxProbes = 1`, `SuccessThreshold = 2`, `PaperTrading = FALSE`, `StatArb = FALSE`)

- `AdapterOnce` [`FairSpec`] (src/ai-signal-bot/run.py:813). _live_adapter is tested before the await of create() and assigned after it, and the tasks of a wave run concurrently, so two of them create an adapter each and the first is dropped without being closed. The docstring says "create once, reuse" (src/ai-signal-bot/run.py:799).

**BacktestEngine** (the instance of `PageViews` with `SizeDivisor <- 1`)

- `SizeIsPercentOfBalance` (src/web-ui/src/utils/backtestEngine.js:258). runBacktest multiplies the balance by positionSizePct as it is and its default is 0.1 (line 159); a caller who passes 10, as documented, opens a position of ten times the balance. src/web-ui/src/utils/backtestEngine.js:145 says 'positionSizePct - Position size as % of balance (default 10)'.

**CandleChart** (`Symbols = {"BTC", "ETH"}`, `Lines = {"ema9"}`, `Customs = {}`, `MaxCandles = 1`)

- `ChartShowsHeader` (src/web-ui/src/components/CandleChart.jsx:178). The effect returns at once without candles, so after selecting a symbol whose candles have not arrived the chart keeps the candles, lines and markers of the previous symbol. src/web-ui/src/components/CandleChart.jsx:297-298 says '{symbol}' and '{candles.length} candles' above it, that is, the new symbol and 0 candles.
- `RsiKeepsThePage` (src/web-ui/src/components/CandleChart.jsx:171). The clean-up of the RSI link calls the results of the two subscribe calls (lines 168 and 169), which are undefined, so switching the RSI off throws; no panel boundary is around the chart (src/web-ui/src/App.jsx:237), and TopErrorBoundary takes the whole page away. src/web-ui/src/components/CandleChart.jsx:130 says 'Create/destroy RSI chart when toggled'.

**DetachedPanels** (`Panels = {chart, orderbook}`, `Symbols = {s1, s2}`, `First = s1`)

- `FedAlways` [`MaxData = 1`, `MaxActs = 2`] (src/web-ui/src/hooks/useDetachablePanels.js:17). The windows are known only to popupsRef, which a reload empties without closing them: a window that is still open shows old data for ever. src/web-ui/src/hooks/useDetachedPanelSync.js:3 says 'Keeps detached (floating) panels fed with live data'.
- `Reattaches` [`MaxData = 1`, `MaxActs = 2`] (src/web-ui/src/hooks/useDetachedPanelSync.js:28). handleDetach returns at once for a panel that is detached, and closeDetached has no caller. src/web-ui/src/components/DetachablePanel.jsx:11 says 'Panel detached — click to re-attach'.
- `BuiltOnce` [`MaxData = 0`, `MaxActs = 3`] (src/web-ui/src/hooks/useDetachablePanels.js:32). After a reload window.open gives the old window of the same name; a second header and a second content element are added to its document and only the first is ever updated, the other stays at 'Loading...'. src/web-ui/src/hooks/useDetachablePanels.js:24 says 'Close existing popup for this panel'.

**ExchangeFeed** (`Levels = {1}`, `Quantities = {0, 1}`, `Cids = {}`, `CandleCap = 2`, `FillCap = 1`, `MaxSeq = 4`, `MaxDrops = 2`)

- `StaleBookHeals` [`LiveSpec`] (src/web-ui/src/hooks/useExchangeData.js:85). The gap test needs a previous number and onOpen resets it to 0 while snapshots carry none, so a broadcast lost before the first one of a connection is not noticed, and a second gap within 5 s is not asked for; deltas then apply onto a stale book. src/web-ui/src/hooks/useExchangeData.js:43 says 'seq gap detection — a dropped broadcast leaves orderbook_deltas applying onto a stale book; on gap we request sync_state'.

**ExecutionBot** (`Symbols = {s1, s2}`, `First = s1`)

- `CompleteMeansAll` [`SliceCounts = {0, 3}`, `MaxActs = 3`] (src/web-ui/src/components/ExecutionBot.jsx:91). A start with an empty Slices field (0) stops inside sendSlice before setInterval runs, so its interval stays; in the next run that interval, whose closure has 0 slices, stops the run after one slice and logs it as done. src/web-ui/src/components/ExecutionBot.jsx:41 logs 'Execution complete'.
- `SlicesAreOrders` [`SliceCounts = {2}`, `MaxActs = 1`] (src/web-ui/src/components/ExecutionBot.jsx:57). The slice has the field type 'MARKET', and submitOrder spreads the order after type: 'order', so the exchange receives a message of a type it does not know and nothing is traded. src/docs/WEB_UI.md:177 says 'TWAP/VWAP execution bot strategy (sliced order execution with progress)'.
- `PricedBySymbol` [`SliceCounts = {3}`, `MaxActs = 3`] (src/web-ui/src/components/ExecutionBot.jsx:45). The interval keeps the symbol of its start, the price ref follows the symbol now selected: a limit slice of one symbol gets a price averaged over another. src/web-ui/src/components/ExecutionBot.jsx:7 says 'Volume-Weighted Average Price'.

**FillNotices** (`MaxBatch = 2`, `FillCap = 2`, `SeenCap = 3`, `SeenKeep = 3`)

- `EveryFillReported` [`MaxOrders = 1`, `MaxDays = 1`] (src/web-ui/src/components/AlertWebhook.jsx:113). A fill's key is its order id and is marked as seen before the status is looked at; a resting order arrives first with status PENDING, so its later FILLED entry is skipped and no webhook is called. src/web-ui/src/components/AlertWebhook.jsx:9 offers the event 'Order Filled'.
- `EveryFillToasted` [`MaxOrders = 1`, `MaxDays = 1`] (src/web-ui/src/hooks/useNotifications.js:50). The toast is shown when the id of the newest entry changes; an order that was announced as PENDING has the same id when it is filled, and of several entries before one render only the newest is looked at. src/web-ui/src/hooks/useNotifications.js:46 says 'Notify on new fills (bot trades)'.
- `EveryDaySummarised` [`MaxOrders = 2`, `MaxDays = 2`] (src/web-ui/src/components/AlertWebhook.jsx:116). The first fill of a day replaces the count of the day before; when it comes before the minute timer has run, that day's summary is never sent. src/web-ui/src/components/AlertWebhook.jsx:142 says 'Daily summary at UTC midnight — count + notional accumulated above'.
- `MutedIsSilent` [`MaxOrders = 1`, `MaxDays = 1`] (src/web-ui/src/components/NotificationCenter.jsx:91). toggleSound stores 'trading-sound-enabled', which nothing reads; the sounds of useSoundAlerts follow a feature flag only. src/web-ui/src/components/NotificationCenter.jsx:93 tells the user 'Sound disabled'.

**HftBot** (`Symbols = {s1}`, `Units = {1}`, `MissLimit = 2`, `MaxOrders = 1`)

- `AlwaysEngagedIffActive` [`FastFills = FALSE`, `Kills = FALSE`, `MaxDrops = 0`, `MaxOthers = 1`] (src/hft-trade-bot/src/position/position_manager.h:130). A fill of another client that comes between has_position() and add_pending_order() opens a position for a symbol that then gets a pending order too; its full close keeps the symbol in active_symbols_ and then erases the pending order, so has_position() stays true with neither a position nor an order. With `FastFills = TRUE` and no other client the bot's own overtaking fill does the same. src/hft-trade-bot/src/position/position_manager.h:38 says 'Symbols with a pending order count as engaged in has_position()'.
- `PositionsBooked` [`LiveSpec`, `FastFills = FALSE`, `Kills = FALSE`, `MaxDrops = 1`, `MaxOthers = 0`] (src/hft-trade-bot/src/position/position_manager.h:176). sync_position returns while an order of the symbol is pending, expecting the fill to book it; if that fill was lost with the connection the position is never adopted. src/hft-trade-bot/src/position/position_manager.h:161 says 'adopt positions the exchange reports but we don't track (e.g. opened while disconnected)'.
- `KilledSendsNothing` [`FastFills = FALSE`, `Kills = TRUE`, `MaxDrops = 0`, `MaxOthers = 0`] (src/hft-trade-bot/src/core/main.cpp:63). can_trade is read before update_risk_state, which may activate the switch, and the loops of the same tick use the old value, so orders leave after cancel-all and close-all. src/hft-trade-bot/src/risk/kill_switch.h:12 says that activation will 'Block all new order submissions'.

**Indicators** (the instance of `PageViews`)

- `SmoothedKIsMeanOfK` (src/web-ui/src/utils/indicators.js:250). %D is the moving average of %K with NaN replaced by 0, and is only blanked where %K itself is missing, so its first dPeriod - 1 values average %K with zeros and are too low. src/web-ui/src/utils/indicators.js:234 says 'dPeriod - %D smoothing period (default 3)'.

**MarketSlot**

- `LatestRead` [`MaxWrites = 2`, `MaxStarts = 2`, `Crashes = FALSE`, `Sinks = FALSE`] (src/ai-signal-bot/src/communication/shm_market_data_writer.py:117). close() removes the file and the next init() makes another, while the C++ bot maps the segment once (bot_setup.cpp:315) and never again: it goes on reading, as consistent, the last snapshot of the old segment. src/docs/ARCHITECTURE.md:353 says 'Latest-snapshot-wins'.
- `NotTorn` [`MaxWrites = 3`, `MaxStarts = 2`, `Crashes = TRUE`, `Sinks = FALSE`] (src/ai-signal-bot/src/communication/shm_market_data_writer.py:60). init() on a segment a crashed writer left clears the sequence numbers under the reader, so a read that began before can meet the same number again after other data was written. src/hft-trade-bot/src/ipc/shm_market_data.h:146 says 'Verify seq unchanged (no concurrent write)'.
- `NotTorn` [`MaxWrites = 2`, `MaxStarts = 1`, `Crashes = FALSE`, `Sinks = TRUE`] (src/hft-trade-bot/src/ipc/shm_market_data.h:147). An acquire load keeps later accesses after it, not the memcpy before it: without a fence the copy may be done after the second load of seq, and a write in between goes unnoticed. src/hft-trade-bot/src/ipc/shm_market_data.h:146 says 'Verify seq unchanged (no concurrent write)'.

**OrderExecutor** (`MaxDelay = 2`)

- `Reconnects` [`Refuses = TRUE`, `Shutdown = FALSE`, `SlowThreads = FALSE`] (src/hft-trade-bot/src/execution/order_executor.h:100). do_connect sets no fail handler, so an attempt that is refused calls neither the open nor the close handler, run() returns, and the watchdog skips an executor that is not connected: no further attempt is made. src/docs/ARCHITECTURE.md:635 says 'Exponential backoff reconnect (1s→30s cap)'.
- `LockIsReleased` [`Refuses = FALSE`, `Shutdown = FALSE`, `SlowThreads = TRUE`] (src/hft-trade-bot/src/execution/order_executor.h:440). A sleeper started by the watchdog may join ws_thread_ while that thread is in its close handler and waits to join the sleeper under reconnect_mtx_; cancel is not looked at again. src/hft-trade-bot/src/execution/order_executor.h:436 says 'the join doesn't stall the caller for the whole backoff window'.
- `NoSleeperOutlives` [`Refuses = FALSE`, `Shutdown = TRUE`, `SlowThreads = FALSE`] (src/hft-trade-bot/src/execution/order_executor.h:428). should_reconnect_ is read before the lock; a close handler that read it as true and takes the lock after disconnect() released it starts a sleeper that is still joinable when the executor is destroyed. src/hft-trade-bot/src/execution/order_executor.h:437 says 'no sleeper outlives this object'.
- `ShutdownEnds` [`Refuses = FALSE`, `Shutdown = TRUE`, `SlowThreads = FALSE`] (src/hft-trade-bot/src/execution/order_executor.h:121). disconnect() closes only a connection that is up; an attempt under way that succeeds afterwards is never closed and the join of ws_thread_ waits for ever. src/docs/ARCHITECTURE.md:678 says of the shutdown that it 'joins threads'.

**OrderForm** (`Lots = 10000`, `DefaultBalance = 10`, `ServerLeverage = 10`, `Percents = {100}`, `Visible = 100`, `Fields = {"limit"}`, `MaxSubmits = 1`, `MaxActs = 2`)

- `WarnedAboutMargin` [`Prices = {20}`, `Balances = {0, 10}`, `Leverages = {10}`, `Typed = {20000}`] (src/web-ui/src/components/OrderForm.jsx:34). `balance || 10000` takes a balance of 0 for a missing one, so an account with nothing left gets no warning and the button stays enabled. src/web-ui/src/test/orderForm.test.jsx:31 says 'shows margin warning when margin exceeds balance'.
- `QuickSizeFits` [`Prices = {15}`, `Balances = {10}`, `Leverages = {1}`, `Typed = {100}`] (src/web-ui/src/components/OrderForm.jsx:46). toFixed(4) rounds up as often as down: at leverage 1 the 100% button may set a size whose margin exceeds the balance it was computed from, and the form then refuses it. src/web-ui/src/components/OrderForm.jsx:256 says 'Quick size buttons', src/web-ui/src/test/orderForm.test.jsx:61 'sets quantity from balance percentage'.
- `LeverageIsTheOrders` [`Prices = {20}`, `Balances = {10}`, `Leverages = {1, 10}`, `Typed = {100}`] (src/web-ui/src/components/OrderForm.jsx:54). The leverage chosen with the slider decides the margin check and the margin shown but is not sent; the exchange uses the account's. src/web-ui/src/components/OrderForm.jsx:364 says 'Margin Required', src/web-ui/src/components/OrderForm.jsx:318 'Leverage:'.
- `LimitHasPrice` [`Prices = {20}`, `Balances = {10}`, `Leverages = {10}`, `Typed = {100}`] (src/web-ui/src/components/OrderForm.jsx:61). With an empty price field the form sends a LIMIT order without a price, and the exchange fills it at the market at once. src/docs/ADVANCED_ORDER_TYPES.md:307 says of Limit 'Specified or better'.
- `AwaitingMayCome` [`Prices = {20}`, `Balances = {10}`, `Leverages = {10}`, `Typed = {100}`] (src/web-ui/src/components/OrderForm.jsx:90). An error from the exchange resolves no promise, so after 5 s the form says 'Sent — awaiting ack' of an order that was refused. src/web-ui/src/components/OrderForm.jsx:89 says 'null = no ack (queued/offline/timeout)'.

**PanelBoundary** (`MaxRetries = 3`, `DisableAfter = 3`, `MaxClicks = 1`, `MaxChanges = 1`)

- `RetryLoads` [`LiveSpec`] (src/web-ui/src/components/ChunkRetryBoundary.jsx:29). A retry only renders the same lazy component again. React.lazy remembers a rejected import, so it throws at once and nothing is fetched; no query parameter is added anywhere. src/web-ui/src/components/ChunkRetryBoundary.jsx:6 says 'automatically retries with a cache-busting query param'.
- `FailedAfterRetries` [`LiveSpec`] (src/web-ui/src/components/ChunkRetryBoundary.jsx:25). retryCount is raised when a retry is scheduled, so the message appears during the delay before the third retry. src/web-ui/src/components/ChunkRetryBoundary.jsx:52 says 'Chunk failed to load after 3 retries'.

**PanelContainer** (the instance of `PageViews`)

- `AdvancedToggles` (src/web-ui/src/panels/PanelContainer.jsx:38). toggleAdvanced passes a function to the setter of useFeatureFlag, which takes a value: setFlag announces it as truthy, the hook sets true and then runs the function on true, so the button always ends in false. src/web-ui/src/panels/PanelContainer.jsx:60 says 'Toggle advanced math/research panels'.
- `OneTruth` (src/web-ui/src/featureFlags.js:73). For the same reason the storage then holds the text of a function and the panel of feature flags shows the flag as on while the sidebar has it off. src/web-ui/src/featureFlags.js:3 says 'Single source of truth for feature flags'.
- `CountIsOffered` (src/web-ui/src/panels/PanelContainer.jsx:47). Turning the flag off in the panel of feature flags leaves the advanced ids in `visible`, so the sidebar's '{visibleCount}/{totalCount} panels' (src/web-ui/src/panels/PanelContainer.jsx:54) counts panels that are neither drawn nor among those that can be chosen.

**AnalysisPanels** (constants of the run, without the panel's line in `LeftEmpty` or
`LeftZero`)

- `ForecastAtHorizon` (src/web-ui/src/components/FokkerPlanckEquation.jsx:152). forecastIdx indexes `history`, which holds about 21 snapshots, by horizon * nSteps / 20, so with 200 steps every horizon above 1 is clamped to the last snapshot and the density after 191 steps is shown for horizon 10. src/web-ui/src/components/FokkerPlanckEquation.jsx:151 says 'Forecast density at horizon steps'.
- `NoMissingElement` (src/web-ui/src/components/LieGroupSymmetries.jsx:155). The window input has no upper bound (line 232); longer than the lookback's returns it leaves lieCoeffs empty, `current` is undefined and line 322 reads data.current.e1, which throws. src/web-ui/src/components/LieGroupSymmetries.jsx:195 says the panel needs 'at least {lookback + 1} candles', which are there.
- `NoZeroDivisor` (src/web-ui/src/components/PersistentHomologyLandscape.jsx:215). With a window longer than the lookback's returns slidingNorms is empty, normMean is 0 / 0 and the change test of line 217 compares with NaN, so it never reports a change; src/web-ui/src/components/PersistentHomologyLandscape.jsx:214 calls these lines '// Topological change detection'.
- `PlaceholderAlwaysTrue` (src/web-ui/src/components/ArzelaAscoli.jsx:101). The panels return null for n < maxParam * 3 (ArzelaAscoli.jsx:101) or fewer than five embedded points (TopologicalDataAnalysis.jsx:174) as well, and then show the text of the candle guard: src/web-ui/src/components/ArzelaAscoli.jsx:181 'Need at least {lookback + 1} candles', to a user who has them.
- `ForecastIsAhead` (src/web-ui/src/components/GaussianProcessRegression.jsx:236). The points the panel predicts are nTrain .. nTrain+nPredict-1 of the last nTrain+nPredict candles, so the predicted price compared with the current one belongs to a candle that closed nPredict candles ago. src/web-ui/src/components/GaussianProcessRegression.jsx:235 says '// Prediction for future' and the input is labelled 'Predict ahead:' (line 331).
- `PlaceholderAlwaysTrue` (src/web-ui/src/components/RecurrentNeuralNetwork.jsx:266). With a long sequence length the panel has too few sequences and shows its placeholder although there are 40 candles or more. src/web-ui/src/components/RecurrentNeuralNetwork.jsx:332 says 'Need at least 40 candles'.
- `NoZeroDivisor` (src/web-ui/src/components/GaussianMixtureModel.jsx:233). The input accepts Max K = 1, and 1.5, which fits one model as well (line 248), and sxBIC divides by models.length - 1 = 0, so the points of the chart that src/web-ui/src/components/GaussianMixtureModel.jsx:300 announces as 'Model Selection: BIC / AIC vs K' have NaN coordinates.
- `PeriodInSamples` (src/web-ui/src/components/SpectralAnalysis.jsx:84). The period of a peak is magnitudes.length / i, and there are only half as many magnitudes as samples in the transformed segment, so every reported cycle is half as long as the real one. src/web-ui/src/components/SpectralAnalysis.jsx:76 says 'A peak at bin k → period = N / k (samples per cycle)'.
- `SpectrumMatchesAxis` (src/web-ui/src/components/VariationalModeDecomposition.jsx:130). fft pads the 3N mirrored samples to a power of two, which 3N never is; the updates pair value i of the padded spectrum with frequency i / 3N and invert only the first 3N values. src/web-ui/src/components/VariationalModeDecomposition.jsx:88 says '// FFT of signal' and line 13 'subject to: Σ_k u_k = f(t)'.
- `NoMissingElement` (src/web-ui/src/components/KolmogorovSinaiEntropy.jsx:347). largestLyapunov answers 'divergences.length < 3' with the list as it is (line 168), empty when all returns are equal, and the chart reads divergences[0].lag. src/web-ui/src/components/KolmogorovSinaiEntropy.jsx:343 draws '{/* Linear fit */}' for every list.
- `NoMissingElement` (src/web-ui/src/components/MarkovSwitchingGARCH.jsx:48). The 'Regimes:' input takes 2 to 4 (line 271) and msGarchFilter reads regimes[k] for every k below it, but the candidates of estimateParams (lines 134-156) have two regimes each: with 3 the read of regimes[2].omega throws. src/web-ui/src/components/MarkovSwitchingGARCH.jsx:10 says 'Regime s_t ∈ {0, 1, ..., K-1} follows Markov chain'.
- `NoMissingElement` (src/web-ui/src/components/HamiltonianMonteCarlo.jsx:154). The burn-in has no upper bound (line 255); at or above the number of samples slice(burnIn) is empty and line 287 prints logPostHistory[-1].toFixed, which throws. src/web-ui/src/components/HamiltonianMonteCarlo.jsx:153 calls the slice '// Post burn-in samples' and the code takes its percentiles and its last element without a check.
- `FractionsAreHarmless` (src/web-ui/src/components/RecurrentNeuralNetwork.jsx:362). The handlers store `+e.target.value` between its limits and unrounded: 2.5 hidden units reach new Array(2.5) (line 39), which throws, and a sequence length of 10.5 reads returns[i + 10.5] (line 239). The same happens in `FirstBreaks` and `SecondBreaks` of the module, the band of DTW and the lookback of the price predictor. src/web-ui/src/components/RecurrentNeuralNetwork.jsx:361 labels the input 'Hidden units:'.

**PriceAlerts** (`MaxToasts = 5`, `MaxOthers = 0`, `MaxRuns = 3`)

- `AlertIsOfItsSymbol` [`Symbols = {"BTC", "ETH"}`, `MaxPrice = 2`, `MaxAlerts = 1`] (src/web-ui/src/components/PriceAlerts.jsx:48). An alert keeps its symbol and exchange but the check compares its threshold with currentPrice, the price of the symbol selected now, so selecting another symbol fires it. src/web-ui/src/components/PriceAlerts.jsx:138 says 'Alert when {symbol} on {exchange} goes:'.
- `AlertReachesWebhook` [`Symbols = {"BTC"}`, `MaxPrice = 1`, `MaxAlerts = 6`] (src/web-ui/src/stores/useToastStore.js:19). Webhooks for price alerts are sent from the toasts on the screen, of which only five are kept; when one price hits six alerts the first toast is dropped before the panel's effect runs and its webhook is never called. src/web-ui/src/components/AlertWebhook.jsx:12 offers the event 'Price Alert'.
- `FiresOnce` [`Symbols = {"BTC"}`, `MaxPrice = 1`, `MaxAlerts = 1`] (src/web-ui/src/components/PriceAlerts.jsx:61). onAlert is a new function in each render (src/web-ui/src/panels/registry.js:735) and a dependency of the effect; its toast renders the page before setTriggered of line 55 is applied, so the effect runs again with the old set and raises the toast again. src/web-ui/src/components/PriceAlerts.jsx:47 has 'if (triggered.has(alert.id)) continue'.
- `AlertsStay` [`Symbols = {"BTC"}`, `MaxPrice = 1`, `MaxAlerts = 2`] (src/web-ui/src/components/PriceAlerts.jsx:61). When these runs reach React's limit of nested updates (50; `MaxRuns`), React throws, PanelErrorBoundary replaces the panel, and its alerts, which are state of the panel only, are gone. src/web-ui/src/components/PriceAlerts.jsx:138 promises 'Alert when {symbol} on {exchange} goes:'.

**ReplayPlayers** (`Cap = 3`, `MinFrames = 2`, `MaxEvents = 4`, `FeedPeriod = 2`, `Steps = {1, 3}`, `MaxClicks = 3`)

- `PlaybackEnds` [`Player = "depth"`] (src/web-ui/src/components/MarketDepthReplay.jsx:87). The playback effect depends on replayData, which every candle broadcast makes anew, so each broadcast clears the interval and starts it again: at 0.5x (2 s) with the exchange's tick of 1 s (websocket_server.py:88), or at 1x with a simulation speed of 2x, it never fires. src/web-ui/src/components/MarketDepthReplay.jsx:276 says 'Press play to start depth replay'.
- `ShownExists` [`Player = "trade"`] (src/web-ui/src/components/TradeReplay.jsx:82). handleJump(1), the button with title="End" (src/web-ui/src/components/TradeReplay.jsx:159), sets step to totalSteps, one past the last event: no event is shown and the counter reads n+1/n. A change to a symbol with fewer events does the same.
- `TimelineInOrder` [`Player = "trade"`] (src/web-ui/src/components/TradeReplay.jsx:27). Candles are merged with time: c.time, but candles of the wire carry `timestamp`; the sort takes undefined as 0 and puts every candle before every fill. src/web-ui/src/components/TradeReplay.jsx:24 says 'Merge into timeline', src/web-ui/src/test/tradeReplay.test.jsx:54 'merges fills + trades + candles into one timeline'.

**ResultChart** (`Hosts = {"strategy", "runner"}`, `Curves = {"trend"}`, `Times = {1}`, `MaxPoints = 0`, `MaxEdits = 1`)

- `ResultDrawn` (src/web-ui/src/hooks/useBacktestChart.js:13). The effect that creates the chart has no dependencies and runs once, when the panel appears; the container is rendered only with a result (src/web-ui/src/components/BacktestRunner.jsx:215 and src/web-ui/src/components/StrategyBacktest.jsx:340), so it returns early and the equity curves are never drawn. src/web-ui/src/hooks/useBacktestChart.js:5 says 'Equity-curve chart lifecycle: create once, resize via ResizeObserver, sync line series when `result` changes.'

**SavedBacktests** (`Names = {trend}`, `MaxRows = 1`, `Quota = FALSE`)

- `NoBacktestLost` [`Tabs = {a, b}`, `MaxSaves = 2`, `Keep = 2`, `MaxTicks = 0`, `MaxTimers = 0`] (src/web-ui/src/hooks/useSavedBacktests.js:49). handleSaveBacktest appends to the list this tab shows and writes it over the stored one; when another tab has saved and its storage event has not been handled yet, that backtest is lost although there are fewer than ten. src/web-ui/src/hooks/useSavedBacktests.js:49 says '// keep last 10' and lines 18-19 're-load when another panel (BacktestComparison) or another tab mutates SAVED_KEY'.
- `ButtonCountsSelected` [`Tabs = {a}`, `MaxSaves = 3`, `Keep = 3`, `MaxTicks = 3`, `MaxTimers = 1`] (src/web-ui/src/hooks/useSavedBacktests.js:59). handleDeleteSaved does not untick the deleted id, so the button counts it, and stays on the screen although its handler returns at once with fewer than two backtests. src/web-ui/src/components/BacktestRunner.jsx:265 shows 'Run Comparison ({selectedForCompare.size})'.

**ServerCompute**

- `AnswersAreCurrent` [`Panels = {"Hawkes"}`, `MaxRequests = 2`] (src/web-ui/src/components/HawkesProcess.jsx:142). No one empties hawkesResult, and the effect runs as soon as backendPending is set: the second fit is answered at once with the result of the first, and the real answer is dropped because the panel no longer waits. The same in PositionSizeOptimizer.jsx:15, PortfolioOptLab.jsx:56, RiskDashboard.jsx:20, FundingRateHistory.jsx:8 and ConditionalValueAtRisk.jsx:148. `AnswersAreOwn` says what is left: a panel that asks with an empty slot and nothing on its way gets its own answer. src/web-ui/src/components/HawkesProcess.jsx:314 shows it as 'ai-signal-bot fit'.
- `TimeoutIsOwn` [`Panels = {"Runner"}`, `MaxRequests = 2`] (src/web-ui/src/components/BacktestRunner.jsx:70). handleRun arms a 30 s timer that is never cleared, so the timer of an answered run ends a later run early with 'Backtest timed out'. src/web-ui/src/components/BacktestRunner.jsx:69 says 'Safety timeout — reset running state after 30s if no response'.

**SessionRecorder** (`MaxTrades = 0`, `MaxSnaps = 2`)

- `SavedIsKept` [`NAccounts = 1`, `Levels = {1}`, `MaxSaved = 3`, `MaxIds = 2`, `Files = {"full"}`, `Candles = FALSE`] (src/web-ui/src/components/SessionReplay.jsx:75). handleFileImport awaits file.text() and then calls the importRecording of the render in which the file was picked, whose savedRecordings is that render's list: a recording saved meanwhile is overwritten in state and in localStorage (and one deleted meanwhile comes back). src/web-ui/src/components/SessionReplay.jsx:126 offers 'Stop & Save'.
- `MaxDrawdownIsLargestFall` [`NAccounts = 2`, `Levels = {2, 4}`, `MaxSaved = 2`, `MaxIds = 1`, `Files = {}`, `Candles = FALSE`] (src/web-ui/src/hooks/useSessionRecorder.ts:131). stopRecording keeps one peak for the accounts of all exchanges, so with accounts at 4 and 2 that never move it reports 50% drawdown. src/web-ui/src/components/SessionReplay.jsx:176 prints it as 'MaxDD:' and the test src/web-ui/src/test/useSessionRecorder.test.jsx:34 'computes peak equity, drawdown, trades and balance on stop' has one account only.
- `DrawnHasSummary` [`NAccounts = 1`, `Levels = {1}`, `MaxSaved = 2`, `MaxIds = 1`, `Files = {"bare"}`, `Candles = FALSE`] (src/web-ui/src/hooks/useSessionRecorder.ts:185). importRecording fills in metadata only when there is none; with metadata {} it is kept and the viewer's viewing.metadata.peakEquity.toFixed(2) (SessionReplay.jsx:175) throws. src/web-ui/src/test/useSessionRecorder.test.jsx:101 calls such a recording 'valid'.
- `RecordingCaptures` [`RecordingSpec`, `NAccounts = 1`, `Levels = {1}`, `MaxSaved = 2`, `MaxIds = 1`, `Files = {}`, `Candles = TRUE`] (src/web-ui/src/hooks/useSessionRecorder.ts:111). registry.js:711 passes the feed's flat array of candles, while captureSnapshot expects arrays per key and calls candles.slice(-100) on each entry: with a candle there every tick of the interval throws before the push. src/web-ui/src/components/SessionReplay.jsx:119 shows 'REC {snapshotCount} snapshots'; the test of the hook (src/web-ui/src/test/useSessionRecorder.test.jsx:15) passes a map of arrays.
- `ListSurvives` [`NAccounts = 1`, `Levels = {1}`, `MaxSaved = 2`, `MaxIds = 1`, `Files = {}`, `Candles = FALSE`] (src/web-ui/src/hooks/useSessionRecorder.ts:55). When localStorage is full the error is caught and told to the console of a development build only: the recording is in the list and not in storage, and gone after a reload. src/web-ui/src/test/useSessionRecorder.test.jsx:72 says 'persists recordings to localStorage and deletes by id'.

**SimulationClock**

- `SpeedShown` [`MaxCandles = 2`, `MaxClicks = 2`, `Controls = {"speed"}`] (src/web-ui/src/App.jsx:139). The effect shows 1x whenever a pause ends, and a speed chosen while paused is first put back to 0 and then to 1: after Pause and 5x the server runs at 5x and the header shows 1x. src/web-ui/src/App.jsx:134 says 'Sync simSpeed when replay is paused/resumed from ReplayControls panel'.
- `SpacePauses` [`MaxCandles = 2`, `MaxClicks = 1`, `Controls = {"space"}`] (src/web-ui/src/hooks/useAppShortcuts.js:17). The space bar changes simSpeed in the store only; nothing is sent, and the effect of App sets the number back. src/web-ui/src/components/KeyboardHelp.jsx:7 says Space is 'Pause / resume simulation'.
- `OffsetShown` [`MaxCandles = 2`, `MaxClicks = 4`, `Controls = {"replay", "scrub"}`] (src/web-ui/src/components/ReplayControls.jsx:5). A resume sets the server's _replay_offset to 0 (ws_message_handler.py:421) and leaves scrubOffset: at the next pause the panel says 'Scrub: {scrubOffset} candles back' (src/web-ui/src/components/ReplayControls.jsx:60) although nothing was scrubbed.
- `HistoryShown` [`MaxCandles = 3`, `MaxClicks = 2`, `Controls = {"replay", "scrub"}`] (src/web-ui/src/hooks/useExchangeData.js:241). replay_candles are merged into the candles already there, so the newest candle of the chart stays the newest one whatever the offset. src/web-ui/src/components/ReplayControls.jsx:76 says 'Simulation paused — scrub to view history'.

**Tournament** (`Strategies = {"trend", "fft"}`, `MaxRounds = 2`, `MaxOther = 0`, `MaxToggles = 0`)

- `AnswersAreFresh` (src/web-ui/src/components/CompetitionFramework.jsx:110). The effect runs when pending changes, so starting a tournament takes the answer that is still in backtestResult, the last one of the tournament before or of another panel; so is a late answer to a tournament that timed out. The real answer is then dropped by line 99. src/web-ui/src/components/CompetitionFramework.jsx:95 says 'Collect backtest_result responses; the `strategy` field echoes the request.'
- `NoResponseIsTrue` (src/web-ui/src/components/CompetitionFramework.jsx:98). All answers pass through one value, and two that arrive between two renders leave only the second; the first strategy is listed after a minute as failed. src/web-ui/src/components/CompetitionFramework.jsx:67 shows 'no response' for it.

- `TournamentEnds` (src/web-ui/src/components/CompetitionFramework.jsx:122). The timer's updater calls finishTournament, which calls setPending(null), and then returns prev: called at once, it puts the old value in the queue behind the null, and after a lost answer the button says 'Running (n left)...' and stays disabled until the panel is opened again. `LeaderboardComes` holds. src/docs/AUDIT_FINDINGS.md:1289 lists a '60s timeout'.

**TradeJournal** (`Tags = {"good"}`, `Window = 2`, `Winning = {1}`, `Flat = {2}`, `MaxTrades = 2`)

- `NoNoteLost` [`MaxActs = 4`] (src/web-ui/src/hooks/useLocalStorage.ts:28). Each view writes its whole copy of the journal back and hears of no other's write; both panels are on the page by default (src/web-ui/src/panels/registry.js:716 and 724), so the later save removes the note the other one has stored. src/docs/WEB_UI.md:355 says 'Panel visibility, theme, trade journal — survives page reloads'.
- `ViewsAgree` [`MaxActs = 4`] (src/web-ui/src/hooks/useLocalStorage.ts:9). The history as a tab and the history panel use the same keys, and a note saved in one is not shown in the other until that is mounted again. src/docs/WEB_UI.md:186 says 'Trade journal with tags and filtering (localStorage persistence)'.
- `TagsAreSaved` [`MaxActs = 4`] (src/web-ui/src/hooks/useTradeJournal.ts:35). saveEntry deletes the entry when the note is empty, with the tags that were chosen. src/docs/WEB_UI.md:186 says 'Trade journal with tags and filtering (localStorage persistence)'.
- `ExportHasJournal` [`MaxActs = 4`] (src/web-ui/src/hooks/useTradeJournal.ts:162). The journal panel stores under exchange|symbol|time (tradeKeyFromId), the history reads and exports exchange|symbol|time|entry (tradeKey): a note of one view does not exist for the other. src/web-ui/src/components/TradeHistory.jsx:74 says 'Export trades with journal notes as CSV'.
- `WinsAgree` [`MaxActs = 3`] (src/web-ui/src/components/TradeJournal.jsx:37). The journal's filter 'Wins' (src/web-ui/src/components/TradeJournal.jsx:94) leaves out a trade with a result of 0 and lists it under 'Losses'; the history counts it as a win.

**WebSocketClient** (`MaxReconnects = 3`, `QueueCap = 1`, `MaxSockets = 4`, `MaxSends = 0`, `Events = {"retry", "unmount"}`)

- `NoGhostSocket` (src/web-ui/src/hooks/useWebSocket.ts:104). connect() opens a second socket while the first is still connecting, and when both fail scheduleRetry arms two timers and keeps one handle; the cleanup clears only that one, the other calls connect() after the unmount. src/web-ui/src/hooks/useWebSocket.ts:255 says 'unmount close must not scheduleRetry' and src/web-ui/src/test/useWebSocket.test.jsx:180 'unmount does not spawn a ghost reconnect'.

A GTD order that is already past its expiry when submitted fills at once if it is
marketable; no line of the repository says otherwise, so it is a note and not listed above.
A Gaussian mixture of more than five components reads past its list of five colours, and
the components have no colour; this is one of the cases that `LeftEmpty` names.

## 5. Proofs

All theorems are about the specifications that the runs check and hold for every value of
the constants that meets the named assumptions (`RingAssumption`, `AccountAssumption`,
`ExchangeAssumption`, `SignalBotAssumption`; `BotAssumption`, `ExecutorAssumption` and
`SlotAssumption` of `NativeBot`; `SocketAssumption`, `FeedAssumption`, `ComputeAssumption`,
`CupAssumption` and `ClockAssumption` of `PageFeeds`; `FormAssumption`, `BotAssumption`,
`AlertsAssumption`, `FillsAssumption`, `JournalAssumption` and `TabsAssumption` of
`PageActions`; `ChartAssumption`, `ResultAssumption`, `BoundaryAssumption`,
`WindowAssumption`, `ReplayAssumption` and `RecorderAssumption` of `PageViews`;
`PanelsAssumption` of `AnalysisPanels`), which TLC evaluates in the runs.
The assumptions say that bounds and caps are natural numbers, that the symbols and strategies
are finitely many, that the interval of a replay is not 0, that a symbol has at most 2048 candles
(the feed keeps 500), and which panels `ServerCompute` is about: those that keep the handle
of their timer and share their slot with no other panel (for `BacktestRunner` the property
is false, section 4).

**ShmRingProofs.** `RingInvariant`: `RingInv` is inductive. It says that a thread inside a
call still holds the true value of the counter it owns, that what the producer has claimed
is free and holds the items copied so far, and that what the consumer has claimed is
occupied and equal to what it has copied out. `NeverTorn` follows: claimed free and
claimed occupied slots are disjoint, since distinct counters within a distance of the
capacity lie in distinct slots (lemmas on `Slot`, `Add` and `Sub`). `RingIsFifo`: every
step of the ring is a step or a stutter of `ShmQueue` when the queue is what lies between
`tail` and `head`; the push takes effect at `PushPublish`, the pop at `PopPublish`. The
assumption on the counters is that the capacity divides the modulus and is at most half of
it, which powers of two meet.

**ExchangeProofs.** `ExchangeInvariant`: `ExchangeInv` is inductive. It joins a sound
account (well typed, and no margin without a position), `Worth(acct) = InitialBalance`, the
agreement of books and orders, and that the sweep only visits orders of the history.
`MoneyIsConserved` and `BooksAgree` are its consequences. The lemmas state for each operator
of `Account` what it does to `Worth`; the core is that the margin released, the share of
the order's margin given back and the residual's margin add up in the three cases of an
opposite fill, for any rounding. Soundness is needed so that a release divides by a
positive quantity and so that closing in full leaves no margin behind.

The second half is about the lives of orders. Lemma `OrderSteps` classifies every step of
the exchange: either it fills no order of a group and no resting order (`NotFilling`), or it
fills exactly one order and resolves its group in the same step (`Filling(id)`); in both,
an order that was decided stays as it was. `GroupInv` says that a filled order of a group is
the one the group names, that a group that names one has no pending order, and that of
the pending orders only limits carry an expiry (the sweep tests only them). `GroupInv` is
inductive with `ExchangeInv` because a filled order was pending, so its group named nobody.
`OneFilledPerGroup`, `DecidedStays` and `ExpiryBeatsFill` follow, and with the ranges of
counters and clock (`BookkeepingOK`) `ExchangeTypes`.

`StopsRatchet`: `TrailInv` says that the stop of an active trailing order is `StopAt` its best
price. A step leaves best price and stop of an order alone, activates it, or moves the best
price to a better one, and for a trail of at most 100 percent `StopAt` is monotone in it,
integer division included. `MarginFollowsCost`: `Backed` says that the cost lies between the
margin times the lowest and times the highest leverage the position locked margin at, to one tick
of margin for each execution; `UpdateConfig` changes none of these, and a fill after it widens the
range by the leverage then in force. Opening, extending and
partly closing are nonlinear (the share released is `margin * qty \div held`), so each has an
arithmetic lemma of its own; a flip is a full close and an opening.

`PositionFromFills`: the position is the sum of what all orders have executed. The sum is a
recursive function over the orders (`SumUpTo`); that such a function exists, and that only
one does, is shown from a least counterexample (`SumsExist`, `SumsAgree`), and a function
for the orders after a step is then written down from the one before (`SumGrows`,
`SumMoves`). `Tracked` adds what makes the statement inductive: an open position has a side,
and a pending order that is not an iceberg has executed nothing, so that its fill adds
exactly its quantity. Every step moves position and sum by the same amount (`Executed`).

**SignalBotProofs.** `SignalInv` joins `TypeOK` and `CountsAreStreaks`; the ranges of the
counters are needed for the step that closes the breaker (`successes` is one below the
threshold, so `wins` reaches it). `StreaksAreCounted`, `ClosesWhenEarned` and
`KillStopsAll` follow; the last one only needs the types, since with the latch set a task
can end or start its broadcast and nothing else.

**NativeBotProofs.** `PartInv` gives each part of the composite its own inductive invariant.

- `SnapshotsAreWhole`: an accepted snapshot comes from one write, for any number of writes
  and starts. `SlotInv` says of the segment the reader maps that its words agree while its
  number is even and that the words stored in a write under way are that write's; and of the
  reader that, as long as the number is the one it loaded first, what it has copied is what
  the segment holds. Numbers only grow, so a number that is met again means that nothing was
  written in between. Outside the parts of the run this is false: TLC finds torn snapshots
  when the copy may sink below the second load (`Sinks`) and when a crashed writer starts
  again on its file, which sets the number back (section 4).
- `DisconnectIsFinal`: once `disconnect()` has returned no client thread runs and no sleeper
  is about to start one, with refused attempts and arbitrarily slow threads.
  `JoinsUnderTheLock`: `reconnect_mtx_` is held exactly by the thread that joins the sleeper.
  The invariant follows `disconnect()` step by step: after its first step nobody wants a
  reconnection, after the join of the sleeper nobody is about to connect, after the join of
  the client there is none.
- `EngagedExactly`: the symbols in `active_symbols_` are those with a position or a pending
  order, for any set of symbols and number of orders, whatever the exchange, other clients, lost
  messages and the kill switch do, but for the symbols in `overtaken`. Its invariant is local to
  the book: no call of the position manager leaves the two apart unless a symbol has both a
  position and a pending order, and only `add_pending_order` can bring that about.
- `KillCancels`: `KillInv` follows the activation. Once the flag is set every order is sent `late`,
  so behind the cancel in `up` only late orders can stand; when the cancel has been taken from `up`
  the orders resting are late, and nothing that comes to rest afterwards was sent before the flag.

**PageFeedsProofs.** `PartInv` again joins one invariant per part.

- `SocketIsSound`: for both parts of `WebSocketClient`, `Ordered` says that the messages on
  the wire, then the queue, are increasing and at most the number sent, and that the queue of
  an open socket is empty; while only timers reconnect, `TimersInv` says that at most the last
  socket lives, that at most one timer is armed and only after that socket has closed, and
  that attempts are counted before the retry they pay for.
- `FeedFollowsServer`: `FeedInv` has three arguments in it. For the book there are books,
  one per broadcast (`BooksFollow`), that the server's book, every message under way and the
  undisturbed page are taken from, so a delta applied to the right book gives the right
  book. For the open orders, the last message under way that speaks about an order says what
  the server has, and if none does the page shows it (`Tells`). For the candles, trimming
  the trimmed map with new candles equals trimming all candles ever received
  (`TrimAbsorbs`, by the rank of a candle among the later ones), and a finite set of times
  has an increasing list (`IncreasingList`: the positions are an injection into as many
  places). What waits in the queue has no timer (`QueueWaits`).
- `AnswersOfThePanel`: the requests in flight, in the slot and on a timer were made by the
  panel they name and carry numbers no larger than it asked for, and to a panel that asked
  with an empty slot and nothing on its way only the answer to its last request comes
  (`ComputeInv`, `ComingAreOwn`); the strategies of a running tournament are partitioned into
  collected and pending, and one that runs without a timer has its leaderboard (`CupInv`).
- `PauseHolds`: the last `replay_state` on its way, or without one the page, has the server's
  flag (`Believes`), and while the server is paused at most one candle was made since, none
  before the sleep that had begun is over.

**PageActionsProofs.** One invariant per part once more.

- `OrdersStayUnderControl`: of the form, `OnlyTheNewestIsOpen` says that only the last order
  of the page can wait for an answer, and that its promise, its timer, the messages about it
  and the flag `submitting` agree; `ResultsAreFinal`, that a verdict shown or on its way is the
  one the exchange gave for that very order. Of the execution bot, `IntervalOfTheRun` says
  that an interval that still has slices to send is the one in the ref, belongs to the run
  under way and has its plan; intervals started for no slices may be left over.
- `WhatIsSavedIsShown`: of the journal, `CopiesAreGood` says that a note that is not `lost` is
  stored as it was saved, that a view's copy of it is the stored one unless the note is `unseen`
  there, and that views that are not on the page have nothing unseen; the keys of the journal panel
  and the histories and of different trades differ (`KeysDiffer`). Of the saved
  backtests, `Shown` says that a tab that no event is under way to shows the stored list, but
  for a write of its own that failed; every action writes a list, fails to, hears of one or
  reads it again (`ListStep`). For one tab `InBothOrGone` adds that a backtest is both stored
  and in the list of the runner, or was deleted, cleared or pushed out by newer ones; with two
  tabs this is false, because each writes back the list it has read (section 4,
  `NoBacktestLost`).
- `NoticesAreExact`: of the price alerts, `Listed` says that the alerts have numbers of their
  own, that the noted or queued ones are the announced ones still listed and that a number is
  announced for one hit only; `Waits`, that the queue holds what the hit under way announced and is
  empty when React has settled; `NoneOverlooked`, that no alert outside the noted and the queued
  ones is hit by the price shown. Of the fills, that no order is reported twice is not inductive, because the
  set of keys is cut: a reported order must stay remembered as long as an entry of it is in
  the list. `ReportedIsRecalled` says so with a bound that survives the cut: the keys
  remembered after its key are those of the entries above it or belong to at most
  `FillCap - 1` other orders, so there are at most 2 * `FillCap` - 2 of them, and a cut to
  `SeenKeep` keys spares it when 2 * `FillCap` - 1 <= `SeenKeep` (`CutRecalls`). This is
  part of `FillsAssumption`; the code has 50 fills and keeps 200 keys of more than 500.
  `CountIsOfItsDay` says that the running count is of the fills of its own day and that its
  day has not been summarised. `PriceAlerts` and `FillNotices` put the places of a list that
  meet a condition in order with `Sorted`, of which the proofs use that such a list exists
  (`IncreasingList`).

**PageViewsProofs.** One invariant per part, for eleven of the fourteen parts
(`PartsAreSound`).

- `ScreenIsCurrent`: of the main chart, `DrawnIsWanted` is inductive together with
  the types and `NoChartLeaks` (`ChartInv`), over pages that an error replaced as well. Of the result charts, `ResultsInv` says that a
  comparison on the screen has its chart, so that every delivery is drawn; that the library
  accepts the points follows from the cleaning (`CleanIsAccepted`): the finite points, one
  per time, in the order of an increasing list, which exists for every finite set of times.
  Of a local backtest (`LocalInv`), that the timer carries the inputs of the click. Of
  the error boundaries, `RetriesCounted`: automatic retries made or armed are at most
  `MaxRetries` for each retry of the user plus the count shown; the bound alone is not
  inductive, because a retry of the user resets the count while a timer may be armed. Of
  the windows, `Owned`: a window is one of this page or was left by an earlier one, never
  both, and `FedWithDrawn`: those of this page show what it last rendered. Of the players,
  `RunsWhile`: the interval is armed exactly while the panel plays and has data, for feeds of
  any length that grow, halve and are replaced. Of the recorder, `RecorderInv`: list and
  storage agree while the panel is there and no write has set them `apart`, recordings fit their caps, and the place shown
  exists in the recording viewed; `NumbersOnce`: a recording's number is given once, so a
  deleted one does not come back, neither in the list nor in storage.
- `WhatIsStoredStays`, two of the four conjuncts of `PastStands`: a stored recording leaves
  the list only by a deletion or out of a full list, and a reload of the sidebar shows it as
  it was, as long as list and storage were written together.

**PanelsProofs.** Each of the 53 panels has a lemma: for every number of candles and every
input in the range its handlers store, every index that the computation and its drawing read
exists, no length it divides by is zero, and with the inputs it starts with it asks for N
candles only below N. Where this holds for some inputs only the lemma says for which, and
these are the exceptions of `LeftEmpty` and `LeftZero`. `InputsAreAccepted` puts the inputs
into those ranges: `InputsInv` says that the two inputs on the screen, and the next whole number
of one with a fraction, are fixed points of the handlers, for which the handlers have to be idempotent and independent of each other
(`StoresTyped`, `StoresApart`); so what a panel uses in place of a decimal is in its range too
(`UsedIsAccepted`). `NothingMissing`, `NothingDividedByZero` and `PlaceholdersAreTrue` follow.
The guards come before integer divisions, strides and transforms, so the lemmas they rest on
are about those: whole blocks and windows end inside the array (`WholeSteps`, `StridesIn`,
`WindowsIn`), butterflies stay in an array padded to a power of two (`FftIn`), a percentile
below 100 exists (`PercentileIn`).

Only model-checked:

- liveness (`ElementsLeave`, `OpenEnds`, `BookFollowsExchange`, `ComesBack`, `LatestRead`,
  `WaitsEnd`), which needs fairness;
- `SeriesSound` and the rest of `PastStands`: the values of indicators, backtests and
  summaries are what folds and recursive functions return for a list, and what those return
  for every list needs induction over the list;
- the properties listed in section 4, which do not hold.

## 6. What is left

In the order of their weight:

1. The order gateway: authentication, rate limit, client-order-id dedup and the retry of a
   client, with at-most-once submission as the abstract specification; sequence gaps and
   resync of the Python client, as `ExchangeFeed` has them for the page.
2. The ring's segment: an owner that re-creates or unlinks it under its peer, as
   `MarketSlot` has it for the snapshots.
3. More of the analysis panels.

## 7. Not modelled

Price paths, strategies, pricing, portfolio and risk numerics are floating-point functions
without protocol state; where a model needs their result it is an arbitrary input. The LLM
engine, persistence, export and audit logging change no trading state. The heartbeat is read
by no trading decision. The C++ signal receiver is a second client of the shape of the order
executor; the C++ risk manager's verdict is an arbitrary choice of `HftBot`. Panels of the
page that format what the feeds deliver keep no state of their own. Deployment, monitoring
and scripts are configuration.
