\* One part of the page after the other, with lost connections, full storage and other tabs.
SPECIFICATION Spec
CONSTANTS
  Lots = 10000
  Prices = {20}
  Balances = {10}
  Leverages = {10}
  Percents = {100}
  Quantities = {0, 20000}
  DefaultBalance = 10
  ServerLeverage = 10
  Visible = 100
  Fields = {"limit"}
  MaxSubmits = 2
  FormActs = 2
  Symbols = {"BTC", "ETH"}
  First = "BTC"
  SliceCounts = {0, 2, 3}
  BotActs = 4
  MaxPrice = 2
  MaxAlerts = 2
  MaxRuns = 2
  MaxToasts = 1
  MaxOthers = 1
  MaxOrders = 4
  MaxBatch = 2
  MaxDays = 2
  FillCap = 2
  SeenCap = 3
  SeenKeep = 3
  Tags = {"good"}
  Window = 2
  Winning = {1}
  Flat = {2}
  MaxTrades = 3
  JournalActs = 7
  Tabs = {"a", "b"}
  TabNames = {"trend"}
  TabRows = 1
  TabTicks = 0
  TabTimers = 0
  Tab = "a"
  Names = {"trend", "fft"}
  MaxRows = 2
  MaxTicks = 2
  MaxTimers = 2
  MaxSaves = 3
  Keep = 2
INVARIANTS NoticesExact SavedIsShown
PROPERTIES OrdersUnderControl WaitsEnd
CHECK_DEADLOCK FALSE
