\* One part of the page after the other, against a feed that goes on.
SPECIFICATION Spec
CONSTANTS
  Symbols = {"BTC", "ETH"}
  First = "BTC"
  Lines = {"ema9", "bb"}
  Customs = {"c1", "c2"}
  MaxCandles = 2
  Curves = {"trend", "fft"}
  Times = {1, 2}
  MaxPoints = 3
  MaxEdits = 3
  MaxRetries = 3
  DisableAfter = 3
  MaxClicks = 6
  MaxChanges = 4
  Panels = {"p1", "p2", "adv"}
  Advanced = {"adv"}
  Categories = {"c1", "c2"}
  Category <- SomeCategory
  WindowPanels = {"chart", "orderbook"}
  MaxData = 2
  MaxActs = 5
  Cap = 3
  MinFrames = 2
  MaxEvents = 4
  FeedPeriod = 2
  Steps = {1, 3}
  ReplayClicks = 3
  NAccounts = 1
  Levels = {1}
  MaxTrades = 0
  MaxSaved = 2
  LibrarySnaps = 2
  LibraryIds = 3
  ImportSnaps = 1
  ImportIds = 2
INVARIANTS DrawnIsCurrent SeriesSound
PROPERTIES PastStands WaitsEnd
CHECK_DEADLOCK FALSE
