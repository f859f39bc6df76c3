\* One part of the page after the other, against servers and connections that fail.
SPECIFICATION Spec
CONSTANTS
  MaxReconnects = 3
  QueueCap = 2
  MaxSockets = 6
  MaxSends = 3
  EventsQueue = 1
  EventsSockets = 3
  EventsSends = 2
  Levels = {1}
  Quantities = {0, 1}
  Cids = {"c1"}
  CandleCap = 2
  FillCap = 1
  MaxSeq = 3
  MaxDrops = 1
  Panels = {"Hawkes", "Stress"}
  MaxRequests = 3
  Strategies = {"trend", "fft"}
  MaxRounds = 2
  MaxOther = 1
  MaxToggles = 1
  MaxCandles = 3
  MaxClicks = 3
INVARIANTS SocketSound FeedAgrees AnswersAreOwn PauseIsTrue
PROPERTY WaitsEnd
CHECK_DEADLOCK FALSE
