\* The C++ bot's book, connection and market data, each with its own faults.
SPECIFICATION Spec
CONSTANTS
  Symbols = {s1, s2}
  Symbol = s1
  MissLimit = 2
  MaxDelay = 2
  BookOrders = 2
  DropOrders = 1
  KillOrders = 2
  MaxDrops = 1
  MaxOthers = 1
  LongWrites = 5
  ShortWrites = 4
  MaxStarts = 3
INVARIANTS EngagedIffActive KillCancelsEarlier DownStaysDown NotTorn
PROPERTIES BookFollowsExchange ComesBack LatestRead
CHECK_DEADLOCK FALSE
