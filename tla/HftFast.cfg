\* A fill before add_pending_order.
SPECIFICATION LiveSpec
CONSTANTS
  Symbols = {s1}
  MissLimit = 2
  FastFills = TRUE
  Units = {1}
  MaxOthers = 0
  MaxOrders = 1
  MaxDrops = 0
  Kills = FALSE
PROPERTY PositionsBooked
CHECK_DEADLOCK FALSE
