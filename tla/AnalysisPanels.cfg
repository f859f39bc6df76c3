\* Every analysis panel; candle counts around all guards and slices, inputs
\* below, inside and above the accepted ranges.
SPECIFICATION Spec
CONSTANTS
  MaxCandles = 220
  Typed = {0, 1, 2, 3, 12, 40, 64, 300}
INVARIANTS  NoZeroDivisor PlaceholderIsTrue
CHECK_DEADLOCK FALSE
