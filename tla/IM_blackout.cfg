CONSTANTS
  BaseNames = {"wlan0", "wlan1"}
  UniqueMac = FALSE
  Tails = {"t1"}
  FaultyRuns = 1
  MaxRuns = 2
  MaxPhy = 1
  MaxLost = 1
SPECIFICATION Spec
CHECK_DEADLOCK FALSE
PROPERTIES
  NoTiBlackout
