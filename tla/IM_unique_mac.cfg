CONSTANTS
  BaseNames = {"wlan0", "wlan1"}
  UniqueMac = TRUE
  Tails = {"t1", "t2"}
  FaultyRuns = 0
  MaxRuns = 1
  MaxPhy = 1
  MaxLost = 1
SPECIFICATION FairSpec
CHECK_DEADLOCK FALSE
PROPERTIES
  FirstRunSucceeds
