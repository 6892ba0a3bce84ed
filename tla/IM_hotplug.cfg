CONSTANTS
  BaseNames = {"wlan0", "wlan1"}
  UniqueMac = FALSE
  Tails = {"t1"}
  FaultyRuns = 1
  MaxRuns = 2
  MaxPhy = 3
  MaxLost = 5
SPECIFICATION HotplugSpec
CHECK_DEADLOCK FALSE
INVARIANTS
  TypeOK
  SetupOnItsRadio
  IndInv
PROPERTIES
  SetupNeverDeleted
