CONSTANTS
  BaseNames = {"wlan0", "wlan1"}
  UniqueMac = FALSE
  Tails = {"t1"}
  FaultyRuns = 2
  MaxRuns = 3
  MaxPhy = 1
  MaxLost = 2
SPECIFICATION FairSpec
CHECK_DEADLOCK FALSE
INVARIANTS
  ReadyForHostapd
  EveryRadioListed
  OnlySetupRemains
  SteadyInv
PROPERTIES
  BlackoutOnlyAtRestart
  DeletesOnlyItsPhy
  TouchesNothing
  GivesUpForCause
  Recovers
