CONSTANTS
  Wlans = {"wlan0", "mon0"}
  Routes = {"r1", "r2"}
  Tables <- MCTables
  Chunk = 2
  FaultSets <- MCFaultSets
  Pow <- MCPow
  MaxExp = 6
  Plain = 4
  Digits = 2
  Confs <- MCConfs
  Values <- MCValues
  ClassMask = 9
  Channels <- MCChannels
  Garbage = {0, 1000}
  Results <- MCResults
  MaxTries = 2
  MaxOthers = 1
SPECIFICATION FairSpec
INVARIANTS
  MainTypeOK
  CollectsTable
  LeaksKnown
  KeepsSettings
  ChannelShown
  FreshResult
PROPERTIES
  Terminates
CHECK_DEADLOCK FALSE
