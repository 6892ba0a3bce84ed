CONSTANTS
  NULL = NULL
  Handles = {h1, h2, h3}
  Faults = {"socket", "connect", "callback", "message", "parameter", "send", "receive"}
  Channels = {0, 1, 14, 36}
  Band = {2412, 2467, 2484, 5180}
  MaxSeq = 3
  MaxIndex = 2
CHECK_DEADLOCK FALSE
SPECIFICATION FairSpec
INVARIANTS
  TypeOK
  AsAsked
  LeaksCounted
PROPERTIES
  Returns
