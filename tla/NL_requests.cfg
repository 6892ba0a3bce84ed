CONSTANTS
  NULL = NULL
  Names = {"w0", "w1"}
  Handles = {h1, h2, h3}
  Faults = {"socket", "connect", "callback", "message", "parameter", "send", "receive"}
  MaxIndex = 3
  MaxList = 4
CHECK_DEADLOCK FALSE
SPECIFICATION FairSpec
INVARIANTS
  TypeOK
  Held
  WaitsForLostOnly
PROPERTIES
  Promises
  DoneIsReported
  Returns
