CONSTANTS
  NULL = NULL
  Names = {"w0"}
  Handles = {h1, h2, h3}
  Faults = {"send"}
  MaxIndex = 1
  MaxList = 2
CHECK_DEADLOCK FALSE
SPECIFICATION FairSpec
PROPERTIES
  ListReturns
