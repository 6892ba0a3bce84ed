CONSTANTS
  NULL = NULL
  Handles = {h1, h2, h3}
  Faults = {"send"}
  Channels = {1, 14}
  Band = {2412, 2484}
  MaxSeq = 3
  MaxIndex = 1
CHECK_DEADLOCK FALSE
SPECIFICATION Spec
PROPERTIES
  AnswersItsCall
