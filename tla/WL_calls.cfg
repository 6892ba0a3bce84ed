CONSTANTS
  Aps = {1, 2, 3}
  Report <- MCReport
  ScanLen = 1
  LengthMod = 16
  IntMod = 32
  Names = {"wlan0", "mon0"}
  MaxIndex = 2
  Faults = {"ioctl", "malloc", "realloc", "cell", "extract", "socket", "message", "send", "callback", "receive"}
SPECIFICATION FairSpec
INVARIANTS
  TypeOK
  CollectsOneResult
  NothingHeld
  AnsweredRight
PROPERTIES
  GivesUpOnHugeOnly
  ScanContract
  Returns
