CONSTANTS
  Ifaces = {"sta0", "ap0"}
  Bits = {"UP", "PROMISC", "MULTICAST"}
  Taken = {1, 2}
  MaxFd = 5
SPECIFICATION Spec
INVARIANTS
  TypeOK
  LeakBounded
PROPERTIES
  OnlyUpChanges
