--------------------------- MODULE IfIoctlsProofs ---------------------------
(***************************************************************************)
(* Proofs about IfIoctls: the descriptors and the flags of interfaces, for *)
(* any set of either and whatever other programs do to them.               *)
(***************************************************************************)
EXTENDS IfIoctls, TLAPS

USE FdsAssumption

\* m_fd is -1 or the descriptor of an open socket, and only descriptor 0 is
\* ever left behind.
FdInv == /\ m_fd \in -1..MaxFd
         /\ sockets \subseteq {0, m_fd} \ ({-1} \cup Taken)
         /\ m_fd # -1 => m_fd \in sockets

\* Whatever Open() makes of the descriptors, closed or left open, they fit.
LEMMA OpenFits ==
  ASSUME NEW o \in Open, FdInv, ThenClosed(o) \/ LeftOpen(o)
  PROVE  FdInv'
<1>1. Closed(m_fd, sockets) \subseteq {0} \ Taken
  BY DEF FdInv, Closed
<1>2. /\ o.fd \in -1..MaxFd /\ o.set \subseteq {0, o.fd} \ ({-1} \cup Taken)
      /\ o.fd # -1 => o.fd \in o.set
  BY <1>1 DEF Open, Opened, Lowest
<1>3. CASE LeftOpen(o)
  BY <1>2, <1>3 DEF LeftOpen, FdInv
<1>4. CASE ThenClosed(o) /\ o.fd > 0
  BY <1>2, <1>4 DEF ThenClosed, ClosedFd, Closed, FdInv
<1>5. CASE ThenClosed(o) /\ ~(o.fd > 0)
  BY <1>2, <1>5 DEF ThenClosed, ClosedFd, Closed, FdInv
<1> QED
  BY <1>3, <1>4, <1>5

\* Every step opens a socket for its request, or leaves the descriptors alone.
LEMMA Steps ==
  ASSUME [Next]_vars
  PROVE  \/ UNCHANGED <<m_fd, sockets>>
         \/ \E o \in Open : ThenClosed(o) \/ LeftOpen(o)
  BY DEF Next, GetFlags, SetFlags, SetMacAddress, SetWirelessPowerSaveOff, Environment,
         Disappear, Appear, OtherWrites, vars

LEMMA FdInvariant == Spec => []FdInv
<1>1. Init => FdInv
  BY DEF Init, FdInv
<1>2. FdInv /\ [Next]_vars => FdInv'
  <2> SUFFICES ASSUME FdInv, [Next]_vars PROVE FdInv'
    OBVIOUS
  <2>1. CASE UNCHANGED <<m_fd, sockets>>
    BY <2>1 DEF FdInv
  <2>2. CASE \E o \in Open : ThenClosed(o) \/ LeftOpen(o)
    BY <2>2, OpenFits
  <2> QED
    BY <2>1, <2>2, Steps
<1> QED
  BY <1>1, <1>2, PTL DEF Spec

\* No sequence of calls loses a descriptor other than 0, or leaves m_fd behind
\* one that is closed, for any limit on descriptors.
THEOREM LeaksDescriptorZeroAtMost == Spec => []LeakBounded
<1>1. FdInv => LeakBounded
  BY DEF FdInv, LeakBounded
<1> QED
  BY <1>1, FdInvariant, PTL

\* Started with descriptor 0 open, as programs are, it loses none at all.
THEOREM OneSocketAtMost == Spec => []OneSocket
<1>1. FdInv => OneSocket
  BY DEF FdInv, OneSocket
<1> QED
  BY <1>1, FdInvariant, PTL

(***************************************************************************)
(* The flags.                                                              *)
(***************************************************************************)
USE BitsAssumption, NameAssumption

\* What the flags need of TypeOK: the descriptors are above.
FlagsType ==
  /\ flags \in [Ifaces -> (SUBSET Bits) \cup {Gone}]
  /\ pc \in {"idle", "set"} /\ op \in {"up", "down", NoName}
  /\ pc = "set" => iface \in Ifaces
  /\ read \subseteq Bits /\ result \in BOOLEAN

LEMMA FlagsTyped == FlagsType /\ [Next]_vars => FlagsType'
<1> SUFFICES ASSUME FlagsType, [Next]_vars PROVE FlagsType'
  OBVIOUS
<1> USE DEF FlagsType
<1>1. ASSUME NEW i \in Ifaces, NEW o \in {"up", "down"}, GetFlags(i, o) PROVE FlagsType'
  BY <1>1 DEF GetFlags, Exists
<1>2. CASE SetFlags
  <2>1. NewFlags \subseteq Bits
    BY DEF NewFlags
  <2> QED
    BY <1>2, <2>1 DEF SetFlags
<1>3. ASSUME NEW i \in Ifaces, SetMacAddress(i) \/ SetWirelessPowerSaveOff(i)
      PROVE  FlagsType'
  BY <1>3 DEF SetMacAddress, SetWirelessPowerSaveOff
<1>4. ASSUME NEW i \in Ifaces, Disappear(i) \/ Appear(i) \/ OtherWrites(i)
      PROVE  FlagsType'
  BY <1>4 DEF Disappear, Appear, OtherWrites
<1>5. CASE UNCHANGED vars
  BY <1>5 DEF vars
<1> QED
  BY <1>1, <1>2, <1>3, <1>4, <1>5 DEF Next, Environment

LEMMA FlagsTypeInvariant == Spec => []FlagsType
<1>1. Init => FlagsType
  BY DEF Init, FlagsType
<1> QED
  BY <1>1, FlagsTyped, PTL DEF Spec

\* Every variable keeps its type; the interface whose flags are about to be
\* written back is one whose flags were read.
THEOREM TypeCorrectness == Spec => []TypeOK
<1>1. FdInv /\ FlagsType => TypeOK
  BY DEF FdInv, FlagsType, TypeOK
<1> QED
  BY <1>1, FdInvariant, FlagsTypeInvariant, PTL

\* Bringing an interface up or down changes IFF_UP of that interface alone,
\* unless someone wrote its flags between the two requests.
THEOREM OnlyUpIsChanged == Spec => OnlyUpChanges
<1> DEFINE Changed ==
      pc = "set" /\ pc' = "idle" =>
        \A i \in Ifaces :
           /\ i # iface => flags'[i] = flags[i]
           /\ Exists(i) /\ flags[iface] = read =>
                 flags'[i] \ {"UP"} = flags[i] \ {"UP"}
<1>1. FlagsType /\ [Next]_vars => [Changed]_vars
  <2> SUFFICES ASSUME FlagsType, Next, pc = "set", pc' = "idle", NEW i \in Ifaces
               PROVE  /\ i # iface => flags'[i] = flags[i]
                      /\ flags[iface] = read => flags'[i] \ {"UP"} = flags[i] \ {"UP"}
    BY DEF vars
  <2>1. SetFlags
    BY DEF Next, GetFlags, SetMacAddress, SetWirelessPowerSaveOff, Environment,
           Disappear, Appear, OtherWrites
  <2>2. flags' = flags \/ flags' = [flags EXCEPT ![iface] = NewFlags]
    BY <2>1 DEF SetFlags
  <2>3. NewFlags \ {"UP"} = read \ {"UP"}
    BY DEF NewFlags
  <2> QED
    BY <2>2, <2>3 DEF FlagsType
<1> QED
  BY <1>1, FlagsTypeInvariant, PTL DEF Spec, OnlyUpChanges
=============================================================================
