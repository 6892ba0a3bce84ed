------------------------------ MODULE IfIoctls ------------------------------
(***************************************************************************)
(* Class IfIoctls: the flags, the address and the power-save mode of an    *)
(* interface, set by ioctl on a datagram socket that is opened for each    *)
(* request.  Bringing an interface up or down is two requests: the flags   *)
(* are read, one bit is changed, and all of them are written back; between *)
(* the two the interface may go or another program may write its flags.    *)
(***************************************************************************)
EXTENDS Integers

CONSTANTS
  Ifaces,     \* interface names
  Bits,       \* the flags of an interface, "UP" (IFF_UP) among them
  Taken,      \* the descriptors the process has open for other purposes
  MaxFd       \* bound: the largest descriptor (RLIMIT_NOFILE)

ASSUME BitsAssumption  == "UP" \in Bits
ASSUME FdsAssumption   == MaxFd \in Nat /\ Taken \subseteq 0..MaxFd

VARIABLES
  m_fd,     \* the descriptor of the socket, or -1
  sockets,  \* the descriptors of the sockets this class opened and did not close
  flags,    \* the kernel's interfaces: the set of flags of each, or Gone
  pc,       \* "idle", or "set" between GetFlags and SetFlags
  op,       \* "up" or "down"
  iface,    \* the interface being brought up or down
  read,     \* the local variable flags: what GetFlags returned
  result    \* what the last call returned

vars == <<m_fd, sockets, flags, pc, op, iface, read, result>>

Gone   == {"gone"}
NoName == "none"

ASSUME NameAssumption == NoName \notin Ifaces /\ "gone" \notin Bits

Exists(i) == flags[i] # Gone

(***************************************************************************)
(* The socket.                                                             *)
(***************************************************************************)
\* close(m_fd), but only of a descriptor greater than 0.
Closed(fd, set) == IF fd > 0 THEN set \ {fd} ELSE set
ClosedFd(fd)    == IF fd > 0 THEN -1 ELSE fd

\* socket() returns the lowest descriptor that is free, or fails.
Lowest(S) == { x \in S : \A y \in S : x <= y }
Opened(set) ==
  {[fd |-> -1, set |-> set]} \cup
  { [fd |-> x, set |-> set \cup {x}] : x \in Lowest((0..MaxFd) \ (Taken \cup set)) }

\* Mutant: Open() does not close the socket that is still open.
Open_NoClose == Opened(sockets)

\* Open(), which first calls Close(): what m_fd and the sockets may then be.
Open == Opened(Closed(m_fd, sockets))

\* The ioctl that follows ends in Close(), or does not.
ThenClosed(o) == m_fd' = ClosedFd(o.fd) /\ sockets' = Closed(o.fd, o.set)
LeftOpen(o)   == m_fd' = o.fd /\ sockets' = o.set

(***************************************************************************)
(* BringInterfaceUp(), BringInterfaceDown()                                *)
(***************************************************************************)
\* Mutant: the result of the ioctl is not looked at, so that the flags of an
\* interface that does not exist are taken for granted.
GetFlags_Unchecked(i, updown) ==
  /\ pc = "idle"
  /\ \E o \in Open :
        /\ ThenClosed(o)
        /\ \/ /\ o.fd >= 0
              /\ read' = flags[i] /\ iface' = i /\ op' = updown /\ pc' = "set"
              /\ UNCHANGED result
           \/ /\ result' = FALSE
              /\ UNCHANGED <<pc, op, iface, read>>
  /\ UNCHANGED flags

GetFlags(i, updown) ==
  /\ pc = "idle"
  /\ \E o \in Open :
        /\ ThenClosed(o)
        /\ \/ /\ o.fd >= 0 /\ Exists(i)
              /\ read' = flags[i] /\ iface' = i /\ op' = updown /\ pc' = "set"
              /\ UNCHANGED result
           \/ /\ result' = FALSE
              /\ UNCHANGED <<pc, op, iface, read>>
  /\ UNCHANGED flags

\* Mutant: "=" for "|=", which clears every other flag.
NewFlags_Assigned == IF op = "up" THEN {"UP"} ELSE read \ {"UP"}

NewFlags == IF op = "up" THEN read \cup {"UP"} ELSE read \ {"UP"}

SetFlags ==
  /\ pc = "set"
  /\ \E o \in Open :
        /\ ThenClosed(o)
        /\ \/ /\ o.fd >= 0 /\ Exists(iface)
              /\ flags' = [flags EXCEPT ![iface] = NewFlags] /\ result' = TRUE
           \/ UNCHANGED flags /\ result' = FALSE
  /\ pc' = "idle" /\ op' = NoName /\ iface' = NoName /\ read' = {}

(***************************************************************************)
(* SetMacAddress() leaves the flags alone; SetWirelessPowerSaveOff() does  *)
(* not close its socket unless the ioctl fails.                            *)
(***************************************************************************)
SetMacAddress(i) ==
  /\ pc = "idle"
  /\ \E o \in Open :
        /\ ThenClosed(o)
        /\ \/ o.fd >= 0 /\ Exists(i) /\ "UP" \notin flags[i] /\ result' = TRUE
           \/ result' = FALSE
  /\ UNCHANGED <<flags, pc, op, iface, read>>

SetWirelessPowerSaveOff(i) ==
  /\ pc = "idle"
  /\ \E o \in Open :
        \/ o.fd >= 0 /\ Exists(i) /\ LeftOpen(o) /\ result' = TRUE
        \/ ThenClosed(o) /\ result' = FALSE
  /\ UNCHANGED <<flags, pc, op, iface, read>>

(***************************************************************************)
(* The rest of the system.                                                 *)
(***************************************************************************)
Disappear(i) ==
  /\ Exists(i) /\ flags' = [flags EXCEPT ![i] = Gone]
  /\ UNCHANGED <<m_fd, sockets, pc, op, iface, read, result>>

Appear(i) ==
  /\ ~Exists(i) /\ flags' = [flags EXCEPT ![i] = {}]
  /\ UNCHANGED <<m_fd, sockets, pc, op, iface, read, result>>

OtherWrites(i) ==
  /\ Exists(i)
  /\ \E f \in SUBSET Bits : f # flags[i] /\ flags' = [flags EXCEPT ![i] = f]
  /\ UNCHANGED <<m_fd, sockets, pc, op, iface, read, result>>

Init ==
  /\ m_fd = -1 /\ sockets = {}
  /\ flags \in [Ifaces -> (SUBSET Bits) \cup {Gone}]
  /\ pc = "idle" /\ op = NoName /\ iface = NoName /\ read = {} /\ result = TRUE

Environment == \E i \in Ifaces : Disappear(i) \/ Appear(i) \/ OtherWrites(i)

Next ==
  \/ \E i \in Ifaces, o \in {"up", "down"} : GetFlags(i, o)
  \/ SetFlags
  \/ \E i \in Ifaces : SetMacAddress(i) \/ SetWirelessPowerSaveOff(i)
  \/ Environment

Spec == Init /\ [][Next]_vars

(***************************************************************************)
(* Properties.                                                             *)
(***************************************************************************)
\* Every variable is of its type; flags are written back only for an interface
\* whose flags were read.
TypeOK ==
  /\ m_fd \in -1..MaxFd /\ sockets \subseteq 0..MaxFd
  /\ flags \in [Ifaces -> (SUBSET Bits) \cup {Gone}]
  /\ pc \in {"idle", "set"} /\ op \in {"up", "down", NoName}
  /\ pc = "set" => iface \in Ifaces
  /\ read \subseteq Bits /\ result \in BOOLEAN

\* After any sequence of requests, failing or not, the only sockets still open
\* are the one m_fd refers to and, in a process started with descriptor 0
\* closed, which Close() takes for "no socket", one that got this descriptor.
\* And m_fd never refers to a descriptor that is closed or is someone else's.
LeakBounded ==
  /\ sockets \subseteq {0, m_fd} \ Taken
  /\ m_fd # -1 => m_fd \in sockets

\* Started with descriptor 0 open, as programs are, a process leaks nothing.
OneSocket == 0 \in Taken => sockets = {m_fd} \ {-1}

\* Bringing an interface up or down changes IFF_UP of that interface and
\* nothing else, unless someone else wrote its flags between the two requests.
OnlyUpChanges ==
  [][pc = "set" /\ pc' = "idle" =>
       \A i \in Ifaces :
          /\ i # iface => flags'[i] = flags[i]
          /\ Exists(i) /\ flags[iface] = read =>
                flags'[i] \ {"UP"} = flags[i] \ {"UP"}]_vars
=============================================================================
