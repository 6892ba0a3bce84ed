---------------------------- MODULE Nl80211Base ----------------------------
(***************************************************************************)
(* Class Nl80211Base: a netlink socket, a callback set and a message, kept *)
(* in three raw pointers, and the reading of the kernel's replies.  The    *)
(* classes derived from it string its calls together; see                  *)
(* Nl80211InterfaceAdmin.                                                  *)
(***************************************************************************)
EXTENDS Integers, Sequences

CONSTANTS
  Handles,  \* the objects libnl can allocate
  NULL,     \* nullptr
  Faults    \* the calls that may fail: a subset of AllFaults

AllFaults == {"socket", "connect", "callback", "message", "parameter", "send", "receive"}

ASSUME HandlesAssumption == NULL \notin Handles
ASSUME FaultsAssumption  == Faults \subseteq AllFaults

VARIABLES
  m_sock, m_cb, m_msg,  \* the three pointers
  live,                 \* libnl's heap: the objects allocated and not freed
  status, errcode,      \* m_cbInfo
  inbox                 \* the replies waiting in the socket's receive queue

baseVars == <<m_sock, m_cb, m_msg, live, status, errcode, inbox>>

Pointers == {m_sock, m_cb, m_msg}

\* nl_socket_alloc, nl_cb_alloc, nlmsg_alloc: a pointer to a new object.  What
\* the pointer referred to before is not freed.
Allocated(pointer) == pointer \in Handles \ live /\ live' = live \cup {pointer}

\* nlmsg_free(m_msg), if there is one.
FreeMessage ==
  /\ m_msg' = NULL /\ live' = live \ {m_msg}
  /\ UNCHANGED <<m_sock, m_cb, status, errcode, inbox>>

\* Mutant: the callback set is left to the destructor, which there is not.
Close_KeepsCallback ==
  /\ m_sock' = NULL /\ m_msg' = NULL
  /\ live' = live \ {m_sock, m_msg}
  /\ inbox' = <<>>
  /\ UNCHANGED <<m_cb, status, errcode>>

\* Close(): the replies still in the queue go with the socket.
Close ==
  /\ m_sock' = NULL /\ m_cb' = NULL /\ m_msg' = NULL
  /\ live' = live \ Pointers
  /\ inbox' = <<>>
  /\ UNCHANGED <<status, errcode>>

\* Open(): a socket, connected, on which the nl80211 family was resolved.
OpenPasses ==
  /\ \E h \in Handles : m_sock' = h /\ Allocated(h)
  /\ inbox' = <<>>
  /\ UNCHANGED <<m_cb, m_msg, status, errcode>>

\* No socket; or it cannot be connected, or there is no nl80211, and Close()
\* frees the new one.  A socket m_sock referred to before is overwritten first.
OpenFails ==
  \/ /\ "socket" \in Faults
     /\ m_sock' = NULL
     /\ UNCHANGED <<m_cb, m_msg, live, status, errcode, inbox>>
  \/ /\ "connect" \in Faults
     /\ m_sock' = NULL /\ m_cb' = NULL /\ m_msg' = NULL
     /\ live' = live \ {m_cb, m_msg} /\ inbox' = <<>>
     /\ UNCHANGED <<status, errcode>>

\* Mutant: the error of an earlier list is not reset.
SetupCallback_StaleError ==
  /\ \E h \in Handles : m_cb' = h /\ Allocated(h)
  /\ status' = 1
  /\ UNCHANGED <<m_sock, m_msg, errcode, inbox>>

SetupCallback ==
  /\ \E h \in Handles : m_cb' = h /\ Allocated(h)
  /\ status' = 1 /\ errcode' = 0
  /\ UNCHANGED <<m_sock, m_msg, inbox>>

SetupMessage ==
  /\ \E h \in Handles : m_msg' = h /\ Allocated(h)
  /\ UNCHANGED <<m_sock, m_cb, status, errcode, inbox>>

(***************************************************************************)
(* The replies.  A "valid" reply carries one interface of a dump (no name  *)
(* when the attributes the code wants are not all there), "done" ends the  *)
(* dump, "ack" and "error" answer a request.                               *)
(***************************************************************************)
Valid(n) == [kind |-> "valid", name |-> n]
Done     == [kind |-> "done",  name |-> NULL]
Ack      == [kind |-> "ack",   name |-> NULL]
Refusal  == [kind |-> "error", name |-> NULL]

\* Mutants: error_handler() keeps the sign of err->error; or leaves the loop
\* of SendWithRepeatingResponses() running.
Handled_Negative(r) ==
  /\ status'  = IF r.kind = "valid" THEN status ELSE 0
  /\ errcode' = IF r.kind = "error" THEN -1 ELSE errcode
Handled_GoesOn(r) ==
  /\ status'  = IF r.kind \in {"valid", "error"} THEN status ELSE 0
  /\ errcode' = IF r.kind = "error" THEN 1 ELSE errcode

\* Mutant: finish_handler() is not set.
Handled_NoFinish(r) ==
  /\ status'  = IF r.kind \in {"valid", "done"} THEN status ELSE 0
  /\ errcode' = IF r.kind = "error" THEN 1 ELSE errcode

\* What the handlers note of a reply in m_cbInfo.
Handled(r) ==
  /\ status'  = IF r.kind = "valid" THEN status ELSE 0
  /\ errcode' = IF r.kind = "error" THEN 1 ELSE errcode

BaseInit ==
  /\ m_sock = NULL /\ m_cb = NULL /\ m_msg = NULL /\ live = {}
  /\ status = 0 /\ errcode = 0 /\ inbox = <<>>
=============================================================================
