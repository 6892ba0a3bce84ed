----------------------- MODULE Nl80211InterfaceAdmin -----------------------
(***************************************************************************)
(* Class Nl80211InterfaceAdmin: GetInterfaceList(), _createInterface() and *)
(* DeleteInterface(), each a fixed sequence of Nl80211Base's calls that    *)
(* opens a connection of its own and closes it again on every way out.     *)
(*                                                                         *)
(* The kernel serves a request while it is being sent; its replies wait in *)
(* the socket.  Interfaces also come and go with their radios between any  *)
(* two steps of a call.                                                    *)
(***************************************************************************)
EXTENDS Nl80211Base, FiniteSets

CONSTANTS
  Names,     \* interface names
  MaxIndex,  \* bound: the largest ifindex the kernel gives out
  MaxList    \* bound: a list that may outgrow this is not read again

VARIABLES
  pc,         \* the step the call is at, "idle" between calls
  call,       \* the call being made: [cmd, name], or NoCall
  ifIndex,    \* DeleteInterface's ifIndex
  served,     \* history: has the kernel carried the current request out?
  lost,       \* history: the replies to the current request that no handler gets
  list,       \* m_interfaces, as the sequence of the names appended
  result,     \* what the last call returned
  ifaces,     \* the kernel's interfaces: the ifindex of each name, 0 if none
  nextIndex   \* the ifindex the kernel gives to the next interface

kernelVars == <<ifaces, nextIndex>>
adminVars  == <<pc, call, ifIndex, served, lost, list, result>>
vars       == <<baseVars, adminVars, kernelVars>>

ASSUME NamesAssumption == NULL \notin Names
ASSUME BoundAssumption == MaxIndex \in Nat /\ MaxList \in Nat

NoCall == [cmd |-> "none", name |-> NULL]
GetList == [cmd |-> "get", name |-> NULL]

Goto(l)    == pc' = l
Present    == { n \in Names : ifaces[n] # 0 }
Busy(l)    == pc = l /\ UNCHANGED <<call, ifIndex, list, result>>

Return(b) ==
  /\ result' = b /\ call' = NoCall /\ Goto("idle")
  /\ ifIndex' = 0 /\ served' = FALSE /\ lost' = {}

(***************************************************************************)
(* The three entry points.                                                 *)
(***************************************************************************)
GetInterfaceList ==
  /\ pc = "idle"
  /\ call' = GetList /\ Goto("open")
  /\ UNCHANGED <<baseVars, kernelVars, ifIndex, served, lost, list, result>>

CreateInterface(n) ==
  /\ pc = "idle"
  /\ call' = [cmd |-> "new", name |-> n] /\ Goto("open")
  /\ UNCHANGED <<baseVars, kernelVars, ifIndex, served, lost, list, result>>

\* if_nametoindex() is asked before anything is opened.
DeleteInterface(n) ==
  /\ pc = "idle"
  /\ \/ /\ ifaces[n] # 0
        /\ ifIndex' = ifaces[n] /\ Goto("open")
        /\ call' = [cmd |-> "del", name |-> n]
        /\ UNCHANGED result
     \/ /\ ifaces[n] = 0 /\ result' = FALSE
        /\ UNCHANGED <<pc, call, ifIndex>>
  /\ UNCHANGED <<baseVars, kernelVars, served, lost, list>>

(***************************************************************************)
(* Building the request.                                                   *)
(***************************************************************************)
\* Every later failure ends in Close() and false.
GiveUp == Close /\ Return(FALSE) /\ UNCHANGED <<list, kernelVars>>

OpenStep ==
  /\ Busy("open") /\ OpenPasses
  /\ Goto(IF call = GetList THEN "callback" ELSE "message")
  /\ UNCHANGED <<served, lost, kernelVars>>

\* GetInterfaceList() calls Close() once more, which finds nothing to close.
OpenStepFails ==
  /\ pc = "open" /\ OpenFails
  /\ Return(FALSE) /\ UNCHANGED <<list, kernelVars>>

CallbackStep ==
  /\ Busy("callback") /\ SetupCallback /\ Goto("message")
  /\ UNCHANGED <<served, lost, kernelVars>>

MessageStep ==
  /\ Busy("message") /\ SetupMessage /\ Goto("send")
  /\ UNCHANGED <<served, lost, kernelVars>>

BuildFails ==
  /\ \/ pc = "callback" /\ "callback" \in Faults
     \/ pc = "message" /\ "message" \in Faults
     \/ pc = "send" /\ call # GetList /\ {"parameter", "send"} \cap Faults # {}
  /\ GiveUp

(***************************************************************************)
(* The kernel's side of sending.                                           *)
(***************************************************************************)
Refused == inbox' = <<Refusal>> /\ UNCHANGED <<served, kernelVars>>

Orders(S) == { s \in [1..Cardinality(S) -> S] :
                 \A i, j \in DOMAIN s : i # j => s[i] # s[j] }

\* The interfaces there are, in any order, perhaps with one the code skips.
ServeDump ==
  /\ \E order \in Orders(Present), skipped \in BOOLEAN :
        inbox' = (IF skipped THEN <<Valid(NULL)>> ELSE <<>>)
                   \o [i \in DOMAIN order |-> Valid(order[i])] \o <<Done>>
  /\ served' = TRUE
  /\ UNCHANGED kernelVars

ServeNew ==
  /\ ifaces[call.name] = 0 /\ nextIndex <= MaxIndex
  /\ ifaces' = [ifaces EXCEPT ![call.name] = nextIndex]
  /\ nextIndex' = nextIndex + 1
  /\ inbox' = <<Ack>> /\ served' = TRUE

ServeDel ==
  /\ \E n \in Present : /\ ifaces[n] = ifIndex
                        /\ ifaces' = [ifaces EXCEPT ![n] = 0]
  /\ inbox' = <<Ack>> /\ served' = TRUE
  /\ UNCHANGED nextIndex

\* nl_send_auto() in SendWithRepeatingResponses(): its result is not looked at.
SendDump ==
  /\ Busy("send") /\ call = GetList
  /\ \/ ServeDump /\ UNCHANGED lost
     \/ Refused /\ UNCHANGED lost
     \/ "send" \in Faults /\ lost' = {Done} /\ UNCHANGED <<inbox, served, kernelVars>>
  /\ Goto("receive")
  /\ UNCHANGED <<m_sock, m_cb, m_msg, live, status, errcode>>

\* nl_send_auto() in SendAndFreeMessage().
SendRequest ==
  /\ Busy("send") /\ call # GetList
  /\ \/ call.cmd = "new" /\ ServeNew
     \/ call.cmd = "del" /\ ServeDel
     \/ Refused
  /\ Goto("await")
  /\ UNCHANGED <<m_sock, m_cb, m_msg, live, status, errcode, lost>>

(***************************************************************************)
(* The replies.                                                            *)
(***************************************************************************)
\* One turn of "while (m_cbInfo.status > 0) nl_recvmsgs(...)", which blocks
\* while there is no reply.
Receive ==
  /\ pc = "receive" /\ status > 0 /\ inbox # <<>>
  /\ Handled(Head(inbox))
  /\ inbox' = Tail(inbox)
  /\ list' = IF Head(inbox).name = NULL THEN list ELSE Append(list, Head(inbox).name)
  /\ UNCHANGED <<m_sock, m_cb, m_msg, live, pc, call, ifIndex, served, lost, result,
                 kernelVars>>

\* A turn that fails, which the loop does not notice: what it had read and not
\* yet handled is lost, one reply at a time.  One that reads nothing is a stutter.
ReceiveFails ==
  /\ pc = "receive" /\ status > 0 /\ inbox # <<>> /\ "receive" \in Faults
  /\ lost' = lost \cup {Head(inbox)}
  /\ inbox' = Tail(inbox)
  /\ UNCHANGED <<m_sock, m_cb, m_msg, live, status, errcode, pc, call, ifIndex, served, list,
                 result, kernelVars>>

LoopEnds ==
  /\ pc = "receive" /\ status = 0
  /\ Close /\ Return(errcode = 0)
  /\ UNCHANGED <<list, kernelVars>>

\* Mutant: the result of nl_wait_for_ack() is not looked at.
AwaitAck_AnyReply ==
  /\ pc = "await" /\ inbox # <<>>
  /\ Close /\ Return(TRUE)
  /\ UNCHANGED <<list, kernelVars>>

\* nl_wait_for_ack(), then FreeMessage() and Close().
AwaitAck ==
  /\ pc = "await" /\ inbox # <<>>
  /\ Close
  /\ \/ Return(Head(inbox) = Ack)
     \/ "receive" \in Faults /\ Return(FALSE)
  /\ UNCHANGED <<list, kernelVars>>

(***************************************************************************)
(* The environment, and the specification.                                 *)
(***************************************************************************)
Disappear(n) ==
  /\ n \in Present
  /\ ifaces' = [ifaces EXCEPT ![n] = 0]
  /\ UNCHANGED <<nextIndex, baseVars, adminVars>>

Appear(n) ==
  /\ n \notin Present /\ nextIndex <= MaxIndex
  /\ ifaces' = [ifaces EXCEPT ![n] = nextIndex] /\ nextIndex' = nextIndex + 1
  /\ UNCHANGED <<baseVars, adminVars>>

Init ==
  /\ BaseInit
  /\ pc = "idle" /\ call = NoCall /\ ifIndex = 0 /\ served = FALSE /\ lost = {}
  /\ list = <<>> /\ result = TRUE
  /\ ifaces = [n \in Names |-> 0] /\ nextIndex = 1

Begin ==
  \/ Len(list) + Cardinality(Names) <= MaxList /\ GetInterfaceList
  \/ \E n \in Names : CreateInterface(n) \/ DeleteInterface(n)

Step ==
  \/ OpenStep \/ OpenStepFails \/ CallbackStep \/ MessageStep \/ BuildFails
  \/ SendDump \/ SendRequest \/ Receive \/ ReceiveFails \/ LoopEnds \/ AwaitAck

Environment == \E n \in Names : Disappear(n) \/ Appear(n)

Next == Begin \/ Step \/ Environment

Spec     == Init /\ [][Next]_vars
FairSpec == Spec /\ WF_vars(Step)

(***************************************************************************)
(* Properties.                                                             *)
(***************************************************************************)
Reply == {Done, Ack, Refusal} \cup { Valid(n) : n \in Names \cup {NULL} }

\* Every variable is of its type; an error number is positive, for strerror().
TypeOK ==
  /\ {m_sock, m_cb, m_msg} \subseteq Handles \cup {NULL} /\ live \subseteq Handles
  /\ status \in {0, 1} /\ errcode \in Nat
  /\ inbox \in Seq(Reply)
  /\ pc \in {"idle", "open", "callback", "message", "send", "receive", "await"}
  /\ call \in {NoCall, GetList} \cup [cmd : {"new", "del"}, name : Names]
  /\ ifIndex \in Nat /\ served \in BOOLEAN /\ lost \subseteq Reply
  /\ list \in Seq(Names) /\ result \in BOOLEAN
  /\ ifaces \in [Names -> Nat] /\ nextIndex \in Nat

\* Exactly the objects the three pointers refer to are allocated, and between
\* two calls there are none: no way through a call, whichever of its steps
\* fails, leaks a socket, a callback set or a message, or keeps a pointer to
\* one that was freed.
Held ==
  /\ live = Pointers \ {NULL}
  /\ pc = "idle" => live = {}

\* What the kernel carried out is reported as done, with one exception: an
\* interface was created or deleted, and nl_wait_for_ack() fails on the way to
\* its acknowledgement.  No refusal of an earlier call and nothing in a dump
\* makes a call look as if it had failed.
DoneIsReported ==
  [][pc # "idle" /\ pc' = "idle" /\ served /\ ~result' =>
       pc = "await" /\ "receive" \in Faults]_vars

\* The reply that would end the receive loop was lost, or the request itself.
Unanswered == {Done, Refusal} \cap lost # {}

\* The loop of SendWithRepeatingResponses() waits for a reply that does not come
\* only in this case: it never goes round once more when all that was sent to it
\* was handled, be it a whole dump, what is left of one, or a refusal.
WaitsForLostOnly == pc = "receive" /\ status > 0 /\ inbox = <<>> => Unanswered

\* A call comes back, whatever the kernel answers and whatever else fails.
Returns == (pc # "idle") ~> (pc = "idle" \/ Unanswered)

\* InterfaceManagerNl80211.cpp:32-33, "Init() returns false if: it can't get
\* Interface List from nl80211": a dump always comes back, one way or the other.
ListReturns == (call = GetList) ~> (call # GetList)

\* The interfaces whose replies wait to be read.
NamesIn(s) == { s[i].name : i \in 1..Len(s) } \ {NULL}
Unread == IF pc = "receive" THEN NamesIn(inbox) ELSE {}

\* The calls are such requests as Nl80211Requests describes.
NamesOf(replies) == { r.name : r \in replies } \ {NULL}
Requests == INSTANCE Nl80211Requests
  WITH missing <- Unread,
       lost    <- NamesOf(lost),
       target  <- ifIndex,
       AnyName <- NULL,
       MayLose <- "receive" \in Faults

Promises == Requests!Spec
=============================================================================
