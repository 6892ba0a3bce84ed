------------------------ MODULE ChannelSetterNl80211 ------------------------
(***************************************************************************)
(* Class ChannelSetterNl80211: tunes the radio of "mon0" over one netlink  *)
(* connection that lives across calls, unlike those of                     *)
(* Nl80211InterfaceAdmin.  So what one call leaves in the connection (a    *)
(* message, a reply nobody read, a sequence number nobody answers) is      *)
(* there when the next one begins; nothing but the next OpenConnection()   *)
(* starts afresh, and CloseConnection() does nothing at all.               *)
(***************************************************************************)
EXTENDS Nl80211Base, FiniteSets

CONSTANTS
  Channels,  \* the channel numbers callers ask for
  Band,      \* the frequencies, in MHz, the radio of mon0 can be tuned to
  MaxSeq,    \* bound: the requests sent over one connection
  MaxIndex   \* bound: the largest ifindex the kernel gives out

ASSUME ChannelsAssumption == Channels \subseteq Nat /\ Band \subseteq Nat
ASSUME BoundsAssumption   == MaxSeq \in Nat /\ MaxIndex \in Nat

VARIABLES
  m_interfaceIndex,  \* the ifindex of mon0 when the connection was opened
  pc,                \* the step SetChannel() is at, "idle" between calls
  channel,           \* its argument
  result,            \* what it returned
  seqNext,           \* libnl: the sequence number of the next request
  seqExpect,         \* libnl: the sequence number of the next reply
  mon,               \* the kernel: the ifindex of mon0, 0 while there is none
  nextIndex,         \* the kernel: the ifindex of the next interface
  tuned,             \* the kernel: the frequency mon0 is tuned to, 0 if none
  served,            \* history: was the last request for a mon0 there is?
  clean,             \* history: nothing sent was lost since the connection was opened
  leaks              \* history: how often a pointer was left or overwritten

socketVars  == <<seqNext, seqExpect>>
kernelVars  == <<mon, nextIndex, tuned>>
historyVars == <<served, clean, leaks>>
callVars    == <<m_interfaceIndex, pc, channel, result>>
vars == <<baseVars, callVars, socketVars, kernelVars, historyVars>>

Goto(l) == pc' = l

(***************************************************************************)
(* Channel numbers and frequencies: the program's way and the kernel's.    *)
(***************************************************************************)
\* Mutant: channel 14 is not the exception.
ChannelToFrequency_No14(c) == IF c <= 14 THEN 2407 + c * 5 ELSE (c + 1000) * 5

ChannelToFrequency(c) ==
  IF c < 14 THEN 2407 + c * 5 ELSE IF c = 14 THEN 2484 ELSE (c + 1000) * 5

\* ieee80211_frequency_to_channel()
KernelChannel(f) ==
  IF f = 2484 THEN 14 ELSE IF f < 2484 THEN (f - 2407) \div 5 ELSE (f - 5000) \div 5

(***************************************************************************)
(* OpenConnection()                                                        *)
(***************************************************************************)
Reopened == IF m_sock = NULL THEN 0 ELSE 1

\* Mutant: "no such interface" is -1, as from many calls.
GetInterfaceIndex_Minus1 == IF mon = 0 THEN -1 ELSE mon

\* GetInterfaceIndex("mon0", ...): 0 if there is no mon0.  What it returns is
\* ignored.
GetInterfaceIndex == mon

OpenConnection ==
  /\ pc = "idle"
  /\ OpenPasses
  /\ m_interfaceIndex' = GetInterfaceIndex
  /\ seqNext' = 1 /\ seqExpect' = 1
  /\ clean' = TRUE /\ served' = FALSE /\ leaks' = leaks + Reopened
  /\ result' = FALSE
  /\ UNCHANGED <<pc, channel, kernelVars>>

OpenConnectionFails ==
  /\ pc = "idle"
  /\ OpenFails
  /\ clean' = FALSE /\ served' = FALSE /\ leaks' = leaks + Reopened
  /\ result' = FALSE
  /\ UNCHANGED <<m_interfaceIndex, pc, channel, socketVars, kernelVars>>

(***************************************************************************)
(* SetChannel(), on an open connection                                     *)
(***************************************************************************)
Return(b) == result' = b /\ Goto("idle")

SetChannel(c) ==
  /\ pc = "idle" /\ m_sock # NULL /\ seqNext <= MaxSeq
  /\ SetupMessage
  /\ channel' = c /\ served' = FALSE /\ result' = FALSE /\ Goto("parameters")
  /\ UNCHANGED <<m_interfaceIndex, socketVars, kernelVars, clean, leaks>>

\* nlmsg_alloc() fails; m_msg is overwritten all the same.
SetChannelFails(c) ==
  /\ pc = "idle" /\ m_sock # NULL /\ "message" \in Faults
  /\ m_msg' = NULL
  /\ channel' = c /\ served' = FALSE /\ result' = FALSE
  /\ UNCHANGED <<m_sock, m_cb, live, status, errcode, inbox,
                 m_interfaceIndex, pc, socketVars, kernelVars, clean, leaks>>

\* The message stays where it is.
ParametersFail ==
  /\ pc = "parameters" /\ "parameter" \in Faults
  /\ Return(FALSE) /\ leaks' = leaks + 1
  /\ UNCHANGED <<baseVars, m_interfaceIndex, channel, socketVars, kernelVars,
                 served, clean>>

\* nl_send_auto() numbers the message and sends it; the kernel answers.
Reply(k) == [kind |-> k, seq |-> seqNext]

KernelTunes ==
  /\ mon # 0 /\ m_interfaceIndex = mon
  /\ ChannelToFrequency(channel) \in Band
  /\ tuned' = ChannelToFrequency(channel)
  /\ inbox' = Append(inbox, Reply("ack"))

KernelRefuses ==
  /\ \/ mon = 0 \/ m_interfaceIndex # mon
     \/ ChannelToFrequency(channel) \notin Band
  /\ inbox' = Append(inbox, Reply("error"))
  /\ UNCHANGED tuned

Send ==
  /\ pc = "parameters"
  /\ KernelTunes \/ KernelRefuses
  /\ served' = (mon # 0 /\ m_interfaceIndex = mon)
  /\ seqNext' = seqNext + 1 /\ Goto("ack")
  /\ UNCHANGED <<m_sock, m_cb, m_msg, live, status, errcode, m_interfaceIndex, channel,
                 result, seqExpect, mon, nextIndex, clean, leaks>>

\* Mutant: the result of nl_send_auto() is not looked at, as in
\* SendWithRepeatingResponses().
SendFails_Unnoticed ==
  /\ pc = "parameters" /\ "send" \in Faults
  /\ seqNext' = seqNext + 1 /\ clean' = FALSE /\ Goto("ack")
  /\ UNCHANGED <<baseVars, m_interfaceIndex, channel, result, seqExpect, kernelVars,
                 served, leaks>>

\* The message was numbered, and its number will never be answered.
SendFails ==
  /\ pc = "parameters" /\ "send" \in Faults
  /\ FreeMessage /\ Return(FALSE)
  /\ seqNext' = seqNext + 1 /\ clean' = FALSE
  /\ UNCHANGED <<m_interfaceIndex, channel, seqExpect, kernelVars, served, leaks>>

\* nl_wait_for_ack() reads one reply; one with another number than it expects
\* is an error, and it goes on expecting the same.
InTurn == Head(inbox).seq = seqExpect

\* Mutant: the message is not freed when the kernel reports an error.
WaitForAck_KeepsMessage ==
  /\ pc = "ack" /\ inbox # <<>>
  /\ inbox' = Tail(inbox)
  /\ seqExpect' = IF InTurn THEN seqExpect + 1 ELSE seqExpect
  /\ Return(InTurn /\ Head(inbox).kind = "ack")
  /\ IF result' THEN m_msg' = NULL /\ live' = live \ {m_msg}
                ELSE UNCHANGED <<m_msg, live>>
  /\ UNCHANGED <<m_sock, m_cb, status, errcode, m_interfaceIndex, channel, seqNext,
                 kernelVars, historyVars>>

WaitForAck ==
  /\ pc = "ack" /\ inbox # <<>>
  /\ inbox' = Tail(inbox)
  /\ seqExpect' = IF InTurn THEN seqExpect + 1 ELSE seqExpect
  /\ Return(InTurn /\ Head(inbox).kind = "ack")
  /\ m_msg' = NULL /\ live' = live \ {m_msg}
  /\ UNCHANGED <<m_sock, m_cb, status, errcode, m_interfaceIndex, channel, seqNext,
                 kernelVars, historyVars>>

\* It fails before it has read the reply, which stays for the next call; or
\* because the kernel could not queue it, and it is lost.
WaitFails ==
  /\ pc = "ack" /\ inbox # <<>> /\ "receive" \in Faults
  /\ \/ UNCHANGED inbox
     \/ inbox' = SubSeq(inbox, 1, Len(inbox) - 1)
  /\ m_msg' = NULL /\ live' = live \ {m_msg}
  /\ Return(FALSE) /\ clean' = FALSE
  /\ UNCHANGED <<m_sock, m_cb, status, errcode, m_interfaceIndex, channel, socketVars,
                 kernelVars, served, leaks>>

(***************************************************************************)
(* The environment, and the specification                                  *)
(***************************************************************************)
Disappear ==
  /\ mon # 0
  /\ mon' = 0 /\ tuned' = 0
  /\ UNCHANGED <<nextIndex, baseVars, callVars, socketVars, historyVars>>

Appear ==
  /\ mon = 0 /\ nextIndex <= MaxIndex
  /\ mon' = nextIndex /\ nextIndex' = nextIndex + 1 /\ tuned' = 0
  /\ UNCHANGED <<baseVars, callVars, socketVars, historyVars>>

Init ==
  /\ BaseInit
  /\ m_interfaceIndex = 0 /\ pc = "idle" /\ channel = 0 /\ result = FALSE
  /\ seqNext = 1 /\ seqExpect = 1
  /\ mon = 1 /\ nextIndex = 2 /\ tuned = 0
  /\ served = FALSE /\ clean = FALSE /\ leaks = 0

Step == ParametersFail \/ Send \/ SendFails \/ WaitForAck \/ WaitFails

Next ==
  \/ OpenConnection \/ OpenConnectionFails
  \/ \E c \in Channels : SetChannel(c) \/ SetChannelFails(c)
  \/ Step
  \/ Disappear \/ Appear

Spec     == Init /\ [][Next]_vars
FairSpec == Spec /\ WF_vars(Step)

(***************************************************************************)
(* Properties                                                              *)
(***************************************************************************)
Supported(c) == \E f \in Band : KernelChannel(f) = c

Replies == [kind : {"ack", "error"}, seq : 1..MaxSeq]

\* Every variable is of its type.
TypeOK ==
  /\ {m_sock, m_cb, m_msg} \subseteq Handles \cup {NULL} /\ live \subseteq Handles
  /\ inbox \in Seq(Replies)
  /\ pc \in {"idle", "parameters", "ack"} /\ channel \in Channels \cup {0}
  /\ m_interfaceIndex \in Nat /\ mon \in Nat /\ nextIndex \in Nat
  /\ tuned \in Band \cup {0}
  /\ seqNext \in 1..(MaxSeq + 1) /\ seqExpect \in 1..seqNext
  /\ result \in BOOLEAN /\ served \in BOOLEAN /\ clean \in BOOLEAN /\ leaks \in Nat

\* As long as nothing sent over the connection was lost, also after calls that
\* were given up half-way, SetChannel() returns true exactly for the channels
\* the radio has, asked of the mon0 the connection was opened for, and that
\* mon0 is then tuned to the channel.
AsAsked ==
  clean /\ pc = "idle" =>
    /\ result <=> served /\ Supported(channel)
    /\ result /\ mon = m_interfaceIndex => KernelChannel(tuned) = channel

\* Nothing leaks but the messages of the calls that could not add a parameter
\* and the sockets of connections that were opened again.
LeaksCounted == pc = "idle" => Cardinality(live \ {m_sock}) <= leaks

\* SetChannel() always comes back.
Returns == (pc # "idle") ~> (pc = "idle")

\* Nl80211Base.cpp:279-281, "SetChannel() [...] will call this method to Send
\* m_msg to nl80211, checks for error returned from nl80211": an answer that was
\* read is the answer to this call.
AnswersItsCall == [][WaitForAck => (result' <=> served /\ Supported(channel))]_vars
=============================================================================
