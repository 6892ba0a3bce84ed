--------------------- MODULE ChannelSetterNl80211Proofs ---------------------
(***************************************************************************)
(* Proofs about ChannelSetterNl80211, for any channels, any band, any      *)
(* number of requests and of interfaces, and whichever calls fail: the     *)
(* types, the leaks, and that true is the truth until something is lost.   *)
(***************************************************************************)
EXTENDS ChannelSetterNl80211, SequenceTheorems, FiniteSetTheorems, TLAPS

USE HandlesAssumption, ChannelsAssumption, BoundsAssumption

(***************************************************************************)
(* Types.  A reply has the number of a request that was sent, and a call   *)
(* begins with a number left for it.                                       *)
(***************************************************************************)
Flags == result \in BOOLEAN /\ served \in BOOLEAN /\ clean \in BOOLEAN

Typed ==
  /\ {m_sock, m_cb, m_msg} \subseteq Handles \cup {NULL} /\ live \subseteq Handles
  /\ inbox \in Seq(Replies)
  /\ pc \in {"idle", "parameters", "ack"} /\ channel \in Channels \cup {0}
  /\ m_interfaceIndex \in Nat /\ mon \in Nat /\ nextIndex \in Nat
  /\ tuned \in Band \cup {0}
  /\ seqNext \in 1..(MaxSeq + 1) /\ seqExpect \in 1..seqNext
  /\ leaks \in Nat
  /\ \A k \in 1..Len(inbox) : inbox[k].seq < seqNext
  /\ pc = "parameters" => seqNext <= MaxSeq

LEMMA Prefix ==
  ASSUME NEW S, NEW s \in Seq(S), NEW n \in 0..Len(s)
  PROVE  /\ SubSeq(s, 1, n) \in Seq(S) /\ Len(SubSeq(s, 1, n)) = n
         /\ \A k \in 1..n : SubSeq(s, 1, n)[k] = s[k]
<1>1. SubSeq(s, 1, n) \in Seq(S)
  OBVIOUS
<1>2. Len(SubSeq(s, 1, n)) = n
  OBVIOUS
<1>3. \A k \in 1..n : SubSeq(s, 1, n)[k] = s[k]
  OBVIOUS
<1> QED
  BY <1>1, <1>2, <1>3

\* What is left of the queue when a reply was read, or lost.
LEMMA ShorterInbox ==
  ASSUME NEW s \in Seq(Replies), s # <<>>, NEW n \in Int,
         \A k \in 1..Len(s) : s[k].seq < n
  PROVE  /\ Head(s) \in Replies /\ Head(s).seq < n
         /\ Tail(s) \in Seq(Replies)
         /\ \A k \in 1..Len(Tail(s)) : Tail(s)[k].seq < n
         /\ SubSeq(s, 1, Len(s) - 1) \in Seq(Replies)
         /\ \A k \in 1..Len(SubSeq(s, 1, Len(s) - 1)) :
               SubSeq(s, 1, Len(s) - 1)[k].seq < n
<1>1. Len(s) \in Nat \ {0} /\ Head(s) = s[1] /\ 1 \in 1..Len(s) /\ s[1] \in Replies
  OBVIOUS
<1>2. /\ Tail(s) \in Seq(Replies) /\ Len(Tail(s)) = Len(s) - 1
      /\ \A k \in 1..Len(s) - 1 : Tail(s)[k] = s[k + 1]
  OBVIOUS
<1>3. /\ SubSeq(s, 1, Len(s) - 1) \in Seq(Replies)
      /\ Len(SubSeq(s, 1, Len(s) - 1)) = Len(s) - 1
      /\ \A k \in 1..Len(s) - 1 : SubSeq(s, 1, Len(s) - 1)[k] = s[k]
  <2>1. Len(s) - 1 \in 0..Len(s)
    BY <1>1
  <2> QED
    BY <2>1, Prefix
<1> QED
  BY <1>1, <1>2, <1>3

\* So of a queue with one reply more.
LEMMA LongerInbox ==
  ASSUME NEW s \in Seq(Replies), NEW n \in 1..MaxSeq, NEW r \in Replies, r.seq = n,
         \A k \in 1..Len(s) : s[k].seq < n
  PROVE  /\ Append(s, r) \in Seq(Replies)
         /\ \A k \in 1..Len(Append(s, r)) : Append(s, r)[k].seq < n + 1
<1>1. /\ Append(s, r) \in Seq(Replies) /\ Len(Append(s, r)) = Len(s) + 1
      /\ Append(s, r)[Len(s) + 1] = r
      /\ \A k \in 1..Len(s) : Append(s, r)[k] = s[k]
  OBVIOUS
<1>2. \A k \in 1..Len(s) : s[k].seq \in Int
  <2> TAKE k \in 1..Len(s)
  <2>1. s[k] \in Replies
    OBVIOUS
  <2> QED
    BY <2>1 DEF Replies
<1> QED
  BY <1>1, <1>2

LEMMA InitFlags == Init => Flags
  BY DEF Init, Flags

LEMMA StepFlags == Flags /\ [Next]_vars => Flags'
<1> SUFFICES ASSUME Flags, [Next]_vars PROVE Flags'
  OBVIOUS
<1> USE DEF Flags, Return, historyVars
<1>1. CASE OpenConnection
  BY <1>1 DEF OpenConnection
<1>2. CASE OpenConnectionFails
  BY <1>2 DEF OpenConnectionFails
<1>3. ASSUME NEW c \in Channels, SetChannel(c) PROVE Flags'
  BY <1>3 DEF SetChannel
<1>4. ASSUME NEW c \in Channels, SetChannelFails(c) PROVE Flags'
  BY <1>4 DEF SetChannelFails
<1>5. CASE ParametersFail
  BY <1>5 DEF ParametersFail
<1>6. CASE Send
  BY <1>6 DEF Send
<1>7. CASE SendFails
  BY <1>7 DEF SendFails
<1>8. CASE WaitForAck
  BY <1>8 DEF WaitForAck
<1>9. CASE WaitFails
  BY <1>9 DEF WaitFails
<1>10. CASE Disappear \/ Appear \/ UNCHANGED vars
  BY <1>10 DEF Disappear, Appear, vars, callVars
<1> QED
  BY <1>1, <1>2, <1>3, <1>4, <1>5, <1>6, <1>7, <1>8, <1>9, <1>10 DEF Next, Step

LEMMA InitTyped == Init => Typed
  BY DEF Init, BaseInit, Typed

LEMMA StepTyped == Typed /\ [Next]_vars => Typed'
<1> SUFFICES ASSUME Typed, [Next]_vars PROVE Typed'
  OBVIOUS
<1> USE DEF Typed, Goto, Return
<1>0. inbox \in Seq(Replies) /\ seqNext \in Int
  BY DEF Replies
<1>1. CASE OpenConnection \/ OpenConnectionFails
  <2>1. CASE OpenConnection
    BY <2>1 DEF OpenConnection, OpenPasses, Allocated, GetInterfaceIndex, Reopened, kernelVars
  <2>2. CASE OpenConnectionFails
    <3>1. /\ {m_sock', m_cb', m_msg'} \subseteq Handles \cup {NULL} /\ live' \subseteq Handles
          /\ inbox' \in {inbox, <<>>}
      BY <2>2 DEF OpenConnectionFails, OpenFails
    <3>2. inbox' \in Seq(Replies) /\ \A k \in 1..Len(inbox') : inbox'[k].seq < seqNext
      <4>1. CASE inbox' = inbox
        BY <4>1
      <4>2. CASE inbox' = <<>>
        BY <4>2
      <4> QED
        BY <3>1, <4>1, <4>2
    <3>3. leaks' \in Nat
      BY <2>2 DEF OpenConnectionFails, Reopened
    <3> QED
      BY <2>2, <3>1, <3>2, <3>3 DEF OpenConnectionFails, socketVars, kernelVars
  <2> QED
    BY <1>1, <2>1, <2>2
<1>2. ASSUME NEW c \in Channels, SetChannel(c) \/ SetChannelFails(c) PROVE Typed'
  BY <1>2 DEF SetChannel, SetupMessage, Allocated, SetChannelFails, socketVars, kernelVars
<1>3. CASE ParametersFail
  BY <1>3 DEF ParametersFail, baseVars, socketVars, kernelVars
<1>4. CASE Send
  <2>1. \E k \in {"ack", "error"} : inbox' = Append(inbox, Reply(k))
    BY <1>4 DEF Send, KernelTunes, KernelRefuses
  <2>2. PICK k \in {"ack", "error"} : inbox' = Append(inbox, Reply(k))
    BY <2>1
  <2>3. seqNext \in 1..MaxSeq
    BY <1>4 DEF Send
  <2>4. Reply(k) \in Replies /\ Reply(k).seq = seqNext
    BY <2>3 DEF Reply, Replies
  <2>5. inbox' \in Seq(Replies) /\ \A j \in 1..Len(inbox') : inbox'[j].seq < seqNext + 1
    BY <1>0, <2>2, <2>3, <2>4, LongerInbox
  <2>6. tuned' \in Band \cup {0}
    BY <1>4 DEF Send, KernelTunes, KernelRefuses
  <2> QED
    BY <1>4, <2>3, <2>5, <2>6 DEF Send, Replies
<1>5. CASE SendFails
  <2>1. seqNext' \in 1..(MaxSeq + 1) /\ seqExpect' \in 1..seqNext' /\ inbox' = inbox
    BY <1>5 DEF SendFails, FreeMessage
  <2>2. \A k \in 1..Len(inbox') : inbox'[k].seq < seqNext'
    <3> TAKE k \in 1..Len(inbox')
    <3>1. inbox[k] \in Replies /\ inbox[k].seq < seqNext
      BY <2>1
    <3> QED
      BY <1>0, <1>5, <2>1, <3>1 DEF SendFails, Replies
  <2> QED
    BY <1>5, <2>1, <2>2 DEF SendFails, FreeMessage, kernelVars
<1>6. CASE WaitForAck
  <2>1. /\ Head(inbox) \in Replies /\ Head(inbox).seq < seqNext
        /\ Tail(inbox) \in Seq(Replies)
        /\ \A k \in 1..Len(Tail(inbox)) : Tail(inbox)[k].seq < seqNext
    BY <1>0, <1>6, ShorterInbox DEF WaitForAck
  <2>2. seqExpect' \in 1..seqNext
    BY <1>6, <2>1 DEF WaitForAck, InTurn, Replies
  <2> QED
    BY <1>6, <2>1, <2>2 DEF WaitForAck, kernelVars, historyVars
<1>7. CASE WaitFails
  <2>1. inbox' \in Seq(Replies) /\ \A k \in 1..Len(inbox') : inbox'[k].seq < seqNext
    BY <1>0, <1>7, ShorterInbox DEF WaitFails
  <2> QED
    BY <1>7, <2>1 DEF WaitFails, socketVars, kernelVars, Replies
<1>8. CASE Disappear \/ Appear \/ UNCHANGED vars
  BY <1>8 DEF Disappear, Appear, vars, baseVars, callVars, socketVars, kernelVars, historyVars
<1> QED
  BY <1>1, <1>2, <1>3, <1>4, <1>5, <1>6, <1>7, <1>8 DEF Next, Step

LEMMA TypeInvariant == Spec => [](Typed /\ Flags)
  BY InitTyped, StepTyped, InitFlags, StepFlags, PTL DEF Spec

\* Every variable keeps its type; no reply carries a number that was not given.
THEOREM TypeCorrectness == Spec => []TypeOK
<1>1. Typed /\ Flags => TypeOK
  BY DEF Typed, Flags, TypeOK
<1> QED
  BY <1>1, TypeInvariant, PTL

(***************************************************************************)
(* What leaks.  The program holds its socket and, during a call, its       *)
(* message; what is allocated beyond was left by a failed call, or lost    *)
(* when the connection was opened again.                                   *)
(***************************************************************************)
Held == IF pc = "idle" THEN {m_sock} ELSE {m_sock, m_msg}

Counted == IsFiniteSet(live) /\ Cardinality(live \ Held) <= leaks

LEMMA Fewer ==
  ASSUME NEW S, NEW T, IsFiniteSet(S), T \subseteq S, NEW n \in Nat, Cardinality(S) <= n
  PROVE  IsFiniteSet(T) /\ Cardinality(T) <= n
<1>1. /\ IsFiniteSet(T) /\ Cardinality(T) <= Cardinality(S)
      /\ Cardinality(S) \in Nat /\ Cardinality(T) \in Nat
  BY FS_Subset, FS_CardinalityType
<1> QED
  BY <1>1

LEMMA OneMore ==
  ASSUME NEW S, NEW T, NEW x, IsFiniteSet(S), T \subseteq S \cup {x},
         NEW n \in Nat, Cardinality(S) <= n
  PROVE  IsFiniteSet(T) /\ Cardinality(T) <= n + 1
<1>1. IsFiniteSet(S \cup {x}) /\ Cardinality(S) \in Nat
  BY FS_AddElement, FS_CardinalityType
<1>2. Cardinality(S \cup {x}) <= n + 1
  BY <1>1, FS_AddElement
<1> QED
  BY <1>1, <1>2, Fewer

LEMMA InitCounted == Init => Counted
<1> SUFFICES ASSUME Init PROVE Counted
  OBVIOUS
<1>1. live = {} /\ live \ Held = {} /\ leaks = 0
  BY DEF Init, BaseInit
<1>2. IsFiniteSet({}) /\ Cardinality({}) = 0
  BY FS_EmptySet
<1> QED
  BY <1>1, <1>2 DEF Counted

LEMMA StepCounted == Typed /\ Counted /\ [Next]_vars => Counted'
<1> SUFFICES ASSUME Typed, Counted, [Next]_vars PROVE Counted'
  OBVIOUS
<1> DEFINE lost == live \ Held
<1>1. /\ IsFiniteSet(live) /\ IsFiniteSet(lost) /\ Cardinality(lost) <= leaks
      /\ leaks \in Nat /\ leaks + 1 \in Nat /\ leaks <= leaks + 1
  BY FS_Subset DEF Counted, Typed
<1>2. live \subseteq Handles /\ NULL \notin live
  BY DEF Typed
<1>3. ASSUME live' \subseteq live, live' \ Held' \subseteq lost, leaks' = leaks PROVE Counted'
  <2>1. IsFiniteSet(live')
    BY <1>1, <1>3, FS_Subset
  <2>2. Cardinality(live' \ Held') <= leaks
    BY <1>1, <1>3, Fewer
  <2> QED
    BY <1>3, <2>1, <2>2 DEF Counted
<1>4. ASSUME NEW x, live' \subseteq live \cup {x}, leaks' = leaks,
             live' \ Held' \subseteq lost PROVE Counted'
  <2>1. IsFiniteSet(live')
    BY <1>1, <1>4, FS_AddElement, FS_Subset
  <2>2. Cardinality(live' \ Held') <= leaks
    BY <1>1, <1>4, Fewer
  <2> QED
    BY <1>4, <2>1, <2>2 DEF Counted
<1>5. ASSUME NEW x, NEW y, live' \subseteq live \cup {x}, leaks' = leaks + 1,
             live' \ Held' \subseteq lost \cup {y} PROVE Counted'
  <2>1. IsFiniteSet(live')
    BY <1>1, <1>5, FS_AddElement, FS_Subset
  <2>2. Cardinality(live' \ Held') <= leaks + 1
    BY <1>1, <1>5, OneMore
  <2> QED
    BY <1>5, <2>1, <2>2 DEF Counted
<1> HIDE DEF lost
<1>6. CASE OpenConnection
  <2>1. PICK h \in Handles \ live : m_sock' = h /\ live' = live \cup {h}
    BY <1>6 DEF OpenConnection, OpenPasses, Allocated
  <2>2. pc = "idle" /\ pc' = "idle" /\ leaks' = leaks + Reopened
    BY <1>6 DEF OpenConnection
  <2>3. lost = live \ {m_sock} /\ live' \ Held' = live
    BY <2>1, <2>2 DEF lost, Held
  <2>4. CASE m_sock = NULL
    <3>1. lost = live /\ leaks' = leaks
      BY <1>1, <1>2, <2>2, <2>3, <2>4 DEF Reopened
    <3> QED
      BY <2>1, <2>3, <3>1, <1>4
  <2>5. CASE m_sock # NULL
    <3>1. leaks' = leaks + 1 /\ live \subseteq lost \cup {m_sock}
      BY <2>2, <2>3, <2>5 DEF Reopened
    <3> QED
      BY <2>1, <2>3, <3>1, <1>5
  <2> QED
    BY <2>4, <2>5
<1>7. CASE OpenConnectionFails
  <2>1. m_sock' = NULL /\ live' \subseteq live
    BY <1>7 DEF OpenConnectionFails, OpenFails
  <2>2. pc = "idle" /\ pc' = "idle" /\ leaks' = leaks + Reopened
    BY <1>7 DEF OpenConnectionFails
  <2>3. lost = live \ {m_sock} /\ live' \ Held' = live'
    BY <1>2, <2>1, <2>2 DEF lost, Held
  <2>4. CASE m_sock = NULL
    <3>1. lost = live /\ leaks' = leaks
      BY <1>1, <1>2, <2>2, <2>3, <2>4 DEF Reopened
    <3> QED
      BY <2>1, <2>3, <3>1, <1>3
  <2>5. CASE m_sock # NULL
    <3>1. leaks' = leaks + 1 /\ live' \subseteq lost \cup {m_sock}
      BY <2>1, <2>2, <2>3, <2>5 DEF Reopened
    <3>2. live' \subseteq live \cup {m_sock}
      BY <2>1
    <3> QED
      BY <2>3, <3>1, <3>2, <1>5
  <2> QED
    BY <2>4, <2>5
<1>8. ASSUME NEW c \in Channels, SetChannel(c) PROVE Counted'
  <2>1. PICK h \in Handles \ live : m_msg' = h /\ live' = live \cup {h}
    BY <1>8 DEF SetChannel, SetupMessage, Allocated
  <2>2. m_sock' = m_sock /\ pc = "idle" /\ pc' = "parameters" /\ leaks' = leaks
    BY <1>8 DEF SetChannel, SetupMessage, Goto
  <2>3. live' \ Held' \subseteq lost
    BY <2>1, <2>2 DEF lost, Held
  <2> QED
    BY <2>1, <2>2, <2>3, <1>4
<1>9. CASE ParametersFail
  <2>1. /\ live' = live /\ m_sock' = m_sock /\ pc = "parameters" /\ pc' = "idle"
        /\ leaks' = leaks + 1
    BY <1>9 DEF ParametersFail, baseVars, Return, Goto
  <2>2. live' \ Held' \subseteq lost \cup {m_msg} /\ live' \subseteq live \cup {m_msg}
    BY <2>1 DEF lost, Held
  <2> QED
    BY <2>1, <2>2, <1>5
<1>10. CASE SendFails \/ WaitForAck \/ WaitFails
  <2>1. /\ live' = live \ {m_msg} /\ m_sock' = m_sock /\ pc # "idle" /\ pc' = "idle"
        /\ leaks' = leaks
    BY <1>10 DEF SendFails, FreeMessage, WaitForAck, WaitFails, historyVars, Return, Goto
  <2>2. live' \ Held' \subseteq lost
    BY <2>1 DEF lost, Held
  <2> QED
    BY <2>1, <2>2, <1>3
<1>11. CASE Send
  <2>1. /\ live' = live /\ m_sock' = m_sock /\ m_msg' = m_msg /\ leaks' = leaks
        /\ pc # "idle" /\ pc' # "idle"
    BY <1>11 DEF Send, Goto
  <2> QED
    BY <2>1, <1>3 DEF lost, Held
<1>12. ASSUME \/ \E c \in Channels : SetChannelFails(c)
              \/ Disappear \/ Appear \/ UNCHANGED vars
       PROVE  Counted'
  <2>1. live' = live /\ m_sock' = m_sock /\ leaks' = leaks /\ pc' = pc
    BY <1>12 DEF SetChannelFails, Disappear, Appear, vars, baseVars, callVars, historyVars
  <2>2. pc = "idle" \/ m_msg' = m_msg
    BY <1>12 DEF SetChannelFails, Disappear, Appear, vars, baseVars
  <2> QED
    BY <2>1, <2>2, <1>3 DEF lost, Held
<1> QED
  BY <1>6, <1>7, <1>8, <1>9, <1>10, <1>11, <1>12 DEF Next, Step

\* Only calls that could not add a parameter, and connections opened again,
\* leave anything behind, however often and in which order they happen.
THEOREM LeaksAreCounted == Spec => []LeaksCounted
<1>1. Init => Counted
  BY InitCounted
<1>2. Typed /\ Counted /\ [Next]_vars => Counted'
  BY StepCounted
<1>3. Counted => LeaksCounted
  BY DEF Counted, Held, LeaksCounted
<1> QED
  BY <1>1, <1>2, <1>3, TypeInvariant, PTL DEF Spec

(***************************************************************************)
(* What true means.  As long as nothing was lost, the replies keep step    *)
(* with the requests: between calls the queue is empty, during one it has  *)
(* one reply, with the number that is expected and the truth in it.        *)
(***************************************************************************)
Truth(b) ==
  /\ b <=> served /\ Supported(channel)
  /\ b => m_interfaceIndex # 0
  /\ b /\ mon = m_interfaceIndex => KernelChannel(tuned) = channel

Indices == m_interfaceIndex < nextIndex /\ mon < nextIndex

Silent   == inbox = <<>> /\ seqExpect = seqNext
Answered == /\ inbox # <<>> /\ Tail(inbox) = <<>> /\ Head(inbox).seq = seqExpect
            /\ seqNext = seqExpect + 1
            /\ Truth(Head(inbox).kind = "ack")

InStep ==
  clean => /\ pc = "idle" => Silent /\ Truth(result)
           /\ pc = "parameters" => Silent /\ ~served
           /\ pc = "ack" => Answered

\* The band has the frequencies the program computes for its channels: so not
\* those of 5035 to 5060 MHz, which share channels 7 to 12 with 2.4 GHz.
BandExact == \A f \in Band : ChannelToFrequency(KernelChannel(f)) = f

LEMMA ChannelOfItsFrequency ==
  ASSUME NEW c \in Nat PROVE KernelChannel(ChannelToFrequency(c)) = c
<1>1. CASE c < 14
  BY <1>1 DEF KernelChannel, ChannelToFrequency
<1>2. CASE c = 14
  BY <1>2 DEF KernelChannel, ChannelToFrequency
<1>3. CASE c > 14
  BY <1>3 DEF KernelChannel, ChannelToFrequency
<1> QED
  BY <1>1, <1>2, <1>3

LEMMA SupportedIsInBand ==
  ASSUME BandExact, NEW c \in Nat
  PROVE  Supported(c) <=> ChannelToFrequency(c) \in Band
<1>1. ASSUME Supported(c) PROVE ChannelToFrequency(c) \in Band
  <2>1. PICK f \in Band : KernelChannel(f) = c
    BY <1>1 DEF Supported
  <2>2. ChannelToFrequency(KernelChannel(f)) = f
    BY DEF BandExact
  <2> QED
    BY <2>1, <2>2
<1>2. ASSUME ChannelToFrequency(c) \in Band PROVE Supported(c)
  BY <1>2, ChannelOfItsFrequency DEF Supported
<1> QED
  BY <1>1, <1>2

LEMMA StepIndices == Typed /\ Indices /\ [Next]_vars => Indices'
<1> SUFFICES ASSUME Typed, Indices, [Next]_vars PROVE Indices'
  OBVIOUS
<1>0. m_interfaceIndex \in Nat /\ mon \in Nat /\ nextIndex \in Nat
  BY DEF Typed
<1> USE DEF Indices
<1>1. CASE OpenConnection
  BY <1>1 DEF OpenConnection, GetInterfaceIndex, kernelVars
<1>2. CASE Disappear \/ Appear
  BY <1>0, <1>2 DEF Disappear, Appear, callVars
<1>3. ASSUME \/ OpenConnectionFails \/ Step \/ UNCHANGED vars
             \/ \E c \in Channels : SetChannel(c) \/ SetChannelFails(c)
      PROVE  UNCHANGED <<m_interfaceIndex, mon, nextIndex>>
  BY <1>3 DEF OpenConnectionFails, SetChannel, SetChannelFails, Step, ParametersFail, Send,
              SendFails, WaitForAck, WaitFails, vars, callVars, kernelVars
<1> QED
  BY <1>1, <1>2, <1>3 DEF Next

LEMMA StepInStep ==
  ASSUME BandExact PROVE Typed /\ Flags /\ Indices /\ InStep /\ [Next]_vars => InStep'
<1> SUFFICES ASSUME Typed, Flags, Indices, InStep, [Next]_vars PROVE InStep'
  OBVIOUS
<1>1. CASE OpenConnection
  <2>1. /\ pc' = "idle" /\ inbox' = <<>> /\ seqExpect' = 1 /\ seqNext' = 1
        /\ result' = FALSE /\ served' = FALSE
    BY <1>1 DEF OpenConnection, OpenPasses
  <2>2. Silent'
    BY <2>1 DEF Silent
  <2>3. Truth(result)'
    BY <2>1, Zenon DEF Truth
  <2> QED
    BY <2>1, <2>2, <2>3 DEF InStep
<1>2. CASE OpenConnectionFails \/ SendFails \/ WaitFails
  <2>1. clean' = FALSE
    BY <1>2 DEF OpenConnectionFails, SendFails, WaitFails
  <2> QED
    BY <2>1, Zenon DEF InStep
<1>3. ASSUME NEW c \in Channels, SetChannel(c) PROVE InStep'
  <2>1. /\ pc = "idle" /\ pc' = "parameters" /\ clean' = clean /\ served' = FALSE
        /\ inbox' = inbox /\ seqExpect' = seqExpect /\ seqNext' = seqNext
    BY <1>3 DEF SetChannel, SetupMessage, Goto, socketVars
  <2>2. Silent => Silent'
    BY <2>1 DEF Silent
  <2> QED
    BY <2>1, <2>2, Zenon DEF InStep
<1>4. ASSUME NEW c \in Channels, SetChannelFails(c) PROVE InStep'
  <2>1. /\ pc = "idle" /\ pc' = "idle" /\ clean' = clean /\ served' = FALSE
        /\ result' = FALSE
        /\ inbox' = inbox /\ seqExpect' = seqExpect /\ seqNext' = seqNext
    BY <1>4 DEF SetChannelFails, socketVars
  <2>2. Silent => Silent'
    BY <2>1 DEF Silent
  <2>3. Truth(result)'
    BY <2>1, Zenon DEF Truth
  <2> QED
    BY <2>1, <2>2, <2>3, Zenon DEF InStep
<1>5. CASE ParametersFail
  <2>1. /\ pc = "parameters" /\ pc' = "idle" /\ clean' = clean /\ served' = served
        /\ result' = FALSE
        /\ inbox' = inbox /\ seqExpect' = seqExpect /\ seqNext' = seqNext
    BY <1>5 DEF ParametersFail, socketVars, baseVars, Return, Goto
  <2>2. Silent => Silent'
    BY <2>1 DEF Silent
  <2>3. ~served => Truth(result)'
    BY <2>1, Zenon DEF Truth
  <2> QED
    BY <2>1, <2>2, <2>3, Zenon DEF InStep
<1>6. CASE Send
  <2> DEFINE found == mon # 0 /\ m_interfaceIndex = mon
             inBand == ChannelToFrequency(channel) \in Band
  <2>1. /\ pc = "parameters" /\ pc' = "ack" /\ clean' = clean /\ channel' = channel
        /\ served' = found /\ seqExpect' = seqExpect /\ seqNext' = seqNext + 1
        /\ mon' = mon /\ m_interfaceIndex' = m_interfaceIndex
    BY <1>6 DEF Send, Goto
  <2>2. Supported(channel) <=> inBand
    BY SupportedIsInBand, ChannelsAssumption DEF Typed
  <2>3. CASE found /\ inBand
    <3>1. tuned' = ChannelToFrequency(channel) /\ inbox' = Append(inbox, Reply("ack"))
      BY <1>6, <2>3 DEF Send, KernelTunes, KernelRefuses
    <3>2. KernelChannel(tuned') = channel
      BY <3>1, ChannelOfItsFrequency, ChannelsAssumption DEF Typed
    <3>3. Silent => /\ inbox' # <<>> /\ Tail(inbox') = <<>>
                    /\ Head(inbox') = Reply("ack")
      BY <3>1 DEF Silent
    <3>4. Reply("ack").kind = "ack" /\ Reply("ack").seq = seqNext
      BY DEF Reply
    <3>5. Silent => /\ inbox' # <<>> /\ Tail(inbox') = <<>>
                    /\ Head(inbox').seq = seqExpect' /\ seqNext' = seqExpect' + 1
      BY <2>1, <3>3, <3>4 DEF Silent
    <3>6. Silent => Truth(Head(inbox).kind = "ack")'
      <4>1. served' /\ Supported(channel') /\ m_interfaceIndex' # 0
        BY <2>1, <2>2, <2>3
      <4> QED
        BY <2>1, <3>2, <3>3, <3>4, <4>1, Zenon DEF Truth, Supported
    <3> QED
      BY <2>1, <3>5, <3>6, Zenon DEF InStep, Answered
  <2>4. CASE ~(found /\ inBand)
    <3>1. inbox' = Append(inbox, Reply("error"))
      BY <1>6, <2>4 DEF Send, KernelTunes, KernelRefuses
    <3>3. Silent => /\ inbox' # <<>> /\ Tail(inbox') = <<>>
                    /\ Head(inbox') = Reply("error")
      BY <3>1 DEF Silent
    <3>4. Reply("error").kind # "ack" /\ Reply("error").seq = seqNext
      BY DEF Reply
    <3>5. Silent => /\ inbox' # <<>> /\ Tail(inbox') = <<>>
                    /\ Head(inbox').seq = seqExpect' /\ seqNext' = seqExpect' + 1
      BY <2>1, <3>3, <3>4 DEF Silent
    <3>6. Silent => Truth(Head(inbox).kind = "ack")'
      <4>1. ~(served' /\ Supported(channel'))
        BY <2>1, <2>2, <2>4
      <4> QED
        BY <3>3, <3>4, <4>1, Zenon DEF Truth, Supported
    <3> QED
      BY <2>1, <3>5, <3>6, Zenon DEF InStep, Answered
  <2> QED
    BY <2>3, <2>4
<1>7. CASE WaitForAck
  <2>1. /\ pc = "ack" /\ pc' = "idle" /\ clean' = clean /\ served' = served
        /\ channel' = channel /\ m_interfaceIndex' = m_interfaceIndex
        /\ mon' = mon /\ tuned' = tuned /\ seqNext' = seqNext /\ inbox' = Tail(inbox)
        /\ seqExpect' = IF InTurn THEN seqExpect + 1 ELSE seqExpect
        /\ result' = (InTurn /\ Head(inbox).kind = "ack")
    BY <1>7 DEF WaitForAck, Return, Goto, kernelVars, historyVars
  <2>2. Answered => Silent'
    BY <2>1 DEF Answered, Silent, InTurn
  <2>3. Answered => Truth(result)'
    <3>1. Answered => (result' <=> Head(inbox).kind = "ack")
      BY <2>1, Zenon DEF Answered, InTurn
    <3> QED
      BY <2>1, <3>1, Zenon DEF Answered, Truth, Supported
  <2> QED
    BY <2>1, <2>2, <2>3, Zenon DEF InStep
<1>8. CASE Disappear \/ Appear
  <2>1. /\ UNCHANGED <<pc, clean, served, channel, m_interfaceIndex, result, inbox>>
        /\ UNCHANGED <<seqNext, seqExpect>>
    BY <1>8 DEF Disappear, Appear, baseVars, callVars, socketVars, historyVars
  <2>2. m_interfaceIndex # 0 => mon' # m_interfaceIndex
    BY <1>8 DEF Disappear, Appear, Indices, Typed
  <2>4. Silent => Silent'
    BY <2>1 DEF Silent
  <2>5. Truth(result) => Truth(result)'
    BY <2>1, <2>2, Zenon DEF Truth, Supported
  <2>6. Answered => Answered'
    BY <2>1, <2>2, Zenon DEF Answered, Truth, Supported
  <2> QED
    BY <2>1, <2>4, <2>5, <2>6, Zenon DEF InStep
<1>9. CASE UNCHANGED vars
  <2>1. /\ UNCHANGED <<pc, clean, served, channel, m_interfaceIndex, result, inbox>>
        /\ UNCHANGED <<seqNext, seqExpect, mon, tuned>>
    BY <1>9 DEF vars, baseVars, callVars, socketVars, kernelVars, historyVars
  <2> QED
    BY <2>1, Zenon DEF InStep, Silent, Answered, Truth, Supported
<1> QED
  BY <1>1, <1>2, <1>3, <1>4, <1>5, <1>6, <1>7, <1>8, <1>9 DEF Next, Step

\* While nothing is lost SetChannel() tells the truth: for all interfaces that
\* come and go, all calls that fail before anything is sent, and all radios whose
\* band is as the program computes it.
THEOREM TellsTheTruth == ASSUME BandExact PROVE Spec => []AsAsked
<1>1. Init => Indices /\ InStep
  <2>1. Init => Indices
    BY DEF Init, Indices
  <2>2. Init => InStep
    BY Zenon DEF Init, InStep
  <2> QED
    BY <2>1, <2>2
<1>2. Typed /\ Flags /\ Indices /\ InStep /\ [Next]_vars => Indices' /\ InStep'
  BY StepIndices, StepInStep
<1>3. InStep => AsAsked
  BY Zenon DEF InStep, AsAsked, Truth
<1> QED
  BY <1>1, <1>2, <1>3, TypeInvariant, PTL DEF Spec
=============================================================================
