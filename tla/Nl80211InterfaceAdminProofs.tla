-------------------- MODULE Nl80211InterfaceAdminProofs --------------------
(***************************************************************************)
(* Proofs about Nl80211InterfaceAdmin, for any set of objects, names and   *)
(* failing calls: no sequence of calls leaks a libnl object; the types;    *)
(* and that the calls, step by step, are the requests Nl80211Requests      *)
(* promises.                                                               *)
(***************************************************************************)
EXTENDS Nl80211InterfaceAdmin, FiniteSetTheorems, TLAPS

USE HandlesAssumption

\* What each step of a call may rely on: the pointer it is about to overwrite
\* refers to nothing.
HeldInv ==
  /\ live = Pointers \ {NULL} /\ live \subseteq Handles
  /\ pc \in {"idle", "open"} => m_sock = NULL /\ m_cb = NULL /\ m_msg = NULL
  /\ pc = "callback" => m_cb = NULL /\ m_msg = NULL
  /\ pc = "message" => m_msg = NULL

\* Close() frees what the pointers refer to, which is all there is.
LEMMA CloseHeld ==
  ASSUME HeldInv, Close PROVE HeldInv'
  BY DEF HeldInv, Close, Pointers

LEMMA InitHeld == Init => HeldInv
  BY DEF Init, BaseInit, HeldInv, Pointers

LEMMA BeginHeld == HeldInv /\ Begin => HeldInv'
<1> SUFFICES ASSUME HeldInv, Begin PROVE HeldInv'
  OBVIOUS
<1>1. /\ pc = "idle" /\ UNCHANGED baseVars
      /\ pc' \in {"idle", "open"}
  BY DEF Begin, GetInterfaceList, CreateInterface, DeleteInterface, Goto
<1> QED
  BY <1>1 DEF HeldInv, Pointers, baseVars

LEMMA StepHeld == HeldInv /\ Step => HeldInv'
<1> SUFFICES ASSUME HeldInv, Step PROVE HeldInv'
  OBVIOUS
<1>1. CASE OpenStep
  BY <1>1 DEF HeldInv, OpenStep, OpenPasses, Allocated, Busy, Goto, Pointers
<1>2. CASE OpenStepFails
  BY <1>2, CloseHeld DEF HeldInv, OpenStepFails, OpenFails, Close, Return, Goto, Pointers
<1>3. CASE CallbackStep
  BY <1>3 DEF HeldInv, CallbackStep, SetupCallback, Allocated, Busy, Goto, Pointers
<1>4. CASE MessageStep
  BY <1>4 DEF HeldInv, MessageStep, SetupMessage, Allocated, Busy, Goto, Pointers
<1>5. CASE BuildFails \/ LoopEnds \/ AwaitAck
  BY <1>5, CloseHeld DEF BuildFails, GiveUp, LoopEnds, AwaitAck
<1>6. CASE SendDump \/ SendRequest
  BY <1>6 DEF HeldInv, SendDump, SendRequest, Goto, Pointers
<1>7. CASE Receive \/ ReceiveFails
  BY <1>7 DEF HeldInv, Receive, ReceiveFails, Pointers
<1> QED
  BY <1>1, <1>2, <1>3, <1>4, <1>5, <1>6, <1>7 DEF Step

LEMMA OthersHeld == HeldInv /\ (Environment \/ UNCHANGED vars) => HeldInv'
  BY DEF HeldInv, Environment, Disappear, Appear, adminVars, baseVars, vars, Pointers

\* Whichever steps of which calls fail, in any order, the objects allocated are
\* exactly the ones the three pointers refer to, and none between two calls.
THEOREM NothingLeaks == Spec => []Held
<1>1. HeldInv /\ [Next]_vars => HeldInv'
  BY BeginHeld, StepHeld, OthersHeld DEF Next
<1>2. HeldInv => Held
  BY DEF HeldInv, Held, Pointers
<1> QED
  BY InitHeld, <1>1, <1>2, PTL DEF Spec

(***************************************************************************)
(* Types, together with what each step of a call finds: an empty socket    *)
(* until the request is sent, and then the answer or the rest of the dump. *)
(***************************************************************************)
USE NamesAssumption

\* Only while a dump is received can any of it be lost.
Flags ==
  /\ served \in BOOLEAN /\ result \in BOOLEAN
  /\ lost \subseteq Reply
  /\ pc # "receive" => lost = {}

Typed ==
  /\ {m_sock, m_cb, m_msg} \subseteq Handles \cup {NULL} /\ live \subseteq Handles
  /\ status \in {0, 1} /\ errcode \in {0, 1}
  /\ inbox \in Seq(Reply)
  /\ pc \in {"idle", "open", "callback", "message", "send", "receive", "await"}
  /\ call \in {NoCall, GetList} \cup [cmd : {"new", "del"}, name : Names]
  /\ ifIndex \in Nat /\ list \in Seq(Names)
  /\ ifaces \in [Names -> Nat] /\ nextIndex \in Nat

\* The replies of a dump: the last is the only one that is not "valid", and no
\* interface is reported twice.
IsDump(s) ==
  \A i, j \in 1..Len(s) : i < j =>
     s[i].kind = "valid" /\ (s[i].name # NULL => s[i].name # s[j].name)

Protocol ==
  /\ pc = "idle" => call = NoCall /\ ifIndex = 0
  /\ pc # "idle" => call # NoCall
  /\ pc \notin {"receive", "await"} => inbox = <<>> /\ ~served
  /\ pc \in {"callback", "receive"} => call = GetList
  /\ pc \in {"message", "send"} /\ call = GetList => status = 1
  /\ pc = "await" => /\ call # GetList
                     /\ inbox = <<Refusal>> \/ (inbox = <<Ack>> /\ served)
  /\ pc = "receive" => /\ served \/ inbox \in {<<>>, <<Refusal>>}
                       /\ IsDump(inbox)
                       /\ status = 0 => errcode = 1 \/ (served /\ inbox = <<>>)

\* Sequences of replies: what is left when the first was read.
LEMMA TailOfDump ==
  ASSUME NEW s \in Seq(Reply), s # <<>>, IsDump(s)
  PROVE  /\ Tail(s) \in Seq(Reply) /\ IsDump(Tail(s)) /\ Head(s) \in Reply
         /\ Head(s).kind # "valid" => Tail(s) = <<>>
         /\ Head(s).name = NULL => NamesIn(Tail(s)) = NamesIn(s)
         /\ Head(s).name # NULL => /\ Head(s).name \in NamesIn(s)
                                   /\ NamesIn(Tail(s)) = NamesIn(s) \ {Head(s).name}
<1>1. /\ Len(s) \in Nat \ {0} /\ Head(s) = s[1] /\ 1 \in 1..Len(s) /\ s[1] \in Reply
      /\ Tail(s) \in Seq(Reply) /\ Len(Tail(s)) = Len(s) - 1
  OBVIOUS
<1>2. \A k \in 1..Len(s) - 1 : Tail(s)[k] = s[k + 1] /\ k + 1 \in 1..Len(s)
  BY <1>1
<1>3. IsDump(Tail(s))
  BY <1>1, <1>2 DEF IsDump
<1>4. Head(s).kind # "valid" => Len(s) = 1
  BY <1>1 DEF IsDump
<1>5. Head(s).kind # "valid" => Tail(s) = <<>>
  BY <1>1, <1>4
<1>6. \A j \in 1..Len(s) : j = 1 \/ (j - 1 \in 1..Len(s) - 1 /\ s[j] = Tail(s)[j - 1])
  BY <1>1, <1>2
<1>7. NamesIn(Tail(s)) = { s[j].name : j \in 2..Len(s) } \ {NULL}
  <2>1. \A j \in 2..Len(s) : j - 1 \in 1..Len(Tail(s)) /\ Tail(s)[j - 1] = s[j]
    BY <1>1, <1>6
  <2>2. \A k \in 1..Len(Tail(s)) : k + 1 \in 2..Len(s) /\ Tail(s)[k] = s[k + 1]
    BY <1>1, <1>2
  <2>3. { Tail(s)[k].name : k \in 1..Len(Tail(s)) } = { s[j].name : j \in 2..Len(s) }
    <3> DEFINE L == Tail(s)
               I == 1..Len(L)
               J == 2..Len(s)
    <3> HIDE DEF L, I, J
    <3>1. \A j \in J : \E k \in I : L[k] = s[j]
      BY <2>1 DEF L, I, J
    <3>2. \A k \in I : \E j \in J : L[k] = s[j]
      BY <2>2 DEF L, I, J
    <3>3. { L[k].name : k \in I } = { s[j].name : j \in J }
      BY <3>1, <3>2
    <3> QED
      BY <3>3 DEF L, I, J
  <2> QED
    BY <2>3 DEF NamesIn
<1>8. \A j \in 1..Len(s) : j = 1 \/ j \in 2..Len(s)
  BY <1>1
<1>9. \A j \in 2..Len(s) : j \in 1..Len(s) /\ 1 < j
  BY <1>1
<1>10. NamesIn(s) = ({ s[j].name : j \in 2..Len(s) } \cup {s[1].name}) \ {NULL}
  BY <1>1, <1>8, <1>9 DEF NamesIn
<1>11. s[1].name # NULL => \A j \in 2..Len(s) : s[j].name # s[1].name
  BY <1>1, <1>9 DEF IsDump
<1> QED
  BY <1>1, <1>3, <1>5, <1>7, <1>10, <1>11

LEMMA NamesInShort == /\ NamesIn(<<>>) = {} /\ NamesIn(<<Refusal>>) = {}
                      /\ IsDump(<<>>) /\ IsDump(<<Refusal>>)
<1>1. 1..Len(<<>>) = {} /\ 1..Len(<<Refusal>>) = {1} /\ <<Refusal>>[1] = Refusal
  OBVIOUS
<1>2. Refusal.name = NULL
  BY DEF Refusal
<1> QED
  BY <1>1, <1>2 DEF NamesIn, IsDump

\* An order lists each member of a finite set once.
LEMMA OrderIsComplete ==
  ASSUME NEW S, IsFiniteSet(S), NEW s \in Orders(S)
  PROVE  /\ Cardinality(S) \in Nat /\ s \in [1..Cardinality(S) -> S]
         /\ \A i, j \in 1..Cardinality(S) : i # j => s[i] # s[j]
         /\ \A x \in S : \E i \in 1..Cardinality(S) : s[i] = x
<1> DEFINE n == Cardinality(S)
<1>1. n \in Nat
  BY FS_CardinalityType
<1>2. s \in [1..n -> S] /\ \A i, j \in 1..n : i # j => s[i] # s[j]
  BY DEF Orders
<1>3. s \in Injection(1..n, S)
  BY <1>2 DEF Injection, IsInjective
<1>4. Cardinality(1..n) = n
  <2>1. n \in Int /\ 1 \in Int
    BY <1>1
  <2>2. Cardinality(1..n) = IF 1 > n THEN 0 ELSE n - 1 + 1
    BY <2>1, FS_Interval
  <2> QED
    BY <1>1, <2>2
<1>5. s \in Surjection(1..n, S)
  BY <1>3, <1>4, FS_Injection
<1> QED
  BY <1>1, <1>2, <1>5 DEF Surjection

\* Where the elements of a sequence put together from three parts come from.
Joined(a, b, x) == a \o b \o <<x>>

LEMMA ThreeParts ==
  ASSUME NEW a \in Seq(Reply), NEW b \in Seq(Reply), NEW x \in Reply
  PROVE  /\ Joined(a, b, x) \in Seq(Reply) /\ Len(Joined(a, b, x)) = Len(a) + Len(b) + 1
         /\ \A i \in 1..Len(a) : Joined(a, b, x)[i] = a[i]
         /\ \A i \in Len(a) + 1..Len(a) + Len(b) : Joined(a, b, x)[i] = b[i - Len(a)]
         /\ Joined(a, b, x)[Len(a) + Len(b) + 1] = x
<1> DEFINE d == Len(a)
           n == Len(b)
<1>0. d \in Nat /\ n \in Nat
  OBVIOUS
<1> DEFINE t == a \o b
<1>1. /\ t \in Seq(Reply) /\ Len(t) = d + n
      /\ \A i \in 1..d : t[i] = a[i]
      /\ \A i \in d + 1..d + n : t[i] = b[i - d]
  OBVIOUS
<1> HIDE DEF t, d, n
<1>2. /\ t \o <<x>> \in Seq(Reply) /\ Len(t \o <<x>>) = d + n + 1
      /\ (t \o <<x>>)[d + n + 1] = x
      /\ \A i \in 1..d + n : (t \o <<x>>)[i] = t[i]
  BY <1>0, <1>1
<1> DEFINE s == t \o <<x>>
<1>3. /\ \A i \in 1..d : i \in 1..d + n
      /\ \A i \in d + 1..d + n : i \in 1..d + n
  BY <1>0
<1> HIDE DEF s
<1>4. /\ s \in Seq(Reply) /\ Len(s) = d + n + 1
      /\ \A i \in 1..d : s[i] = a[i]
      /\ \A i \in d + 1..d + n : s[i] = b[i - d]
      /\ s[d + n + 1] = x
  <2>1. /\ s \in Seq(Reply) /\ Len(s) = d + n + 1 /\ s[d + n + 1] = x
        /\ \A i \in 1..d + n : s[i] = t[i]
    BY <1>2 DEF s
  <2> QED
    BY <1>1, <1>3, <2>1
<1> QED
  BY <1>4 DEF s, t, d, n, Joined

\* The dump as it is sent: every interface there is, once.
LEMMA DumpIsComplete ==
  ASSUME NEW S \in SUBSET Names, IsFiniteSet(S), NEW order \in Orders(S), NEW skipped \in BOOLEAN
  PROVE  LET s == (IF skipped THEN <<Valid(NULL)>> ELSE <<>>)
                     \o [i \in DOMAIN order |-> Valid(order[i])] \o <<Done>>
         IN  s \in Seq(Reply) /\ IsDump(s) /\ NamesIn(s) = S /\ s[Len(s)] = Done /\ s # <<>>
<1> DEFINE n == Cardinality(S)
           d == IF skipped THEN 1 ELSE 0
           front == IF skipped THEN <<Valid(NULL)>> ELSE <<>>
           mid == [i \in 1..n |-> Valid(order[i])]
           s == Joined(front, mid, Done)
<1>1. /\ n \in Nat /\ order \in [1..n -> S] /\ DOMAIN order = 1..n
      /\ \A i, j \in 1..n : i # j => order[i] # order[j]
      /\ \A x \in S : \E i \in 1..n : order[i] = x
  BY OrderIsComplete
<1>2. front \in Seq(Reply) /\ Len(front) = d /\ \A i \in 1..d : front[i] = Valid(NULL)
  <2>1. Valid(NULL) \in Reply
    BY DEF Reply
  <2> QED
    BY <2>1
<1>3. mid \in Seq(Reply) /\ Len(mid) = n
  <2>1. \A i \in 1..n : Valid(order[i]) \in Reply
    BY <1>1 DEF Reply
  <2> HIDE DEF n
  <2> QED
    BY <1>1, <2>1
<1>4. Done \in Reply
  BY DEF Reply
<1>6. d \in {0, 1}
  OBVIOUS
<1> HIDE DEF n, d, front, mid, s
<1>7. /\ s \in Seq(Reply) /\ Len(s) = d + n + 1
      /\ \A i \in 1..d : s[i] = front[i]
      /\ \A i \in d + 1..d + n : s[i] = mid[i - d]
      /\ s[d + n + 1] = Done
  <2>1. d \in Nat /\ n \in Nat /\ Len(front) = d /\ Len(mid) = n
    BY <1>1, <1>2, <1>3, <1>6
  <2>2. front \in Seq(Reply) /\ mid \in Seq(Reply)
    BY <1>2, <1>3
  <2> QED
    <3>1. /\ s \in Seq(Reply) /\ Len(s) = Len(front) + Len(mid) + 1
          /\ \A i \in 1..Len(front) : s[i] = front[i]
          /\ \A i \in Len(front) + 1..Len(front) + Len(mid) : s[i] = mid[i - Len(front)]
          /\ s[Len(front) + Len(mid) + 1] = Done
      BY <1>4, <2>2, ThreeParts, Zenon DEF s
    <3> QED
      BY <2>1, <3>1
<1>8. \A i \in 1..d : s[i] = Valid(NULL)
  <2> TAKE i \in 1..d
  <2>1. s[i] = front[i]
    BY <1>7
  <2>2. front[i] = Valid(NULL)
    BY <1>2
  <2> QED
    BY <2>1, <2>2
<1>9. \A i \in d + 1..d + n : s[i] = Valid(order[i - d])
  <2> TAKE i \in d + 1..d + n
  <2>1. i - d \in 1..n
    BY <1>1, <1>6
  <2>2. s[i] = mid[i - d]
    BY <1>7
  <2> QED
    BY <2>1, <2>2 DEF mid
<1>10. \A i \in d + 1..d + n : i - d \in 1..n
  BY <1>1, <1>6, <1>7
<1>11. \A i \in 1..Len(s) : i \in 1..d \/ i \in d + 1..d + n \/ i = d + n + 1
  BY <1>1, <1>6, <1>7
<1>12. \A x : /\ Valid(x).kind = "valid" /\ Valid(x).name = x
              /\ Done.name = NULL
  BY DEF Valid, Done
<1>13. \A i \in 1..n : order[i] \in Names /\ order[i] # NULL
  BY <1>1
<1>14. IsDump(s)
  <2> SUFFICES ASSUME NEW i \in 1..Len(s), NEW j \in 1..Len(s), i < j
               PROVE  s[i].kind = "valid" /\ (s[i].name # NULL => s[i].name # s[j].name)
    BY DEF IsDump
  <2>1. CASE i \in 1..d
    BY <2>1, <1>8, <1>12
  <2>2. CASE i \in d + 1..d + n
    <3>1. s[i].kind = "valid" /\ s[i].name = order[i - d] /\ i - d \in 1..n
      BY <2>2, <1>9, <1>10, <1>12
    <3>2. CASE j \in d + 1..d + n
      <4>1. s[j].name = order[j - d] /\ j - d \in 1..n /\ i - d # j - d
        <5>1. j - d \in 1..n /\ s[j] = Valid(order[j - d])
          BY <3>2, <1>9, <1>10
        <5>2. i - d # j - d
          BY <1>1, <1>6, <2>2, <3>2
        <5> QED
          BY <5>1, <5>2, <1>12
      <4> QED
        BY <1>1, <3>1, <4>1
    <3>3. CASE j = d + n + 1
      BY <1>7, <1>12, <1>13, <3>1, <3>3
    <3>4. ~(j \in 1..d)
      BY <1>1, <1>6, <2>2
    <3> QED
      BY <3>2, <3>3, <3>4, <1>11
  <2>3. ~(i = d + n + 1)
    BY <1>1, <1>6, <1>7
  <2> QED
    BY <2>1, <2>2, <2>3, <1>11
<1>15. NamesIn(s) \subseteq S
  <2> SUFFICES ASSUME NEW i \in 1..Len(s), s[i].name # NULL PROVE s[i].name \in S
    BY DEF NamesIn
  <2> QED
    BY <1>1, <1>7, <1>8, <1>9, <1>10, <1>11, <1>12
<1>16. S \subseteq NamesIn(s)
  <2> SUFFICES ASSUME NEW x \in S PROVE x \in NamesIn(s)
    OBVIOUS
  <2>1. PICK k \in 1..n : order[k] = x
    BY <1>1
  <2>2. PICK e \in d + 1..d + n : e \in 1..Len(s) /\ e - d = k
    <3>1. k + d \in d + 1..d + n /\ k + d \in 1..Len(s) /\ (k + d) - d = k
      BY <1>1, <1>6, <1>7, <2>1
    <3> QED
      BY <3>1
  <2>3. s[e].name = x
    BY <2>1, <2>2, <1>9, <1>12
  <2>4. x # NULL
    OBVIOUS
  <2> QED
    <3> DEFINE I == 1..Len(s)
    <3> HIDE DEF I
    <3>1. e \in I
      BY <2>2 DEF I
    <3>2. x \in { s[i].name : i \in I }
      BY <2>3, <3>1
    <3> QED
      BY <2>4, <3>2 DEF NamesIn, I
<1>17. s \in Seq(Reply) /\ IsDump(s) /\ NamesIn(s) = S /\ s[Len(s)] = Done /\ s # <<>>
  <2>1. Len(s) # 0
    BY <1>1, <1>6, <1>7
  <2>2. s # <<>>
    BY <2>1
  <2> QED
    BY <1>7, <1>14, <1>15, <1>16, <2>2
<1> QED
  BY <1>1, <1>17, Zenon DEF s, front, mid, Joined

(***************************************************************************)
(* The invariant.                                                          *)
(***************************************************************************)
\* Finitely many interfaces at any time.
Finite == ifaces \in [Names -> Nat] /\ nextIndex \in Nat \ {0} /\ IsFiniteSet(Present)

LEMMA OneMore ==
  ASSUME NEW f \in [Names -> Nat], NEW n \in Names, NEW k \in Nat,
         IsFiniteSet({ m \in Names : f[m] # 0 })
  PROVE  /\ [f EXCEPT ![n] = k] \in [Names -> Nat]
         /\ IsFiniteSet({ m \in Names : [f EXCEPT ![n] = k][m] # 0 })
<1> DEFINE S == { m \in Names : f[m] # 0 }
           T == { m \in Names : [f EXCEPT ![n] = k][m] # 0 }
<1>1. T \in SUBSET (S \cup {n})
  OBVIOUS
<1>2. IsFiniteSet(S \cup {n})
  BY FS_AddElement
<1>3. IsFiniteSet(T)
  <2> HIDE DEF S, T
  <2> QED
    BY <1>1, <1>2, FS_Subset
<1> QED
  BY <1>3

LEMMA InitFinite == Init => Finite
<1> SUFFICES ASSUME Init PROVE Finite
  OBVIOUS
<1>1. Present = {}
  BY DEF Init, Present
<1> QED
  BY <1>1, FS_EmptySet DEF Init, Finite

LEMMA StepFinite == Typed /\ Finite /\ [Next]_vars => Finite'
<1> SUFFICES ASSUME Typed, Finite, [Next]_vars PROVE Finite'
  OBVIOUS
<1>1. ASSUME NEW n \in Names, NEW k \in Nat, ifaces' = [ifaces EXCEPT ![n] = k],
             nextIndex' \in Nat \ {0}
      PROVE  Finite'
  <2>1. IsFiniteSet({ m \in Names : ifaces[m] # 0 })
    BY DEF Finite, Present
  <2>2. /\ [ifaces EXCEPT ![n] = k] \in [Names -> Nat]
        /\ IsFiniteSet({ m \in Names : [ifaces EXCEPT ![n] = k][m] # 0 })
    BY <2>1, OneMore DEF Finite
  <2>3. Present' = { m \in Names : [ifaces EXCEPT ![n] = k][m] # 0 }
    BY <1>1 DEF Present
  <2>4. IsFiniteSet(Present')
    BY <2>2, <2>3, Zenon
  <2>5. ifaces' \in [Names -> Nat]
    BY <1>1, <2>2
  <2> QED
    BY <1>1, <2>4, <2>5 DEF Finite
<1>2. CASE UNCHANGED kernelVars
  BY <1>2 DEF Finite, Present, kernelVars
<1>3. CASE SendRequest
  <2>1. CASE call.cmd = "new" /\ ServeNew /\ call.name \in Names
    <3>1. /\ call.name \in Names /\ nextIndex \in Nat /\ nextIndex' \in Nat \ {0}
          /\ ifaces' = [ifaces EXCEPT ![call.name] = nextIndex]
      BY <2>1 DEF ServeNew, Finite
    <3> QED
      BY <1>1, <3>1
  <2>2. CASE ServeDel
    BY <1>1, <2>2 DEF ServeDel, Present, Finite
  <2>3. CASE Refused
    BY <1>2, <2>3 DEF Refused
  <2>4. call.cmd = "new" => call.name \in Names
    BY DEF Typed, NoCall, GetList
  <2> QED
    BY <1>3, <2>1, <2>2, <2>3, <2>4 DEF SendRequest
<1>4. CASE Environment
  <2>1. PICK n \in Names : Disappear(n) \/ Appear(n)
    BY <1>4 DEF Environment
  <2>2. \E k \in Nat : ifaces' = [ifaces EXCEPT ![n] = k] /\ nextIndex' \in Nat \ {0}
    BY <2>1 DEF Disappear, Appear, Finite
  <2> QED
    BY <1>1, <2>2
<1>5. CASE Begin \/ (Step /\ ~SendRequest) \/ UNCHANGED vars
  <2>1. CASE Begin
    BY <1>2, <2>1 DEF Begin, GetInterfaceList, CreateInterface, DeleteInterface
  <2>2. CASE OpenStep \/ OpenStepFails \/ CallbackStep \/ MessageStep \/ BuildFails
    BY <1>2, <2>2 DEF OpenStep, OpenStepFails, CallbackStep, MessageStep, BuildFails, GiveUp
  <2>3. CASE SendDump
    BY <1>2, <2>3 DEF SendDump, ServeDump, Refused
  <2>4. CASE Receive \/ ReceiveFails \/ LoopEnds \/ AwaitAck \/ UNCHANGED vars
    BY <1>2, <2>4 DEF Receive, ReceiveFails, LoopEnds, AwaitAck, vars
  <2> QED
    BY <1>5, <2>1, <2>2, <2>3, <2>4 DEF Step
<1> QED
  BY <1>3, <1>4, <1>5 DEF Next

LEMMA InitFlags == Init => Flags
  BY DEF Init, Flags

LEMMA StepFlags == Typed /\ Flags /\ [Next]_vars => Flags'
<1> SUFFICES ASSUME Typed, Flags, [Next]_vars PROVE Flags'
  OBVIOUS
<1> USE DEF Flags, Busy, Return, Goto
<1>1. CASE Begin
  BY <1>1 DEF Begin, GetInterfaceList, CreateInterface, DeleteInterface
<1>2. CASE OpenStep \/ CallbackStep \/ MessageStep
  BY <1>2 DEF OpenStep, CallbackStep, MessageStep
<1>3. CASE OpenStepFails \/ BuildFails
  BY <1>3 DEF OpenStepFails, BuildFails, GiveUp
<1>4. CASE SendDump
  BY <1>4 DEF SendDump, ServeDump, Refused, Reply
<1>5. CASE SendRequest
  BY <1>5 DEF SendRequest, ServeNew, ServeDel, Refused
<1>6. CASE Receive
  BY <1>6 DEF Receive
<1>7. CASE LoopEnds
  BY <1>7 DEF LoopEnds
<1>8. CASE AwaitAck
  BY <1>8 DEF AwaitAck
<1>9. CASE Environment \/ UNCHANGED vars
  BY <1>9 DEF Environment, Disappear, Appear, vars, adminVars
<1>10. CASE ReceiveFails
  <2>1. Head(inbox) \in Reply
    BY <1>10 DEF ReceiveFails, Typed
  <2> QED
    BY <1>10, <2>1 DEF ReceiveFails
<1> QED
  BY <1>1, <1>2, <1>3, <1>4, <1>5, <1>6, <1>7, <1>8, <1>9, <1>10 DEF Next, Step

LEMMA InitTyped == Init => Typed /\ Protocol
  BY DEF Init, BaseInit, Typed, Protocol, NoCall

\* Closing a call and coming back from it.
LEMMA ReturnTyped ==
  ASSUME Typed, UNCHANGED <<list, kernelVars, status, errcode>>,
         call' = NoCall, pc' = "idle", ifIndex' = 0, inbox' = <<>>,
         {m_sock', m_cb', m_msg'} \subseteq Handles \cup {NULL}, live' \subseteq Handles
  PROVE  Typed'
  BY DEF Typed, kernelVars

LEMMA StepTyped == Typed /\ Protocol /\ Finite /\ [Next]_vars => Typed'
<1> SUFFICES ASSUME Typed, Protocol, Finite, [Next]_vars PROVE Typed'
  OBVIOUS
<1>1. CASE Begin
  BY <1>1 DEF Typed, Begin, GetInterfaceList, CreateInterface, DeleteInterface, Goto,
              baseVars, kernelVars
<1>2. CASE OpenStep
  BY <1>2 DEF Typed, OpenStep, OpenPasses, Allocated, Busy, Goto, kernelVars
<1>3. CASE OpenStepFails
  <2>1. inbox' = <<>>
    BY <1>3 DEF OpenStepFails, OpenFails, Protocol
  <2> QED
    BY <1>3, <2>1, ReturnTyped DEF Typed, OpenStepFails, OpenFails, Return, Goto
<1>4. CASE CallbackStep
  BY <1>4 DEF Typed, CallbackStep, SetupCallback, Allocated, Busy, Goto, kernelVars
<1>5. CASE MessageStep
  BY <1>5 DEF Typed, MessageStep, SetupMessage, Allocated, Busy, Goto, kernelVars
<1>6. CASE BuildFails \/ LoopEnds \/ AwaitAck
  BY <1>6, ReturnTyped DEF Typed, BuildFails, GiveUp, LoopEnds, AwaitAck, Close, Return, Goto
<1>7. CASE SendDump
  <2>1. inbox' \in Seq(Reply)
    <3>1. CASE ServeDump
      <4>1. PICK order \in Orders(Present), skipped \in BOOLEAN :
              inbox' = (IF skipped THEN <<Valid(NULL)>> ELSE <<>>)
                         \o [i \in DOMAIN order |-> Valid(order[i])] \o <<Done>>
        BY <3>1 DEF ServeDump
      <4>2. Present \in SUBSET Names /\ IsFiniteSet(Present)
        BY DEF Present, Finite
      <4> QED
        BY <4>1, <4>2, DumpIsComplete, Zenon
    <3>2. CASE inbox' = <<Refusal>>
      BY <3>2 DEF Reply
    <3>3. CASE inbox' = inbox
      BY <3>3 DEF Typed
    <3> QED
      BY <1>7, <3>1, <3>2, <3>3 DEF SendDump, Refused
  <2>2. UNCHANGED kernelVars
    BY <1>7 DEF SendDump, ServeDump, Refused
  <2> QED
    BY <1>7, <2>1, <2>2 DEF Typed, SendDump, Busy, Goto, kernelVars
<1>8. CASE SendRequest
  <2>1. inbox' \in Seq(Reply)
    <3>1. inbox' \in {<<Refusal>>, <<Ack>>} /\ Refusal \in Reply /\ Ack \in Reply
      BY <1>8 DEF SendRequest, ServeNew, ServeDel, Refused, Reply
    <3>2. \A r \in Reply : <<r>> \in Seq(Reply)
      OBVIOUS
    <3> QED
      BY <3>1, <3>2, Zenon
  <2>2. ifaces' \in [Names -> Nat] /\ nextIndex' \in Nat
    BY <1>8 DEF SendRequest, ServeNew, ServeDel, Refused, Typed, kernelVars
  <2> QED
    BY <1>8, <2>1, <2>2 DEF Typed, SendRequest, Busy, Goto
<1>9. CASE Receive
  <2>1. Tail(inbox) \in Seq(Reply) /\ Head(inbox) \in Reply
    BY <1>9, TailOfDump DEF Receive, Protocol, Typed
  <2>2. Head(inbox).name # NULL => Head(inbox).name \in Names
    BY <2>1 DEF Reply, Valid, Done, Ack, Refusal
  <2>3. list' \in Seq(Names)
    BY <1>9, <2>2 DEF Receive, Typed
  <2>4. status' \in {0, 1} /\ errcode' \in {0, 1}
    BY <1>9 DEF Receive, Handled, Typed
  <2> QED
    BY <1>9, <2>1, <2>3, <2>4 DEF Typed, Receive, kernelVars
<1>10. CASE Environment \/ UNCHANGED vars
  <2>1. ifaces' \in [Names -> Nat] /\ nextIndex' \in Nat
    BY <1>10 DEF Environment, Disappear, Appear, Typed, vars, kernelVars
  <2> QED
    BY <1>10, <2>1 DEF Environment, Disappear, Appear, Typed, vars, baseVars, adminVars
<1>11. CASE ReceiveFails
  <2>1. Tail(inbox) \in Seq(Reply)
    BY <1>11 DEF ReceiveFails, Typed
  <2> QED
    BY <1>11, <2>1 DEF Typed, ReceiveFails, kernelVars
<1> QED
  BY <1>1, <1>2, <1>3, <1>4, <1>5, <1>6, <1>7, <1>8, <1>9, <1>10, <1>11 DEF Next, Step

LEMMA StepProtocol == Typed /\ Protocol /\ Finite /\ [Next]_vars => Protocol'
<1> SUFFICES ASSUME Typed, Protocol, Finite, [Next]_vars PROVE Protocol'
  OBVIOUS
<1>0. NoCall # GetList /\ GetList # NoCall
  BY DEF NoCall, GetList
<1>1. CASE Begin
  BY <1>0, <1>1 DEF Protocol, Begin, GetInterfaceList, CreateInterface, DeleteInterface, Goto,
                    baseVars, NoCall
<1>2. CASE OpenStep
  BY <1>2 DEF Protocol, OpenStep, OpenPasses, Busy, Goto
<1>3. CASE OpenStepFails
  BY <1>3 DEF Protocol, OpenStepFails, OpenFails, Return, Goto
<1>4. CASE CallbackStep
  BY <1>4 DEF Protocol, CallbackStep, SetupCallback, Busy, Goto
<1>5. CASE MessageStep
  BY <1>5 DEF Protocol, MessageStep, SetupMessage, Busy, Goto
<1>6. CASE BuildFails \/ LoopEnds \/ AwaitAck
  BY <1>6 DEF Protocol, BuildFails, GiveUp, LoopEnds, AwaitAck, Close, Return, Goto
<1>7. CASE SendDump
  <2>1. IsDump(inbox') /\ (served' \/ inbox' \in {<<>>, <<Refusal>>})
    <3>1. CASE ServeDump
      <4>1. PICK order \in Orders(Present), skipped \in BOOLEAN :
              inbox' = (IF skipped THEN <<Valid(NULL)>> ELSE <<>>)
                         \o [i \in DOMAIN order |-> Valid(order[i])] \o <<Done>>
        BY <3>1 DEF ServeDump
      <4>2. Present \in SUBSET Names /\ IsFiniteSet(Present)
        BY DEF Present, Finite
      <4>3. IsDump(inbox')
        BY <4>1, <4>2, DumpIsComplete, Zenon
      <4> QED
        BY <3>1, <4>3 DEF ServeDump
    <3>2. CASE inbox' = <<Refusal>>
      BY <3>2, NamesInShort
    <3>3. CASE inbox' = <<>>
      BY <3>3, NamesInShort
    <3> QED
      BY <1>7, <3>1, <3>2, <3>3 DEF SendDump, Refused, Protocol
  <2> QED
    BY <1>7, <2>1 DEF Protocol, SendDump, Busy, Goto
<1>8. CASE SendRequest
  <2>1. inbox' = <<Refusal>> \/ (inbox' = <<Ack>> /\ served')
    BY <1>8 DEF SendRequest, ServeNew, ServeDel, Refused
  <2> QED
    BY <1>8, <2>1 DEF Protocol, SendRequest, Busy, Goto
<1>9. CASE Receive
  <2>1. /\ IsDump(Tail(inbox)) /\ Head(inbox) \in Reply
        /\ Head(inbox).kind # "valid" => Tail(inbox) = <<>>
    BY <1>9, TailOfDump DEF Receive, Protocol, Typed
  <2>2. CASE Head(inbox) = Refusal
    <3>1. errcode' = 1 /\ inbox' = <<>>
      BY <1>9, <2>1, <2>2 DEF Receive, Handled, Refusal
    <3> QED
      BY <1>9, <2>1, <3>1 DEF Protocol, Receive
  <2>3. CASE Head(inbox) # Refusal
    <3>1. served
      BY <1>9, <2>3 DEF Receive, Protocol
    <3>2. status' = 0 => inbox' = <<>>
      BY <1>9, <2>1 DEF Receive, Handled
    <3> QED
      BY <1>9, <2>1, <3>1, <3>2 DEF Protocol, Receive
  <2> QED
    BY <2>2, <2>3
<1>10. CASE Environment \/ UNCHANGED vars
  BY <1>10 DEF Environment, Disappear, Appear, Protocol, vars, baseVars, adminVars
<1>11. CASE ReceiveFails
  <2>1. IsDump(Tail(inbox))
    BY <1>11, TailOfDump DEF ReceiveFails, Protocol, Typed
  <2>2. inbox = <<Refusal>> => Tail(inbox) = <<>>
    OBVIOUS
  <2> QED
    BY <1>11, <2>1, <2>2 DEF Protocol, ReceiveFails, Typed
<1> QED
  BY <1>1, <1>2, <1>3, <1>4, <1>5, <1>6, <1>7, <1>8, <1>9, <1>10, <1>11 DEF Next, Step

LEMMA Invariant == Spec => [](Typed /\ Flags /\ Protocol /\ Finite)
  BY InitTyped, StepTyped, StepProtocol, InitFlags, StepFlags, InitFinite, StepFinite,
     PTL DEF Spec

\* Every variable keeps its type, for any names, objects and failing calls.
THEOREM TypeCorrectness == Spec => []TypeOK
<1>1. Typed /\ Flags => TypeOK
  BY DEF Typed, Flags, TypeOK
<1> QED
  BY Invariant, <1>1, PTL

(***************************************************************************)
(* What the kernel carried out is reported as done.                        *)
(***************************************************************************)
NoRefusal(s) == \A i \in 1..Len(s) : s[i].kind # "error"

\* The error code is that of this list: reset before it is asked for, and left
\* alone by all replies of a list that is served.  What else is served is
\* acknowledged.
CodeIsFresh ==
  /\ pc \in {"message", "send"} /\ call = GetList => errcode = 0
  /\ pc = "receive" /\ served => errcode = 0 /\ NoRefusal(inbox)
  /\ pc = "await" /\ served => inbox = <<Ack>>

\* Only the last reply of a dump can be anything but an interface.
LEMMA DumpHasNoRefusal ==
  ASSUME NEW s \in Seq(Reply), IsDump(s), s[Len(s)] = Done
  PROVE  NoRefusal(s)
<1> SUFFICES ASSUME NEW i \in 1..Len(s) PROVE s[i].kind # "error"
  BY DEF NoRefusal
<1>1. i < Len(s) \/ i = Len(s)
  OBVIOUS
<1>2. CASE i < Len(s)
  <2>1. Len(s) \in 1..Len(s)
    OBVIOUS
  <2> QED
    BY <1>2, <2>1 DEF IsDump
<1>3. CASE i = Len(s)
  BY <1>3 DEF Done
<1> QED
  BY <1>1, <1>2, <1>3

LEMMA StepCode ==
  Typed /\ Protocol /\ Finite /\ CodeIsFresh /\ [Next]_vars => CodeIsFresh'
<1> SUFFICES ASSUME Typed, Protocol, Finite, CodeIsFresh, [Next]_vars PROVE CodeIsFresh'
  OBVIOUS
<1>0. NoCall # GetList
  BY DEF NoCall, GetList
<1>1. CASE Begin
  BY <1>1 DEF CodeIsFresh, Begin, GetInterfaceList, CreateInterface, DeleteInterface, Goto,
              Protocol
<1>2. CASE OpenStep
  BY <1>2 DEF CodeIsFresh, OpenStep, OpenPasses, Busy, Goto
<1>3. CASE OpenStepFails \/ BuildFails \/ LoopEnds \/ AwaitAck
  BY <1>3 DEF CodeIsFresh, OpenStepFails, BuildFails, GiveUp, LoopEnds, AwaitAck, Return, Goto
<1>4. CASE CallbackStep
  BY <1>4 DEF CodeIsFresh, CallbackStep, SetupCallback, Busy, Goto
<1>5. CASE MessageStep
  BY <1>5 DEF CodeIsFresh, MessageStep, SetupMessage, Busy, Goto
<1>6. CASE SendDump
  <2>1. ASSUME served' PROVE NoRefusal(inbox')
    <3>1. ServeDump
      BY <1>6, <2>1 DEF SendDump, Busy, Refused, Protocol
    <3>2. PICK order \in Orders(Present), skipped \in BOOLEAN :
            inbox' = (IF skipped THEN <<Valid(NULL)>> ELSE <<>>)
                       \o [i \in DOMAIN order |-> Valid(order[i])] \o <<Done>>
      BY <3>1 DEF ServeDump
    <3>3. Present \in SUBSET Names /\ IsFiniteSet(Present)
      BY DEF Present, Finite
    <3>4. inbox' \in Seq(Reply) /\ IsDump(inbox') /\ inbox'[Len(inbox')] = Done
      BY <3>2, <3>3, DumpIsComplete, Zenon
    <3> QED
      BY <3>4, DumpHasNoRefusal
  <2>2. pc = "send" /\ call = GetList /\ pc' = "receive" /\ errcode' = errcode
    BY <1>6 DEF SendDump, Busy, Goto
  <2> QED
    BY <2>1, <2>2 DEF CodeIsFresh
<1>7. CASE SendRequest
  <2>1. ~served /\ pc' = "await"
    BY <1>7 DEF SendRequest, Busy, Goto, Protocol
  <2>2. served' => inbox' = <<Ack>>
    BY <1>7, <2>1 DEF SendRequest, ServeNew, ServeDel, Refused
  <2> QED
    BY <2>1, <2>2 DEF CodeIsFresh
<1>8. CASE Receive \/ ReceiveFails
  <2>0. pc = "receive" /\ pc' = "receive" /\ served' = served /\ inbox' = Tail(inbox)
    BY <1>8 DEF Receive, ReceiveFails
  <2> SUFFICES ASSUME served PROVE errcode' = 0 /\ NoRefusal(Tail(inbox))
    BY <2>0 DEF CodeIsFresh
  <2>1. errcode = 0 /\ NoRefusal(inbox) /\ inbox \in Seq(Reply) /\ inbox # <<>>
    BY <1>8 DEF CodeIsFresh, Receive, ReceiveFails, Typed
  <2>2. /\ Len(inbox) \in Nat \ {0} /\ Head(inbox) = inbox[1] /\ 1 \in 1..Len(inbox)
        /\ Len(Tail(inbox)) = Len(inbox) - 1
        /\ \A k \in 1..Len(inbox) - 1 : Tail(inbox)[k] = inbox[k + 1] /\ k + 1 \in 1..Len(inbox)
    BY <2>1
  <2>3. Head(inbox).kind # "error" /\ NoRefusal(Tail(inbox))
    BY <2>1, <2>2 DEF NoRefusal
  <2> QED
    BY <1>8, <2>1, <2>3 DEF Receive, ReceiveFails, Handled
<1>9. CASE Environment \/ UNCHANGED vars
  BY <1>9 DEF Environment, Disappear, Appear, CodeIsFresh, vars, baseVars, adminVars
<1> QED
  BY <1>1, <1>2, <1>3, <1>4, <1>5, <1>6, <1>7, <1>8, <1>9 DEF Next, Step

\* A call that was served returns false only when nl_wait_for_ack() failed.
THEOREM DoneIsNotDenied == Spec => DoneIsReported
<1>1. Init => CodeIsFresh
  BY DEF Init, CodeIsFresh
<1>2. Protocol /\ CodeIsFresh /\ [Next]_vars =>
        [pc # "idle" /\ pc' = "idle" /\ served /\ ~result' =>
           pc = "await" /\ "receive" \in Faults]_vars
  <2> SUFFICES ASSUME Protocol, CodeIsFresh, [Next]_vars,
                      pc # "idle", pc' = "idle", served, ~result'
               PROVE  pc = "await" /\ "receive" \in Faults
    OBVIOUS
  <2>1. pc \in {"receive", "await"}
    BY DEF Protocol
  <2>2. ~LoopEnds
    BY DEF LoopEnds, CodeIsFresh, Return
  <2>3. AwaitAck
    BY <2>1, <2>2
       DEF Next, Begin, GetInterfaceList, CreateInterface, DeleteInterface, Step, OpenStep,
           OpenStepFails, CallbackStep, MessageStep, BuildFails, SendDump, SendRequest,
           Receive, ReceiveFails, Busy, Environment, Disappear, Appear, adminVars, vars
  <2>4. Head(inbox) = Ack
    BY <2>3 DEF AwaitAck, CodeIsFresh
  <2> QED
    BY <2>3, <2>4 DEF AwaitAck, Return
<1> QED
  BY <1>1, <1>2, StepCode, Invariant, PTL DEF Spec, DoneIsReported

(***************************************************************************)
(* No reply is waited for in vain.                                         *)
(***************************************************************************)
\* What waits to be read ends with a reply that ends the loop.
EndsWell(s) == s # <<>> => s[Len(s)] \in {Done, Refusal}

\* And what ends the loop is on its way until the loop has ended, if it is not lost.
EndIsOnItsWay ==
  pc = "receive" => EndsWell(inbox) /\ (inbox = <<>> /\ status > 0 => Unanswered)

LEMMA TailEndsWell ==
  ASSUME NEW s \in Seq(Reply), s # <<>>, EndsWell(s)
  PROVE  /\ EndsWell(Tail(s))
         /\ Tail(s) = <<>> => Head(s) \in {Done, Refusal}
<1>1. /\ Len(s) \in Nat \ {0} /\ Head(s) = s[1]
      /\ Tail(s) \in Seq(Reply) /\ Len(Tail(s)) = Len(s) - 1
      /\ \A k \in 1..Len(s) - 1 : Tail(s)[k] = s[k + 1]
  OBVIOUS
<1>2. ASSUME Tail(s) # <<>> PROVE Tail(s)[Len(Tail(s))] = s[Len(s)]
  <2>1. Len(Tail(s)) # 0
    BY <1>1, <1>2
  <2> QED
    BY <1>1, <2>1
<1>3. Tail(s) = <<>> => Len(s) = 1
  BY <1>1
<1> QED
  BY <1>1, <1>2, <1>3 DEF EndsWell

LEMMA StepEnd ==
  Typed /\ Protocol /\ Finite /\ EndIsOnItsWay /\ [Next]_vars => EndIsOnItsWay'
<1> SUFFICES ASSUME Typed, Protocol, Finite, EndIsOnItsWay, [Next]_vars PROVE EndIsOnItsWay'
  OBVIOUS
<1>1. CASE SendDump
  <2>1. CASE ServeDump
    <3>1. PICK order \in Orders(Present), skipped \in BOOLEAN :
            inbox' = (IF skipped THEN <<Valid(NULL)>> ELSE <<>>)
                       \o [i \in DOMAIN order |-> Valid(order[i])] \o <<Done>>
      BY <2>1 DEF ServeDump
    <3>2. Present \in SUBSET Names /\ IsFiniteSet(Present)
      BY DEF Present, Finite
    <3>3. inbox'[Len(inbox')] = Done /\ inbox' # <<>>
      BY <3>1, <3>2, DumpIsComplete, Zenon
    <3> QED
      BY <3>3 DEF EndIsOnItsWay, EndsWell
  <2>2. CASE inbox' = <<Refusal>>
    BY <2>2 DEF EndIsOnItsWay, EndsWell
  <2>3. CASE inbox' = inbox /\ lost' = {Done}
    BY <1>1, <2>3 DEF EndIsOnItsWay, EndsWell, SendDump, Busy, Protocol, Unanswered
  <2> QED
    BY <1>1, <2>1, <2>2, <2>3 DEF SendDump, Refused
<1>2. CASE Receive \/ ReceiveFails
  <2>1. /\ EndsWell(Tail(inbox))
        /\ Tail(inbox) = <<>> => Head(inbox) \in {Done, Refusal}
    BY <1>2, TailEndsWell DEF Receive, ReceiveFails, EndIsOnItsWay, Typed
  <2>2. CASE Receive
    <3>1. Tail(inbox) = <<>> => status' = 0
      BY <2>1, <2>2 DEF Receive, Handled, Done, Refusal
    <3> QED
      BY <2>1, <2>2, <3>1 DEF Receive, EndIsOnItsWay
  <2>3. CASE ReceiveFails
    <3>1. Tail(inbox) = <<>> => Unanswered'
      BY <2>1, <2>3 DEF ReceiveFails, Unanswered
    <3> QED
      BY <2>1, <2>3, <3>1 DEF ReceiveFails, EndIsOnItsWay
  <2> QED
    BY <1>2, <2>2, <2>3
<1>3. CASE Environment \/ UNCHANGED vars
  BY <1>3 DEF Environment, Disappear, Appear, EndIsOnItsWay, Unanswered, vars, baseVars, adminVars
<1>4. CASE Next /\ ~SendDump /\ ~Receive /\ ~ReceiveFails /\ ~Environment
  BY <1>4 DEF Next, Begin, GetInterfaceList, CreateInterface, DeleteInterface, Step, OpenStep,
              OpenStepFails, CallbackStep, MessageStep, BuildFails, GiveUp, SendRequest, LoopEnds,
              AwaitAck, Return, Goto, Busy, EndIsOnItsWay, Protocol
<1> QED
  BY <1>1, <1>2, <1>3, <1>4

\* The receive loop waits in vain only when the request or the reply that would
\* have ended the loop was lost.
THEOREM LoopIsEnded == Spec => []WaitsForLostOnly
<1>1. Init => EndIsOnItsWay
  BY DEF Init, EndIsOnItsWay
<1>2. EndIsOnItsWay => WaitsForLostOnly
  BY DEF EndIsOnItsWay, WaitsForLostOnly
<1> QED
  BY <1>1, <1>2, StepEnd, Invariant, PTL DEF Spec

(***************************************************************************)
(* The refinement.  Unread stands for the interfaces a dump has still to   *)
(* report; every other variable of Nl80211Requests is one of the class or  *)
(* of the kernel.                                                          *)
(***************************************************************************)
LEMMA InitRequests == Init => Requests!Init
  BY DEF Init, BaseInit, Requests!Init, Unread, NamesOf

\* What the requests see of a step: nothing of it, ...
LEMMA Unseen ==
  ASSUME UNCHANGED <<ifaces, nextIndex, call, ifIndex, served, list, result>>, Unread' = Unread,
         NamesOf(lost)' = NamesOf(lost)
  PROVE  UNCHANGED Requests!vars
  BY DEF Requests!vars

\* ... or its end.
LEMMA ReturnRequests ==
  ASSUME Protocol, pc # "idle", NEW b \in BOOLEAN, Return(b), UNCHANGED <<list, kernelVars>>,
         b => served /\ Unread = {}
  PROVE  Requests!Return
<1>1. Unread' = {} /\ NamesOf(lost)' = {}
  BY DEF Return, Goto, Unread, NamesOf
<1> QED
  BY <1>1 DEF Protocol, Return, Requests!Return, kernelVars

LEMMA StepRequests ==
  Typed /\ Flags /\ Protocol /\ Finite /\ [Next]_vars => [Requests!Next]_Requests!vars
<1> SUFFICES ASSUME Typed, Flags, Protocol, Finite, [Next]_vars
             PROVE  Requests!Next \/ UNCHANGED Requests!vars
  OBVIOUS
<1>1. ASSUME Begin PROVE Requests!Next
  <2>0. /\ pc = "idle" /\ call = NoCall /\ ifIndex = 0 /\ pc' # "receive"
        /\ Unread = {} /\ Unread' = {} /\ NamesOf(lost)' = NamesOf(lost)
    BY <1>1 DEF Begin, GetInterfaceList, CreateInterface, DeleteInterface, Goto, Protocol, Unread
  <2>1. CASE GetInterfaceList
    BY <2>0, <2>1 DEF GetInterfaceList, GetList, kernelVars, Requests!Next, Requests!Begin, Requests!Calls
  <2>2. ASSUME NEW n \in Names, CreateInterface(n) PROVE Requests!Next
    BY <2>0, <2>2 DEF CreateInterface, kernelVars, Requests!Next, Requests!Begin, Requests!Calls
  <2>3. ASSUME NEW n \in Names, DeleteInterface(n) PROVE Requests!Next
    <3>1. CASE ifaces[n] # 0
      BY <2>0, <2>3, <3>1 DEF DeleteInterface, kernelVars, Requests!Next, Requests!Begin, Requests!Calls
    <3>2. CASE ifaces[n] = 0
      BY <2>0, <2>3, <3>2 DEF DeleteInterface, kernelVars, Requests!Next, Requests!Reject
    <3> QED
      BY <3>1, <3>2
  <2> QED
    BY <1>1, <2>1, <2>2, <2>3 DEF Begin
<1>2. ASSUME OpenStep \/ CallbackStep \/ MessageStep PROVE UNCHANGED Requests!vars
  <2>1. UNCHANGED <<ifaces, nextIndex, call, ifIndex, served, list, result>>
    BY <1>2 DEF OpenStep, CallbackStep, MessageStep, Busy, kernelVars
  <2>2. Unread = {} /\ Unread' = {} /\ lost' = lost
    BY <1>2 DEF OpenStep, CallbackStep, MessageStep, Busy, Goto, Unread
  <2> QED
    BY <2>1, <2>2, Unseen
<1>3. ASSUME OpenStepFails \/ BuildFails PROVE Requests!Next
  <2>1. pc # "idle" /\ Return(FALSE) /\ UNCHANGED <<list, kernelVars>>
    BY <1>3 DEF OpenStepFails, BuildFails, GiveUp
  <2>2. Requests!Return
    BY <2>1, ReturnRequests
  <2> QED
    BY <2>2 DEF Requests!Next
<1>4. ASSUME SendDump PROVE Requests!Next \/ UNCHANGED Requests!vars
  <2>0. /\ pc = "send" /\ pc' = "receive" /\ call = GetList /\ call # NoCall /\ ~served
        /\ Unread = {} /\ Unread' = NamesIn(inbox')
        /\ UNCHANGED <<call, ifIndex, list, result>>
        /\ NamesOf(lost)' = NamesOf(lost)
    <3>1. lost = {} /\ lost' \in {{}, {Done}}
      BY <1>4 DEF SendDump, Busy, Flags
    <3>2. NamesOf(lost)' = NamesOf(lost)
      BY <3>1 DEF NamesOf, Done
    <3> QED
      BY <1>4, <3>2 DEF SendDump, Busy, Goto, Protocol, Unread
  <2>1. CASE ServeDump
    <3>1. PICK order \in Orders(Present), skipped \in BOOLEAN :
            inbox' = (IF skipped THEN <<Valid(NULL)>> ELSE <<>>)
                       \o [i \in DOMAIN order |-> Valid(order[i])] \o <<Done>>
      BY <2>1 DEF ServeDump
    <3>2. Present \in SUBSET Names /\ IsFiniteSet(Present)
      BY DEF Present, Finite
    <3>3. NamesIn(inbox') = Present
      BY <3>1, <3>2, DumpIsComplete, Zenon
    <3>4. Requests!Serve
      BY <2>0, <2>1, <3>3 DEF ServeDump, GetList, Present, kernelVars, Requests!Serve
    <3> QED
      BY <3>4 DEF Requests!Next
  <2>2. CASE inbox' \in {<<>>, <<Refusal>>} /\ UNCHANGED <<served, kernelVars>>
    <3>1. Unread' = {}
      BY <2>0, <2>2, NamesInShort
    <3> QED
      BY <2>0, <2>2, <3>1, Unseen DEF kernelVars
  <2> QED
    BY <1>4, <2>0, <2>1, <2>2 DEF SendDump, Refused, Protocol
<1>5. ASSUME SendRequest PROVE Requests!Next \/ UNCHANGED Requests!vars
  <2>0. /\ pc = "send" /\ pc' = "await" /\ call # NoCall /\ ~served
        /\ Unread = {} /\ Unread' = {}
        /\ UNCHANGED <<call, ifIndex, lost, list, result>>
    BY <1>5 DEF SendRequest, Busy, Goto, Protocol, Unread
  <2>1. CASE call.cmd = "new" /\ ServeNew
    <3>1. Requests!Serve
      BY <2>0, <2>1 DEF ServeNew, Requests!Serve
    <3> QED
      BY <3>1 DEF Requests!Next
  <2>2. CASE call.cmd = "del" /\ ServeDel
    <3>1. Requests!Serve
      BY <2>0, <2>2 DEF ServeDel, Present, Requests!Serve
    <3> QED
      BY <3>1 DEF Requests!Next
  <2>3. CASE Refused
    BY <2>0, <2>3, Unseen DEF Refused, kernelVars
  <2> QED
    BY <1>5, <2>1, <2>2, <2>3 DEF SendRequest
<1>6. ASSUME Receive PROVE Requests!Next \/ UNCHANGED Requests!vars
  <2> DEFINE n == Head(inbox).name
  <2>0. /\ Unread = NamesIn(inbox) /\ Unread' = NamesIn(Tail(inbox))
        /\ UNCHANGED <<ifaces, nextIndex, call, ifIndex, served, lost, result>>
        /\ list' = IF n = NULL THEN list ELSE Append(list, n)
    BY <1>6 DEF Receive, Unread, kernelVars
  <2>1. inbox \in Seq(Reply) /\ inbox # <<>> /\ IsDump(inbox)
    BY <1>6 DEF Receive, Typed, Protocol
  <2>2. /\ n = NULL => NamesIn(Tail(inbox)) = NamesIn(inbox)
        /\ n # NULL => n \in NamesIn(inbox) /\ NamesIn(Tail(inbox)) = NamesIn(inbox) \ {n}
    BY <2>1, TailOfDump
  <2>3. CASE n = NULL
    BY <2>0, <2>2, <2>3, Unseen
  <2>4. CASE n # NULL
    <3>1. Requests!Report
      BY <2>0, <2>2, <2>4 DEF Requests!Report
    <3> QED
      BY <3>1 DEF Requests!Next
  <2> QED
    BY <2>3, <2>4
<1>7. ASSUME LoopEnds PROVE Requests!Next
  <2>1. pc = "receive" /\ status = 0 /\ Return(errcode = 0) /\ UNCHANGED <<list, kernelVars>>
    BY <1>7 DEF LoopEnds
  <2>2. errcode = 0 => served /\ Unread = {}
    BY <2>1, NamesInShort DEF Protocol, Unread
  <2>3. Requests!Return
    BY <2>1, <2>2, ReturnRequests
  <2> QED
    BY <2>3 DEF Requests!Next
<1>8. ASSUME AwaitAck PROVE Requests!Next
  <2>1. /\ pc = "await" /\ UNCHANGED <<list, kernelVars>>
        /\ Return(Head(inbox) = Ack) \/ Return(FALSE)
    BY <1>8 DEF AwaitAck
  <2>2. Head(inbox) = Ack => served
    <3>1. Head(<<Refusal>>) # Ack
      BY DEF Refusal, Ack
    <3> QED
      BY <2>1, <3>1 DEF Protocol
  <2>3. Unread = {}
    BY <2>1 DEF Unread
  <2>4. Requests!Return
    BY <2>1, <2>2, <2>3, ReturnRequests
  <2> QED
    BY <2>4 DEF Requests!Next
<1>9. ASSUME Environment PROVE Requests!Next
  <2>1. PICK n \in Names : Disappear(n) \/ Appear(n)
    BY <1>9 DEF Environment
  <2>2. UNCHANGED <<call, ifIndex, served, lost, list, result>> /\ Unread' = Unread
    BY <2>1 DEF Disappear, Appear, adminVars, baseVars, Unread
  <2>3. Requests!Others
    BY <2>1, <2>2 DEF Disappear, Appear, Present, Requests!Others
  <2> QED
    BY <2>3 DEF Requests!Next
<1>10. ASSUME UNCHANGED vars PROVE UNCHANGED Requests!vars
  BY <1>10, Unseen DEF vars, adminVars, baseVars, kernelVars, Unread
<1>11. ASSUME ReceiveFails PROVE Requests!Next \/ UNCHANGED Requests!vars
  <2> DEFINE n == Head(inbox).name
  <2>0. /\ Unread = NamesIn(inbox) /\ Unread' = NamesIn(Tail(inbox))
        /\ UNCHANGED <<ifaces, nextIndex, call, ifIndex, served, list, result>>
        /\ NamesOf(lost)' = NamesOf(lost) \cup ({n} \ {NULL})
    <3>1. NamesOf(lost \cup {Head(inbox)}) = NamesOf(lost) \cup ({n} \ {NULL})
      BY DEF NamesOf
    <3> QED
      BY <1>11, <3>1 DEF ReceiveFails, Unread, kernelVars
  <2>1. inbox \in Seq(Reply) /\ inbox # <<>> /\ IsDump(inbox)
    BY <1>11 DEF ReceiveFails, Typed, Protocol
  <2>2. /\ n = NULL => NamesIn(Tail(inbox)) = NamesIn(inbox)
        /\ n # NULL => n \in NamesIn(inbox) /\ NamesIn(Tail(inbox)) = NamesIn(inbox) \ {n}
    BY <2>1, TailOfDump
  <2>3. CASE n = NULL
    BY <2>0, <2>2, <2>3, Unseen
  <2>4. CASE n # NULL
    <3>1. Requests!Lose
      BY <1>11, <2>0, <2>2, <2>4 DEF Requests!Lose, ReceiveFails
    <3> QED
      BY <3>1 DEF Requests!Next
  <2> QED
    BY <2>3, <2>4
<1> QED
  BY <1>1, <1>2, <1>3, <1>4, <1>5, <1>6, <1>7, <1>8, <1>9, <1>10, <1>11 DEF Next, Step

\* GetInterfaceList(), CreateXxxInterface() and DeleteInterface(), taken step by
\* step, are requests the kernel carries out at most once, and of which true
\* tells that it did: for any interfaces, and whatever fails or comes and goes.
\* A list has each interface of its dump once but for those that were lost, and
\* all of them when no turn of the receive loop fails.
THEOREM CallsKeepTheirPromises == Spec => Promises
<1>1. Spec => Requests!Init /\ [][Requests!Next]_Requests!vars
  BY InitRequests, StepRequests, Invariant, PTL DEF Spec
<1> QED
  BY <1>1 DEF Promises, Requests!Spec
=============================================================================
