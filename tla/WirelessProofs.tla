--------------------------- MODULE WirelessProofs ---------------------------
(***************************************************************************)
(* Proofs about wireless.c, for all interfaces, results and faults: what a *)
(* call allocates it releases, a request gets the answer that is its own,  *)
(* a scan result is collected whole however the buffer grows, and the list *)
(* that wapi_scan_coll() makes of it is one that wapi.h promises.          *)
(***************************************************************************)
EXTENDS Wireless, SequenceTheorems, WellFoundedInduction, TLAPS

\* What is allocated at each step of a call.
HeldInv ==
  \/ pc = "idle" /\ held = {}
  \/ pc \in {"collect", "events"} /\ held = {"buf"}
  \/ pc = "message" /\ held = {"sock"}
  \/ pc \in {"send", "callback"} /\ held = {"sock", "msg"}
  \/ pc = "receive" /\ held = {"sock", "msg", "cb"}

\* wapi_scan_coll()'s ways out free what its loops hold.
LEMMA FreeStep ==
  ASSUME NEW r, HeldInv, pc \in {"collect", "events"}, FreeAndReturn(r)
  PROVE  HeldInv'
<1>1. pc' = "idle" /\ held' = held \ {"buf"}
  BY DEF FreeAndReturn, Return
<1>2. held = {"buf"}
  BY DEF HeldInv
<1> QED
  BY <1>1, <1>2 DEF HeldInv

\* "exit:" releases what nl80211_cmd_handler() holds, wherever it comes from.
LEMMA ExitStep ==
  ASSUME NEW r, HeldInv, pc \in {"message", "send", "callback", "receive"},
         ExitWith(r)
  PROVE  HeldInv'
<1>1. pc' = "idle" /\ held' = held \ {"sock", "msg", "cb"}
  BY DEF ExitWith
<1>2. held \subseteq {"sock", "msg", "cb"}
  BY DEF HeldInv
<1>3. held' = {}
  BY <1>1, <1>2
<1> QED
  BY <1>1, <1>3 DEF HeldInv

\* What a call allocates before it does anything else.
LEMMA CallsStep == HeldInv /\ Calls => HeldInv'
<1> SUFFICES ASSUME HeldInv, Calls PROVE HeldInv'
  OBVIOUS
<1>1. pc = "idle"
  BY DEF Calls, ScanInit, ScanStat, ScanColl, ScanCollFails, IfAdd, IfDel, IfRequest,
         IfRequestFails, Call
<1>2. CASE UNCHANGED <<pc, held>>
  BY <1>2 DEF HeldInv
<1>3. CASE ScanColl
  BY <1>3 DEF ScanColl, HeldInv
<1>4. CASE IfAdd \/ IfDel
  BY <1>4 DEF IfAdd, IfDel, IfRequest, HeldInv
<1>5. CASE ScanInit \/ ScanStat \/ ScanCollFails
           \/ IfRequestFails("add") \/ IfRequestFails("del")
  BY <1>2, <1>5 DEF ScanInit, ScanStat, ScanCollFails, IfRequestFails
<1> QED
  BY <1>3, <1>4, <1>5 DEF Calls

\* What a step of a call allocates and frees.
LEMMA StepStep == HeldInv /\ Step => HeldInv'
<1> SUFFICES ASSUME HeldInv, Step PROVE HeldInv'
  OBVIOUS
<1>1. CASE UNCHANGED <<pc, held>>
  BY <1>1 DEF HeldInv
<1>2. CASE Enlarge
  BY <1>1, <1>2 DEF Enlarge
<1>3. CASE EnlargeFails
  BY <1>3, FreeStep DEF EnlargeFails, TooBig
<1>4. CASE CollectRefused
  BY <1>4, FreeStep DEF CollectRefused
<1>5. CASE Collect
  <2>1. CASE FreeAndReturn(0)
    BY <1>5, <2>1, FreeStep DEF Collect
  <2>2. CASE pc' = "events" /\ UNCHANGED held
    BY <1>5, <2>2 DEF Collect, HeldInv
  <2> QED
    BY <1>5, <2>1, <2>2 DEF Collect
<1>6. CASE NextEvent
  BY <1>1, <1>6, FreeStep DEF NextEvent
<1>7. CASE LastEvent
  BY <1>7, FreeStep DEF LastEvent
<1>8. CASE ExtractFails
  BY <1>8, FreeStep DEF ExtractFails
<1>9. CASE IfMessage
  BY <1>9 DEF IfMessage, HeldInv
<1>10. CASE IfSend
  BY <1>10 DEF IfSend, HeldInv
<1>11. CASE IfCallback
  BY <1>11 DEF IfCallback, HeldInv
<1>12. CASE IfMessageFails \/ IfSendFails \/ IfCallbackFails
  BY <1>12, ExitStep DEF IfMessageFails, IfSendFails, IfCallbackFails
<1>13. CASE IfReceive
  BY <1>13, ExitStep DEF IfReceive
<1> QED
  BY <1>2, <1>3, <1>4, <1>5, <1>6, <1>7, <1>8, <1>9, <1>10, <1>11, <1>12,
     <1>13 DEF Step

\* Every step keeps what is known of the allocations.
LEMMA HeldStep == HeldInv /\ [Next]_vars => HeldInv'
<1> SUFFICES ASSUME HeldInv, [Next]_vars PROVE HeldInv'
  OBVIOUS
<1>1. CASE UNCHANGED <<pc, held>>
  BY <1>1 DEF HeldInv
<1>2. CASE Environment
  BY <1>1, <1>2
     DEF Environment, ScanEnds, OtherScan, Heard, Lost, Appear, Disappear, callVars
<1>3. CASE UNCHANGED vars
  BY <1>1, <1>3 DEF vars, callVars
<1> QED
  BY <1>2, <1>3, CallsStep, StepStep DEF Next

\* Whatever fails in wapi_scan_coll() and nl80211_cmd_handler(), the buffer, the
\* socket, the message and the callbacks are released before they return.
THEOREM NothingIsHeld == Spec => []NothingHeld
<1>1. Init => HeldInv
  BY DEF Init, HeldInv
<1>2. HeldInv => NothingHeld
  BY DEF HeldInv, NothingHeld
<1> QED
  BY <1>1, <1>2, HeldStep, PTL DEF Spec

\* What the reply says of the request, at each step of nl80211_cmd_handler().
Requesting == pc \in {"message", "send", "callback", "receive"}

AnswerInv ==
  /\ Requesting => op \in {"add", "del"}
  /\ pc \in {"collect", "events"} => op = "coll"
  /\ pc \notin {"callback", "receive"} => answer = "none"
  /\ pc \in {"message", "send"} => ~served
  /\ pc \in {"callback", "receive"} =>
       /\ answer = "ack" => served
       /\ served /\ ~faulty => answer = "ack"
  /\ AnsweredRight

\* wapi_scan_coll() touches nothing of a request.
LEMMA AnswerScanStep ==
  ASSUME AnswerInv, pc \in {"collect", "events"},
         pc' \in {"idle", "collect", "events"}, UNCHANGED <<op, answer>>
  PROVE  AnswerInv'
BY DEF AnswerInv, AnsweredRight, Requesting

\* nl80211_cmd_handler() returns -1, with nothing served or with a failure.
LEMMA AnswerFailStep ==
  ASSUME AnswerInv, Requesting, ExitWith(-1), UNCHANGED <<op, served>>,
         ~served \/ faulty'
  PROVE  AnswerInv'
<1>1. pc' = "idle" /\ ret' = -1 /\ answer' = "none"
  BY DEF ExitWith
<1> QED
  BY <1>1 DEF AnswerInv, AnsweredRight, Requesting

\* A request starts without an answer.
LEMMA AnswerCallsStep == AnswerInv /\ Calls => AnswerInv'
<1> SUFFICES ASSUME AnswerInv, Calls PROVE AnswerInv'
  OBVIOUS
<1> USE DEF AnswerInv, AnsweredRight, Requesting
<1>1. pc = "idle" /\ answer = "none"
  BY DEF Calls, ScanInit, ScanStat, ScanColl, ScanCollFails, IfAdd, IfDel, IfRequest,
         IfRequestFails, Call
<1>2. CASE ScanInit \/ ScanStat \/ ScanCollFails
  BY <1>1, <1>2 DEF ScanInit, ScanStat, ScanCollFails, Call, ifVars
<1>3. CASE ScanColl
  BY <1>1, <1>3 DEF ScanColl, Call, ifVars
<1>4. CASE IfAdd \/ IfDel
  BY <1>1, <1>4 DEF IfAdd, IfDel, IfRequest, Call
<1>5. CASE IfRequestFails("add") \/ IfRequestFails("del")
  BY <1>1, <1>5 DEF IfRequestFails, Call, ifVars
<1> QED
  BY <1>2, <1>3, <1>4, <1>5 DEF Calls

\* A step of a request takes no answer but its own.
LEMMA AnswerStepStep == AnswerInv /\ Step => AnswerInv'
<1> SUFFICES ASSUME AnswerInv, Step PROVE AnswerInv'
  OBVIOUS
<1>1. CASE Enlarge \/ EnlargeFails \/ CollectRefused \/ Collect
  BY <1>1, AnswerScanStep
     DEF Enlarge, EnlargeFails, CollectRefused, Collect, TooBig, FreeAndReturn, Return,
         ifVars
<1>2. CASE NextEvent \/ LastEvent \/ ExtractFails
  BY <1>2, AnswerScanStep
     DEF NextEvent, LastEvent, ExtractFails, FreeAndReturn, Return, ifVars
<1>3. CASE IfMessage
  BY <1>3 DEF IfMessage, AnswerInv, AnsweredRight, Requesting, listVars, ifVars
<1>4. CASE IfMessageFails \/ IfSendFails
  BY <1>4, AnswerFailStep DEF IfMessageFails, IfSendFails, AnswerInv, Requesting
<1>5. CASE IfSend
  <2>1. pc' = "callback" /\ op' = op /\ op \in {"add", "del"} /\ ~served
    BY <1>5 DEF IfSend, AnswerInv, Requesting
  <2>2. served' = TRUE \/ served' = served
    BY <1>5 DEF IfSend
  <2>3. CASE answer' = (IF served' THEN "ack" ELSE "error")
    BY <2>1, <2>2, <2>3 DEF AnswerInv, AnsweredRight, Requesting
  <2>4. CASE faulty' = TRUE /\ answer' = answer
    BY <1>5, <2>1, <2>2, <2>4 DEF IfSend, AnswerInv, AnsweredRight, Requesting
  <2> QED
    BY <1>5, <2>3, <2>4 DEF IfSend
<1>6. CASE IfCallback
  BY <1>6 DEF IfCallback, AnswerInv, AnsweredRight, Requesting, ifVars
<1>7. CASE IfCallbackFails
  BY <1>7, AnswerFailStep DEF IfCallbackFails, Requesting
<1>8. CASE IfReceive
  <2>1. /\ pc' = "idle" /\ answer' = "none" /\ UNCHANGED <<op, faulty, served>>
        /\ ret' = IF answer = "ack" THEN 0 ELSE -1
    BY <1>8 DEF IfReceive, ExitWith
  <2>2. pc = "receive"
    BY <1>8 DEF IfReceive
  <2> QED
    BY <2>1, <2>2 DEF AnswerInv, AnsweredRight, Requesting
<1> QED
  BY <1>1, <1>2, <1>3, <1>4, <1>5, <1>6, <1>7, <1>8 DEF Step

\* Every step keeps what is known of the answers.
LEMMA AnswerStep == AnswerInv /\ [Next]_vars => AnswerInv'
<1> SUFFICES ASSUME AnswerInv, [Next]_vars PROVE AnswerInv'
  OBVIOUS
<1>1. CASE UNCHANGED callVars
  BY <1>1 DEF callVars, ifVars, AnswerInv, AnsweredRight, Requesting
<1>2. CASE Environment
  BY <1>1, <1>2 DEF Environment, ScanEnds, OtherScan, Heard, Lost, Appear, Disappear
<1>3. CASE UNCHANGED vars
  BY <1>1, <1>3 DEF vars
<1> QED
  BY <1>2, <1>3, AnswerCallsStep, AnswerStepStep DEF Next

\* wapi_if_add() and wapi_if_del() return 0 exactly when the kernel did it, unless
\* something failed on the way.
THEOREM RequestsAreAnsweredRight == Spec => []AnsweredRight
<1>1. Init => AnswerInv
  BY DEF Init, AnswerInv, AnsweredRight, Requesting
<1>2. AnswerInv => AnsweredRight
  BY DEF AnswerInv
<1> QED
  BY <1>1, <1>2, AnswerStep, PTL DEF Spec

\* Induction over the natural numbers, of a set of them.
LEMMA Induction ==
  ASSUME NEW P \in SUBSET Nat, 0 \in P, \A n \in P : n + 1 \in P
  PROVE  P = Nat
<1> SUFFICES ASSUME Nat \ P # {} PROVE FALSE
  OBVIOUS
<1>1. PICK m \in Nat \ P : \A k \in Nat \ P : ~(<<k, m>> \in OpToRel(<, Nat))
  <2>1. Nat \ P \subseteq Nat
    OBVIOUS
  <2> QED
    BY <2>1, NatLessThanWellFounded, WFMin
<1>2. m # 0 /\ m - 1 \in Nat
  OBVIOUS
<1>3. m - 1 \in P
  <2> SUFFICES ASSUME m - 1 \notin P PROVE FALSE
    OBVIOUS
  <2>1. <<m - 1, m>> \in OpToRel(<, Nat)
    BY <1>2 DEF OpToRel
  <2> QED
    BY <1>1, <1>2, <2>1
<1>4. (m - 1) + 1 \in P
  BY <1>3
<1> QED
  BY <1>4

\* f is what a first value and a step from each value to the next define; there
\* is such a function.
Iterates(f, a, step) == f[0] = a /\ \A n \in Nat : f[n + 1] = step[<<n, f[n]>>]

\* A function that is defined by recursion on Nat obeys its own definition.
LEMMA Recursion ==
  ASSUME NEW S, NEW a \in S, NEW step \in [Nat \X S -> S]
  PROVE  \E f \in [Nat -> S] : Iterates(f, a, step)
<1> DEFINE Runs(n, g) == g[0] = a /\ \A k \in 0..(n - 1) : g[k + 1] = step[<<k, g[k]>>]
           P == { n \in Nat : \E g \in [Nat -> S] : Runs(n, g) }
           Q == { n \in Nat : \A g, h \in [Nat -> S] :
                                Runs(n, g) /\ Runs(n, h) => g[n] = h[n] }
<1>1. \A n \in Nat : \A g : Runs(n + 1, g) <=> Runs(n, g) /\ g[n + 1] = step[<<n, g[n]>>]
  OBVIOUS
<1>2. P = Nat
  <2>1. 0 \in P
    <3>1. [n \in Nat |-> a] \in [Nat -> S] /\ Runs(0, [n \in Nat |-> a])
      OBVIOUS
    <3> QED
      BY <3>1
  <2>2. ASSUME NEW n \in P PROVE n + 1 \in P
    <3>1. PICK g \in [Nat -> S] : Runs(n, g)
      OBVIOUS
    <3> DEFINE h == [g EXCEPT ![n + 1] = step[<<n, g[n]>>]]
    <3>2. h \in [Nat -> S] /\ h[n + 1] = step[<<n, g[n]>>] /\ \A k \in 0..n : h[k] = g[k]
      OBVIOUS
    <3> HIDE DEF h
    <3>3. Runs(n, h) /\ h[n + 1] = step[<<n, h[n]>>]
      BY <3>1, <3>2
    <3>4. Runs(n + 1, h)
      BY <1>1, <3>3
    <3> QED
      BY <3>2, <3>4
  <2> QED
    BY <2>1, <2>2, Induction
<1>3. Q = Nat
  <2>1. 0 \in Q
    OBVIOUS
  <2>2. ASSUME NEW n \in Q PROVE n + 1 \in Q
    <3> SUFFICES ASSUME NEW g \in [Nat -> S], NEW h \in [Nat -> S],
                        Runs(n + 1, g), Runs(n + 1, h)
                 PROVE  g[n + 1] = h[n + 1]
      OBVIOUS
    <3>1. /\ Runs(n, g) /\ g[n + 1] = step[<<n, g[n]>>]
          /\ Runs(n, h) /\ h[n + 1] = step[<<n, h[n]>>]
      BY <1>1
    <3>2. g[n] = h[n]
      BY <3>1
    <3> QED
      BY <3>1, <3>2
  <2> QED
    BY <2>1, <2>2, Induction
<1> DEFINE G(n) == CHOOSE g \in [Nat -> S] : Runs(n, g)
           f == [n \in Nat |-> G(n)[n]]
<1>4. \A n \in Nat : G(n) \in [Nat -> S] /\ Runs(n, G(n))
  BY <1>2
<1> HIDE DEF G, Runs
<1>5. f \in [Nat -> S]
  BY <1>4
<1>6. f[0] = a
  BY <1>4 DEF Runs
<1>7. ASSUME NEW n \in Nat PROVE f[n + 1] = step[<<n, f[n]>>]
  <2>1. Runs(n, G(n + 1)) /\ G(n + 1)[n + 1] = step[<<n, G(n + 1)[n]>>]
    BY <1>1, <1>4
  <2>2. G(n + 1)[n] = G(n)[n]
    BY <1>3, <1>4, <2>1
  <2> QED
    BY <2>1, <2>2
<1>8. Iterates(f, a, step)
  BY <1>6, <1>7 DEF Iterates
<1> QED
  BY <1>5, <1>8

\* A bounded set of numbers has a largest one.
LEMMA MaxIsLargest ==
  ASSUME NEW B \in Nat, NEW S \in SUBSET (0..B), S # {}
  PROVE  Max(S) \in S /\ \A x \in S : x <= Max(S)
<1> DEFINE P == { n \in Nat : \A x \in S : x + n <= B }
<1>1. 0 \in P
  OBVIOUS
<1>2. \E m \in S : \A x \in S : x <= m
  <2> SUFFICES ASSUME \A m \in S : \E x \in S : m < x PROVE FALSE
    OBVIOUS
  <2>1. ASSUME NEW n \in P PROVE n + 1 \in P
    <3>1. ASSUME NEW m \in S PROVE m + (n + 1) <= B
      <4>1. PICK x \in S : m < x
        OBVIOUS
      <4> QED
        BY <4>1
    <3> QED
      BY <3>1
  <2>2. P = Nat
    <3> HIDE DEF P
    <3>1. P \in SUBSET Nat
      BY DEF P
    <3> QED
      BY <1>1, <2>1, <3>1, Induction
  <2>3. B + 1 \in P
    <3> HIDE DEF P
    <3> QED
      BY <2>2
  <2>4. PICK x \in S : TRUE
    OBVIOUS
  <2>5. x + (B + 1) <= B
    BY <2>3
  <2> QED
    BY <2>5
<1> QED
  BY <1>2 DEF Max

\* The sizes of the buffer.
LEMMA DoubledStep ==
  /\ Doubled \in [Nat -> Nat \ {0}] /\ Doubled[0] = ScanLen
  /\ \A n \in Nat : Doubled[n + 1] = 2 * Doubled[n]
<1> DEFINE step == [q \in Nat \X Nat |-> 2 * q[2]]
           E(f) == f = [k \in Nat |-> IF k = 0 THEN ScanLen ELSE 2 * f[k - 1]]
<1>1. ScanLen \in Nat /\ ScanLen # 0
  BY LengthAssumption
<1>0. step \in [Nat \X Nat -> Nat]
  OBVIOUS
<1> HIDE DEF step
<1>2. PICK f \in [Nat -> Nat] : Iterates(f, ScanLen, step)
  BY <1>1, <1>0, Recursion
<1>3. f[0] = ScanLen /\ \A n \in Nat : f[n + 1] = 2 * f[n]
  BY <1>2 DEF Iterates, step
<1>4. E(f)
  <2>1. ASSUME NEW k \in Nat PROVE f[k] = IF k = 0 THEN ScanLen ELSE 2 * f[k - 1]
    <3>1. CASE k # 0
      <4>1. k - 1 \in Nat /\ (k - 1) + 1 = k
        BY <3>1
      <4> QED
        BY <1>3, <3>1, <4>1
    <3> QED
      BY <1>3, <3>1
  <2> QED
    BY <2>1
<1>5. Doubled = CHOOSE g : E(g)
  BY DEF Doubled
<1>6. E(Doubled)
  <2> HIDE DEF E
  <2> QED
    BY <1>4, <1>5
<1>7. Doubled[0] = ScanLen /\ \A n \in Nat : Doubled[n + 1] = 2 * Doubled[n]
  BY <1>6
<1>8. { n \in Nat : Doubled[n] \in Nat \ {0} } = Nat
  <2> DEFINE P == { n \in Nat : Doubled[n] \in Nat \ {0} }
  <2>1. 0 \in P /\ \A n \in P : n + 1 \in P
    BY <1>1, <1>7
  <2> HIDE DEF P
  <2>2. P \in SUBSET Nat
    BY DEF P
  <2> QED
    BY <2>1, <2>2, Induction DEF P
<1>9. Doubled \in [Nat -> Nat \ {0}]
  BY <1>6, <1>8
<1> QED
  BY <1>7, <1>9

\* What FlattenSeq() builds from the first sequence on.
Concats(f, ss) == f = [i \in 1..Len(ss) |-> IF i = 1 THEN ss[i] ELSE f[i-1] \o ss[i]]

\* What Concats says at one index.
LEMMA ConcatsAt ==
  ASSUME NEW f, NEW ss, Concats(f, ss), NEW i \in 1..Len(ss)
  PROVE  f[i] = IF i = 1 THEN ss[i] ELSE f[i-1] \o ss[i]
BY DEF Concats

\* There is such a function for every sequence of sequences.
LEMMA SomeConcats ==
  ASSUME NEW S, NEW ss \in Seq(Seq(S))
  PROVE  \E f : Concats(f, ss)
<1> DEFINE L == Len(ss)
           step == [q \in Nat \X Seq(S) |->
                      IF q[1] + 1 \in 1..L THEN q[2] \o ss[q[1] + 1] ELSE q[2]]
<1>1. L \in Nat /\ \A i \in 1..L : ss[i] \in Seq(S)
  OBVIOUS
<1>2. step \in [Nat \X Seq(S) -> Seq(S)]
  <2>1. ASSUME NEW q \in Nat \X Seq(S)
        PROVE  (IF q[1] + 1 \in 1..L THEN q[2] \o ss[q[1] + 1] ELSE q[2]) \in Seq(S)
    <3>1. q[2] \in Seq(S)
      OBVIOUS
    <3>2. ASSUME q[1] + 1 \in 1..L PROVE q[2] \o ss[q[1] + 1] \in Seq(S)
      BY <1>1, <3>1, <3>2, ConcatProperties
    <3> QED
      BY <3>1, <3>2
  <2> QED
    BY <2>1
<1> HIDE DEF L
<1>3. <<>> \in Seq(S)
  OBVIOUS
<1>4. PICK g \in [Nat -> Seq(S)] : Iterates(g, <<>>, step)
  <2> HIDE DEF step
  <2> QED
    BY <1>2, <1>3, Recursion
<1>5. g[0] = <<>> /\ \A n \in Nat : n + 1 \in 1..L => g[n + 1] = g[n] \o ss[n + 1]
  BY <1>4 DEF Iterates
<1> DEFINE f == [i \in 1..L |-> g[i]]
<1>6. ASSUME NEW i \in 1..L PROVE f[i] = IF i = 1 THEN ss[i] ELSE f[i-1] \o ss[i]
  <2>1. i - 1 \in Nat /\ (i - 1) + 1 = i
    BY <1>1
  <2>2. g[i] = g[i - 1] \o ss[i]
    BY <1>5, <2>1
  <2>0. f[i] = g[i] /\ (i # 1 => f[i - 1] = g[i - 1])
    BY <1>1, <2>1
  <2> HIDE DEF f
  <2>3. CASE i = 1
    <3>1. <<>> \o ss[i] = ss[i]
      BY <1>1, ConcatEmptySeq
    <3>2. g[i - 1] = <<>>
      BY <1>5, <2>3
    <3>3. f[i] = ss[i]
      BY <2>2, <2>0, <3>1, <3>2
    <3> QED
      BY <2>3, <3>3
  <2>4. CASE i # 1
    <3>1. f[i] = f[i - 1] \o ss[i]
      BY <2>2, <2>4, <2>0
    <3> QED
      BY <2>4, <3>1
  <2> QED
    BY <2>3, <2>4
<1>7. f = [i \in 1..L |-> IF i = 1 THEN ss[i] ELSE f[i-1] \o ss[i]]
  BY <1>6
<1> QED
  BY <1>7 DEF Concats, L

\* There is only one.
LEMMA SameConcats ==
  ASSUME NEW S, NEW ss \in Seq(Seq(S)), NEW tt \in Seq(Seq(S)), NEW f, NEW g,
         Concats(f, ss), Concats(g, tt), Len(ss) <= Len(tt),
         \A i \in 1..Len(ss) : ss[i] = tt[i]
  PROVE  \A i \in 1..Len(ss) : f[i] = g[i] /\ f[i] \in Seq(S)
<1> DEFINE P == { n \in Nat : n + 1 \in 1..Len(ss) =>
                                 f[n + 1] = g[n + 1] /\ f[n + 1] \in Seq(S) }
<1>1. Len(ss) \in Nat /\ Len(tt) \in Nat /\ \A i \in 1..Len(ss) : ss[i] \in Seq(S)
  OBVIOUS
<1>2. \A i \in 1..Len(ss) : /\ f[i] = IF i = 1 THEN ss[i] ELSE f[i-1] \o ss[i]
                            /\ g[i] = IF i = 1 THEN ss[i] ELSE g[i-1] \o ss[i]
  <2> SUFFICES ASSUME NEW i \in 1..Len(ss)
               PROVE  /\ f[i] = IF i = 1 THEN ss[i] ELSE f[i-1] \o ss[i]
                      /\ g[i] = IF i = 1 THEN ss[i] ELSE g[i-1] \o ss[i]
    OBVIOUS
  <2>1. i \in 1..Len(tt)
    BY <1>1
  <2>2. f[i] = IF i = 1 THEN ss[i] ELSE f[i-1] \o ss[i]
    BY ConcatsAt
  <2>3. g[i] = IF i = 1 THEN tt[i] ELSE g[i-1] \o tt[i]
    BY <2>1, ConcatsAt
  <2> QED
    BY <2>2, <2>3
<1>3. 0 \in P
  <2>1. ASSUME 1 \in 1..Len(ss) PROVE f[1] = g[1] /\ f[1] \in Seq(S)
    BY <1>1, <1>2, <2>1
  <2> QED
    BY <2>1
<1>4. ASSUME NEW n \in P PROVE n + 1 \in P
  <2> SUFFICES ASSUME (n + 1) + 1 \in 1..Len(ss)
               PROVE  f[(n + 1) + 1] = g[(n + 1) + 1] /\ f[(n + 1) + 1] \in Seq(S)
    OBVIOUS
  <2>1. n + 1 \in 1..Len(ss) /\ (n + 1) + 1 # 1 /\ ((n + 1) + 1) - 1 = n + 1
    BY <1>1
  <2>2. /\ f[(n + 1) + 1] = f[n + 1] \o ss[(n + 1) + 1]
        /\ g[(n + 1) + 1] = g[n + 1] \o ss[(n + 1) + 1]
    BY <1>2, <2>1
  <2>3. f[n + 1] = g[n + 1] /\ f[n + 1] \in Seq(S)
    BY <2>1
  <2> QED
    BY <1>1, <2>2, <2>3, ConcatProperties
<1>5. P = Nat
  <2> HIDE DEF P
  <2>1. P \in SUBSET Nat
    BY DEF P
  <2> QED
    BY <1>3, <1>4, <2>1, Induction
<1>6. ASSUME NEW i \in 1..Len(ss) PROVE f[i] = g[i] /\ f[i] \in Seq(S)
  <2>1. i - 1 \in P /\ (i - 1) + 1 = i
    <3> HIDE DEF P
    <3> QED
      BY <1>1, <1>5
  <2> QED
    BY <2>1
<1> QED
  BY <1>6

\* The concatenation of sequences, and of one more.
LEMMA FlattenConcats ==
  ASSUME NEW S, NEW ss \in Seq(Seq(S)), ss # <<>>
  PROVE  \E f : Concats(f, ss) /\ FlattenSeq(ss) = f[Len(ss)]
<1> DEFINE f == CHOOSE f : Concats(f, ss)
<1>1. Concats(f, ss)
  BY SomeConcats
<1>2. Len(ss) # 0
  OBVIOUS
<1>3. FlattenSeq(ss) = f[Len(ss)]
  BY <1>2 DEF FlattenSeq, Concats
<1> QED
  BY <1>1, <1>3

\* Flattening a longer sequence appends its last member.
LEMMA FlattenAppend ==
  ASSUME NEW S, NEW ss \in Seq(Seq(S)), NEW t \in Seq(S)
  PROVE  FlattenSeq(Append(ss, t)) = FlattenSeq(ss) \o t /\ FlattenSeq(ss) \in Seq(S)
<1> DEFINE tt == Append(ss, t)
           n == Len(ss)
<1>1. /\ tt \in Seq(Seq(S)) /\ tt # <<>> /\ Len(tt) = n + 1 /\ n \in Nat
      /\ \A i \in 1..n : tt[i] = ss[i]
      /\ tt[n + 1] = t
  BY AppendProperties, LenProperties
<1> HIDE DEF tt
<1>2. PICK g : Concats(g, tt) /\ FlattenSeq(tt) = g[Len(tt)]
  BY <1>1, FlattenConcats
<1>3. g[n + 1] = IF n + 1 = 1 THEN tt[n + 1] ELSE g[(n + 1) - 1] \o tt[n + 1]
  BY <1>1, <1>2, ConcatsAt
<1>4. CASE ss = <<>>
  <2>1. n = 0 /\ FlattenSeq(ss) = <<>> /\ <<>> \in Seq(S)
    BY <1>4 DEF FlattenSeq
  <2>2. <<>> \o t = t
    BY ConcatEmptySeq
  <2> QED
    BY <1>1, <1>2, <1>3, <2>1, <2>2 DEF tt
<1>5. CASE ss # <<>>
  <2>1. PICK f : Concats(f, ss) /\ FlattenSeq(ss) = f[n]
    BY <1>5, FlattenConcats
  <2>2. n \in 1..n /\ n + 1 # 1 /\ (n + 1) - 1 = n
    BY <1>1, <1>5
  <2>3. \A i \in 1..Len(ss) : ss[i] = tt[i]
    BY <1>1
  <2>4. n <= Len(tt)
    BY <1>1
  <2>5. f[n] = g[n] /\ f[n] \in Seq(S)
    BY <1>1, <1>2, <2>1, <2>2, <2>3, <2>4, SameConcats
  <2> QED
    BY <1>1, <1>2, <1>3, <2>1, <2>2, <2>5 DEF tt
<1> QED
  BY <1>4, <1>5

\* The kernel's result grows by what it reports of each access point.
LEMMA ReportedType ==
  ASSUME NEW a \in Aps
  PROVE  /\ Reported(a) \in Seq(Event) /\ Len(Reported(a)) = Len(Report[a]) + 1
         /\ Len(Reported(a)) \in Nat \ {0}
         /\ Reported(a)[1] = [cmd |-> "ap", val |-> a]
         /\ \A j \in 2..Len(Reported(a)) : Reported(a)[j].cmd # "ap"
<1> DEFINE e == [cmd |-> "ap", val |-> a]
<1>1. e \in Event /\ <<e>> \in Seq(Event) /\ Len(<<e>>) = 1 /\ <<e>>[1] = e
  BY ReportAssumption DEF Event, Kinds
<1> DEFINE T == [cmd : Kinds \ {"ap"}, val : Nat]
<1>2. Report[a] \in Seq(T) /\ T \subseteq Event /\ \A x \in T : x.cmd # "ap"
  BY ReportAssumption DEF Event
<1> HIDE DEF T
<1>3. Report[a] \in Seq(Event) /\ Len(Report[a]) \in Nat
  BY <1>2, SeqMonotonic, LenProperties
<1>4. \A j \in 1..Len(Report[a]) : Report[a][j].cmd # "ap"
  BY <1>2, ElementOfSeq
<1> HIDE DEF e
<1>5. /\ <<e>> \o Report[a] \in Seq(Event) /\ Len(<<e>> \o Report[a]) = 1 + Len(Report[a])
      /\ \A i \in 1..1 + Len(Report[a]) :
           (<<e>> \o Report[a])[i] = IF i <= 1 THEN <<e>>[i] ELSE Report[a][i - 1]
  BY <1>1, <1>3, ConcatProperties
<1>6. Reported(a) = <<e>> \o Report[a]
  BY DEF Reported, e
<1>7. (<<e>> \o Report[a])[1] = e
  BY <1>1, <1>3, <1>5
<1>8. ASSUME NEW j \in 2..Len(<<e>> \o Report[a]) PROVE (<<e>> \o Report[a])[j].cmd # "ap"
  <2>1. j - 1 \in 1..Len(Report[a]) /\ j \in 1..1 + Len(Report[a]) /\ ~(j <= 1)
    BY <1>3, <1>5
  <2> QED
    BY <1>4, <1>5, <2>1
<1> QED
  BY <1>3, <1>5, <1>6, <1>7, <1>8 DEF e

\* An empty result has no events.
LEMMA EventsOfNone == EventsOf(<<>>) = <<>>
<1>1. [i \in 1..Len(<<>>) |-> Reported(<<>>[i])] = <<>>
  OBVIOUS
<1> QED
  BY <1>1 DEF EventsOf, FlattenSeq

\* What FlattenSeq() is applied to in EventsOf.
LEMMA ReportsType ==
  ASSUME NEW b \in Seq(Aps)
  PROVE  /\ [i \in 1..Len(b) |-> Reported(b[i])] \in Seq(Seq(Event))
         /\ Len([i \in 1..Len(b) |-> Reported(b[i])]) = Len(b)
<1>1. Len(b) \in Nat /\ \A i \in 1..Len(b) : b[i] \in Aps
  OBVIOUS
<1>2. \A i \in 1..Len(b) : Reported(b[i]) \in Seq(Event)
  BY <1>1, ReportedType
<1> QED
  BY <1>1, <1>2

\* The events of one more access point follow those of the others.
LEMMA EventsOfAppend ==
  ASSUME NEW b \in Seq(Aps), NEW a \in Aps
  PROVE  EventsOf(Append(b, a)) = EventsOf(b) \o Reported(a) /\ EventsOf(b) \in Seq(Event)
<1> DEFINE r(c) == [i \in 1..Len(c) |-> Reported(c[i])]
<1>1. /\ Append(b, a) \in Seq(Aps) /\ Len(Append(b, a)) = Len(b) + 1 /\ Len(b) \in Nat
      /\ \A i \in 1..Len(b) : Append(b, a)[i] = b[i]
      /\ Append(b, a)[Len(b) + 1] = a
  BY AppendProperties, LenProperties
<1>2. r(b) \in Seq(Seq(Event)) /\ Len(r(b)) = Len(b)
      /\ r(Append(b, a)) \in Seq(Seq(Event)) /\ Len(r(Append(b, a))) = Len(b) + 1
  BY <1>1, ReportsType
<1>3. Reported(a) \in Seq(Event)
  BY ReportedType
<1>4. /\ Append(r(b), Reported(a)) \in Seq(Seq(Event))
      /\ Len(Append(r(b), Reported(a))) = Len(b) + 1
      /\ \A i \in 1..Len(b) : Append(r(b), Reported(a))[i] = r(b)[i]
      /\ Append(r(b), Reported(a))[Len(b) + 1] = Reported(a)
  <2> HIDE DEF r
  <2> QED
    BY <1>2, <1>3, AppendProperties
<1>5. /\ \A i \in 1..Len(b) : r(Append(b, a))[i] = r(b)[i]
      /\ r(Append(b, a))[Len(b) + 1] = Reported(a)
  BY <1>1
<1> HIDE DEF r
<1>6. r(Append(b, a)) = Append(r(b), Reported(a))
  <2>1. ASSUME NEW i \in 1..Len(b) + 1
        PROVE  r(Append(b, a))[i] = Append(r(b), Reported(a))[i]
    BY <1>1, <1>4, <1>5
  <2> QED
    BY <1>2, <1>4, <2>1, SeqEqual
<1>7. /\ FlattenSeq(Append(r(b), Reported(a))) = FlattenSeq(r(b)) \o Reported(a)
      /\ FlattenSeq(r(b)) \in Seq(Event)
  BY <1>2, <1>3, FlattenAppend
<1> QED
  BY <1>6, <1>7 DEF EventsOf, r

(***************************************************************************)
(* Types.                                                                  *)
(***************************************************************************)
LEMMA EventsOfType ==
  ASSUME NEW b \in Seq(Aps)
  PROVE  EventsOf(b) \in Seq(Event) /\ Size(b) \in Nat
<1>1. CASE Aps = {}
  <2>1. b = <<>>
    BY <1>1
  <2>2. EventsOf(b) = <<>> /\ <<>> \in Seq(Event) /\ Len(<<>>) = 0
    BY <2>1, EventsOfNone, EmptySeq
  <2> QED
    BY <2>2 DEF Size
<1>2. CASE Aps # {}
  <2>1. PICK a \in Aps : TRUE
    BY <1>2
  <2>2. EventsOf(b) \in Seq(Event)
    BY EventsOfAppend
  <2> QED
    BY <2>2, LenProperties DEF Size
<1> QED
  BY <1>1, <1>2

\* The kernel's tables, the call, and what wapi_scan_coll() works on.
RadioOK == scanning \in BOOLEAN /\ bss \in Seq(Aps)
TableOK == ifs \in [Names -> Nat] /\ nextIndex \in Nat
StepOK  ==
  /\ pc \in {"idle", "collect", "events", "message", "send", "callback", "receive"}
  /\ op \in {"none", "init", "stat", "coll", "add", "del"} /\ ret \in {-1, 0, 1}
  /\ held \subseteq {"buf", "sock", "msg", "cb"}
FlagsOK == faulty \in BOOLEAN /\ served \in BOOLEAN
IfOK    == name \in Names \cup {NoName} /\ ifidx \in Nat /\ answer \in {"none", "ack", "error"}
ScanOK  == /\ buflen \in 0..IntMod /\ stream \in Seq(Event) /\ iwe \in Event
           /\ dumped \in Seq(Aps) /\ peak \in Nat

TypeInv == RadioOK /\ TableOK /\ StepOK /\ FlagsOK /\ IfOK /\ ScanOK

\* Before the first event the reader holds one that says nothing.
LEMMA NoEventType == NoEvent \in Event
BY DEF NoEvent, Event, Kinds

\* Init establishes the types.
LEMMA TypeInit == Init => TypeInv
<1> SUFFICES ASSUME Init PROVE TypeInv
  OBVIOUS
<1> USE DEF Init
<1>1. RadioOK
  <2>1. scanning \in BOOLEAN
    BY Zenon
  <2>2. bss \in Seq(Aps)
    OBVIOUS
  <2> QED
    BY <2>1, <2>2 DEF RadioOK
<1>2. TableOK
  BY DEF TableOK
<1>3. StepOK
  BY DEF StepOK
<1>4. FlagsOK
  BY DEF FlagsOK
<1>5. IfOK
  BY DEF IfOK
<1>6. ScanOK
  BY LengthAssumption, NoEventType DEF ScanOK
<1> QED
  BY <1>1, <1>2, <1>3, <1>4, <1>5, <1>6 DEF TypeInv

\* The radio: its table, the scan that is under way and its state.
LEMMA RadioStep == RadioOK /\ [Next]_vars => RadioOK'
<1> SUFFICES ASSUME RadioOK, [Next]_vars PROVE RadioOK'
  OBVIOUS
<1>1. CASE UNCHANGED radioVars
  BY <1>1 DEF radioVars, RadioOK
<1>2. CASE ScanInit
  BY <1>2 DEF ScanInit, RadioOK
<1>3. CASE ScanEnds \/ OtherScan
  BY <1>3 DEF ScanEnds, OtherScan, RadioOK
<1>4. ASSUME NEW a \in Aps, Heard(a) PROVE RadioOK'
  BY <1>4, AppendProperties DEF Heard, RadioOK
<1>5. ASSUME NEW a \in Aps, Lost(a) PROVE RadioOK'
  <2>1. PICK k \in 1..Len(bss) : bss' = RemoveAt(bss, k)
    BY <1>5 DEF Lost
  <2>2. bss \in Seq(Aps) /\ Len(bss) \in Nat
    BY DEF RadioOK
  <2>3. SubSeq(bss, 1, k - 1) \in Seq(Aps)
    <3>1. \A i \in 1..(k - 1) : bss[i] \in Aps
      BY <2>2, ElementOfSeq
    <3> QED
      BY <2>2, <3>1, SubSeqProperties
  <2>4. SubSeq(bss, k + 1, Len(bss)) \in Seq(Aps)
    <3>1. \A i \in (k + 1)..Len(bss) : bss[i] \in Aps
      BY <2>2, ElementOfSeq
    <3> QED
      BY <2>2, <3>1, SubSeqProperties
  <2>5. bss' \in Seq(Aps)
    BY <2>1, <2>3, <2>4, ConcatProperties DEF RemoveAt
  <2> QED
    BY <1>5, <2>5 DEF Lost, RadioOK
<1>6. CASE Calls
  BY <1>1, <1>2, <1>6 DEF Calls, ScanStat, ScanColl, ScanCollFails, IfAdd, IfDel,
     IfRequest,
     IfRequestFails
<1>7. CASE Step
  BY <1>1, <1>7 DEF Step, Enlarge, EnlargeFails, CollectRefused, Collect, NextEvent,
     LastEvent,
     ExtractFails, IfMessage, IfMessageFails, IfSend, IfSendFails, IfCallback,
     IfCallbackFails, IfReceive
<1>8. CASE Environment
  BY <1>1, <1>3, <1>4, <1>5, <1>8 DEF Environment, Appear, Disappear
<1>9. CASE UNCHANGED vars
  BY <1>1, <1>9 DEF vars
<1> QED
  BY <1>6, <1>7, <1>8, <1>9 DEF Next

\* The table of interfaces and the last request.
LEMMA TableStep == TableOK /\ [Next]_vars => TableOK'
<1> SUFFICES ASSUME TableOK, [Next]_vars PROVE TableOK'
  OBVIOUS
<1>1. CASE UNCHANGED tableVars
  BY <1>1 DEF tableVars, TableOK
<1>2. CASE IfSend
  <2>1. CASE KernelServes
    BY <2>1 DEF KernelServes, TableOK
  <2> QED
    BY <1>1, <1>2, <2>1 DEF IfSend
<1>3. ASSUME NEW n \in Names, Appear(n) \/ Disappear(n) PROVE TableOK'
  BY <1>3 DEF Appear, Disappear, TableOK
<1>4. CASE Calls
  BY <1>1, <1>4 DEF Calls, ScanInit, ScanStat, ScanColl, ScanCollFails, IfAdd, IfDel,
     IfRequest,
     IfRequestFails
<1>5. CASE Step
  BY <1>1, <1>2, <1>5 DEF Step, Enlarge, EnlargeFails, CollectRefused, Collect,
     NextEvent,
     LastEvent, ExtractFails, IfMessage, IfMessageFails, IfSendFails, IfCallback,
     IfCallbackFails, IfReceive
<1>6. CASE Environment
  BY <1>1, <1>3, <1>6 DEF Environment, ScanEnds, OtherScan, Heard, Lost
<1>7. CASE UNCHANGED vars
  BY <1>1, <1>7 DEF vars
<1> QED
  BY <1>4, <1>5, <1>6, <1>7 DEF Next

\* Where a call is.
LEMMA StepStepOK == StepOK /\ [Next]_vars => StepOK'
<1> SUFFICES ASSUME StepOK, [Next]_vars PROVE StepOK'
  OBVIOUS
<1> USE DEF StepOK
<1>1. CASE UNCHANGED callVars
  BY <1>1 DEF callVars
<1>2. CASE ScanInit \/ ScanStat \/ ScanColl \/ ScanCollFails
  BY <1>2 DEF ScanInit, ScanStat, ScanColl, ScanCollFails, Call
<1>3. CASE IfAdd \/ IfDel \/ IfRequestFails("add") \/ IfRequestFails("del")
  BY <1>3 DEF IfAdd, IfDel, IfRequest, IfRequestFails, Call
<1>4. CASE Enlarge \/ EnlargeFails \/ CollectRefused \/ Collect
  BY <1>4 DEF Enlarge, EnlargeFails, CollectRefused, Collect, FreeAndReturn, Return
<1>5. CASE NextEvent \/ LastEvent \/ ExtractFails
  BY <1>5 DEF NextEvent, LastEvent, ExtractFails, FreeAndReturn, Return
<1>6. CASE IfMessage \/ IfSend \/ IfCallback
  BY <1>6 DEF IfMessage, IfSend, IfCallback
<1>7. CASE IfMessageFails \/ IfSendFails \/ IfCallbackFails \/ IfReceive
  BY <1>7 DEF IfMessageFails, IfSendFails, IfCallbackFails, IfReceive, ExitWith
<1>8. CASE Environment
  BY <1>1, <1>8 DEF Environment, ScanEnds, OtherScan, Heard, Lost, Appear, Disappear
<1>9. CASE UNCHANGED vars
  BY <1>1, <1>9 DEF vars
<1> QED
  BY <1>2, <1>3, <1>4, <1>5, <1>6, <1>7, <1>8, <1>9 DEF Next, Calls, Step

\* The requests for an interface.
LEMMA IfStep == IfOK /\ TableOK /\ [Next]_vars => IfOK'
<1> SUFFICES ASSUME IfOK, TableOK, [Next]_vars PROVE IfOK'
  OBVIOUS
<1>1. CASE UNCHANGED ifVars
  BY <1>1 DEF ifVars, IfOK
<1>2. ASSUME NEW o, NEW n \in Names, NEW m \in Names, IfRequest(o, n, m) PROVE IfOK'
  BY <1>2 DEF IfRequest, IfOK, TableOK
<1>3. ASSUME NEW r, ExitWith(r) PROVE IfOK'
  BY <1>3 DEF ExitWith, IfOK
<1>4. CASE IfSend
  BY <1>4 DEF IfSend, IfOK
<1>5. CASE Calls
  BY <1>1, <1>2, <1>5 DEF Calls, ScanInit, ScanStat, ScanColl, ScanCollFails, IfAdd,
     IfDel,
     IfRequestFails
<1>6. CASE Step
  BY <1>1, <1>3, <1>4, <1>6 DEF Step, Enlarge, EnlargeFails, CollectRefused, Collect,
     NextEvent,
     LastEvent, ExtractFails, IfMessage, IfMessageFails, IfSendFails, IfCallback,
     IfCallbackFails, IfReceive
<1>7. CASE Environment
  BY <1>1, <1>7 DEF Environment, ScanEnds, OtherScan, Heard, Lost, Appear, Disappear,
     callVars
<1>8. CASE UNCHANGED vars
  BY <1>1, <1>8 DEF vars, callVars
<1> QED
  BY <1>5, <1>6, <1>7, <1>8 DEF Next

\* What a call allocates and what it has seen.
LEMMA FlagsStep == FlagsOK /\ RadioOK /\ [Next]_vars => FlagsOK'
<1> SUFFICES ASSUME FlagsOK, RadioOK, [Next]_vars PROVE FlagsOK'
  OBVIOUS
<1>1. CASE UNCHANGED <<faulty, served>>
  BY <1>1 DEF FlagsOK
<1>2. CASE Calls
  <2>1. faulty' = FALSE /\ served' = FALSE
    BY <1>2 DEF Calls, ScanInit, ScanStat, ScanColl, ScanCollFails, IfAdd, IfDel,
       IfRequest,
       IfRequestFails, Call
  <2> QED
    BY <2>1 DEF FlagsOK
<1>3. CASE UNCHANGED served /\ \E b \in BOOLEAN : faulty' = b
  BY <1>3 DEF FlagsOK
<1>4. CASE EnlargeFails
  <2>1. (Grown(buflen) < IntMod) \in BOOLEAN
    OBVIOUS
  <2> QED
    BY <1>3, <1>4, <2>1 DEF EnlargeFails
<1>5. CASE CollectRefused
  <2>1. (~scanning) \in BOOLEAN
    OBVIOUS
  <2> QED
    BY <1>3, <1>5, <2>1 DEF CollectRefused
<1>6. CASE NextEvent
  <2>1. (~UnknownMode(Head(stream))) \in BOOLEAN
    OBVIOUS
  <2>2. UNCHANGED served
    BY <1>6 DEF NextEvent
  <2>3. faulty' = faulty \/ faulty' = (~UnknownMode(Head(stream)))
    BY <1>6 DEF NextEvent
  <2> QED
    BY <1>1, <1>3, <2>1, <2>2, <2>3
<1>7. CASE LastEvent \/ ExtractFails
  BY <1>1, <1>3, <1>7 DEF LastEvent, ExtractFails
<1>8. CASE IfMessageFails
  <2>1. (ifidx # 0) \in BOOLEAN
    OBVIOUS
  <2> QED
    BY <1>3, <1>8, <2>1 DEF IfMessageFails
<1>9. CASE IfSend
  BY <1>9, Zenon DEF IfSend, FlagsOK
<1>10. CASE IfSendFails \/ IfCallbackFails
  BY <1>3, <1>10 DEF IfSendFails, IfCallbackFails
<1>11. CASE Enlarge \/ Collect \/ IfMessage \/ IfCallback \/ IfReceive
  BY <1>1, <1>11 DEF Enlarge, Collect, IfMessage, IfCallback, IfReceive
<1>12. CASE Environment
  BY <1>1, <1>12 DEF Environment, ScanEnds, OtherScan, Heard, Lost, Appear,
     Disappear, callVars
<1>13. CASE UNCHANGED vars
  BY <1>1, <1>13 DEF vars, callVars
<1> QED
  BY <1>2, <1>4, <1>5, <1>6, <1>7, <1>8, <1>9, <1>10, <1>11, <1>12, <1>13 DEF Next,
     Step

\* The scan calls, but for the list they make.
LEMMA ScanStep == ScanOK /\ RadioOK /\ [Next]_vars => ScanOK'
<1> SUFFICES ASSUME ScanOK, RadioOK, [Next]_vars PROVE ScanOK'
  OBVIOUS
<1>1. CASE UNCHANGED <<bufVars, dumped, peak>>
  BY <1>1 DEF bufVars, ScanOK
<1>2. ASSUME NEW o, NEW r, Call(o, r), UNCHANGED bufVars PROVE ScanOK'
  BY <1>2 DEF Call, bufVars, ScanOK
<1>3. CASE ScanColl
  BY <1>3, LengthAssumption DEF ScanColl, Call, ScanOK
<1>4. ASSUME NEW r, FreeAndReturn(r), dumped' \in Seq(Aps), peak' \in Nat PROVE ScanOK'
  BY <1>4, LengthAssumption, NoEventType DEF FreeAndReturn, Return, ScanOK
<1>5. Size(bss) \in Nat /\ EventsOf(bss) \in Seq(Event)
  BY EventsOfType DEF RadioOK
<1>6. CASE Enlarge
  BY <1>5, <1>6, LengthAssumption DEF Enlarge, Grown, ScanOK
<1>7. CASE EnlargeFails
  BY <1>4, <1>5, <1>7 DEF EnlargeFails, ScanOK
<1>8. CASE CollectRefused \/ ExtractFails \/ LastEvent
  BY <1>4, <1>8 DEF CollectRefused, ExtractFails, LastEvent, listVars, ScanOK
<1>9. CASE Collect
  <2>1. dumped' \in Seq(Aps) /\ peak' \in Nat
    BY <1>9 DEF Collect, RadioOK, ScanOK
  <2>2. CASE stream' = EventsOf(bss) /\ UNCHANGED <<buflen, iwe>>
    BY <1>5, <2>1, <2>2 DEF ScanOK
  <2> QED
    BY <1>4, <1>9, <2>1, <2>2 DEF Collect
<1>10. CASE NextEvent
  <2>1. dumped' \in Seq(Aps) /\ peak' \in Nat
    BY <1>10 DEF NextEvent, ScanOK
  <2>2. CASE iwe' = Head(stream) /\ stream' = Tail(stream) /\ UNCHANGED buflen
    BY <1>10, <2>1, <2>2, HeadTailProperties DEF NextEvent, ScanOK
  <2> QED
    BY <1>4, <1>10, <2>1, <2>2 DEF NextEvent
<1>11. CASE Calls
  BY <1>2, <1>3, <1>11 DEF Calls, ScanInit, ScanStat, ScanCollFails, IfAdd, IfDel,
     IfRequest,
     IfRequestFails
<1>12. CASE Step
  BY <1>1, <1>6, <1>7, <1>8, <1>9, <1>10, <1>12 DEF Step, IfMessage, IfMessageFails,
     IfSend,
     IfSendFails, IfCallback, IfCallbackFails, IfReceive, listVars
<1>13. CASE Environment
  BY <1>1, <1>13 DEF Environment, ScanEnds, OtherScan, Heard, Lost, Appear,
     Disappear, callVars,
     listVars
<1>14. CASE UNCHANGED vars
  BY <1>1, <1>14 DEF vars, callVars, listVars
<1> QED
  BY <1>11, <1>12, <1>13, <1>14 DEF Next

\* Every step keeps the types.
LEMMA TypeStep == TypeInv /\ [Next]_vars => TypeInv'
BY RadioStep, TableStep, StepStepOK, IfStep, FlagsStep, ScanStep DEF TypeInv

(***************************************************************************)
(* The buffer.                                                             *)
(***************************************************************************)
LEMMA DoubledGrows == \A n \in Nat : \A m \in 0..(n - 1) : 2 * Doubled[m] <= Doubled[n]
<1> DEFINE P == { n \in Nat : \A m \in 0..(n - 1) : 2 * Doubled[m] <= Doubled[n] }
<1>1. 0 \in P
  OBVIOUS
<1>2. ASSUME NEW n \in P PROVE n + 1 \in P
  <2>1. Doubled[n + 1] = 2 * Doubled[n] /\ Doubled[n] \in Nat
    BY DoubledStep
  <2>2. ASSUME NEW m \in 0..((n + 1) - 1) PROVE 2 * Doubled[m] <= Doubled[n + 1]
    <3>1. m \in Nat /\ Doubled[m] \in Nat
      BY DoubledStep
    <3>2. m = n \/ 2 * Doubled[m] <= Doubled[n]
      OBVIOUS
    <3> QED
      BY <2>1, <3>1, <3>2
  <2> QED
    BY <2>2
<1>3. P = Nat
  <2> HIDE DEF P
  <2>1. P \in SUBSET Nat
    BY DEF P
  <2> QED
    BY <1>1, <1>2, <2>1, Induction
<1> QED
  BY <1>3

\* The largest size that fits is one of the buffer's sizes; the buffer has it
\* when it is no larger and twice its size is.
LEMMA LargestFits ==
  /\ Largest \in Nat /\ Largest < LengthMod
  /\ \E k \in Nat : Largest = Doubled[k]
<1> DEFINE S == { n \in 1..(LengthMod - 1) : \E k \in 0..LengthMod : n = Doubled[k] }
<1>1. LengthMod \in Nat /\ ScanLen \in 1..(LengthMod - 1) /\ 0 \in 0..LengthMod
  BY LengthAssumption
<1>2. ScanLen = Doubled[0]
  BY DoubledStep
<1>3. ScanLen \in S
  BY <1>1, <1>2
<1>4. S \in SUBSET (0..LengthMod)
  BY <1>1
<1>5. Largest = Max(S)
  BY DEF Largest
<1>6. Max(S) \in S
  <2> HIDE DEF S
  <2> QED
    BY <1>1, <1>3, <1>4, MaxIsLargest
<1> QED
  BY <1>1, <1>5, <1>6

\* The first buffer is not larger than the largest one.
LEMMA FirstIsSmall == ScanLen <= Largest
<1>1. PICK k \in Nat : Largest = Doubled[k]
  BY LargestFits
<1>2. CASE k = 0
  BY <1>1, <1>2, DoubledStep, LengthAssumption
<1>3. CASE k # 0
  <2>1. 0 \in 0..(k - 1)
    BY <1>3
  <2>2. 2 * Doubled[0] <= Doubled[k]
    BY <2>1, DoubledGrows
  <2> QED
    BY <1>1, <2>2, DoubledStep, LengthAssumption
<1> QED
  BY <1>2, <1>3

\* A size that fits and whose double does not is the largest that fits.
LEMMA LastThatFits ==
  ASSUME NEW k \in Nat, Doubled[k] <= Largest, Largest < 2 * Doubled[k]
  PROVE  Doubled[k] = Largest
<1>1. PICK m \in Nat : Largest = Doubled[m]
  BY LargestFits
<1>2. Doubled[k] \in Nat \ {0} /\ Doubled[m] \in Nat \ {0}
  BY DoubledStep
<1>3. CASE k < m
  <2>1. 2 * Doubled[k] <= Doubled[m]
    BY <1>3, DoubledGrows
  <2> QED
    BY <1>1, <1>2, <2>1
<1>4. CASE m < k
  <2>1. 2 * Doubled[m] <= Doubled[k]
    BY <1>4, DoubledGrows
  <2> QED
    BY <1>1, <1>2, <2>1
<1>5. CASE k = m
  BY <1>1, <1>5
<1> QED
  BY <1>3, <1>4, <1>5

\* The buffer is larger than that only when a result was.
BufferInv ==
  pc = "collect" =>
    /\ \E k \in Nat : buflen = Doubled[k]
    /\ buflen > Largest => peak > Largest

\* A result for which the last size that fits is too small is larger than it.
LEMMA TooBigForLargest ==
  ASSUME TypeInv, BufferInv, TooBig, Largest < Grown(buflen)
  PROVE  Size(bss) > Largest \/ peak > Largest
<1>1. PICK k \in Nat : buflen = Doubled[k]
  BY DEF BufferInv, TooBig
<1>2. buflen \in Nat /\ Largest \in Nat /\ Largest < LengthMod /\ LengthMod \in Nat
  BY <1>1, DoubledStep, LargestFits, LengthAssumption
<1>3. CASE buflen > Largest
  BY <1>3 DEF BufferInv, TooBig
<1>4. CASE buflen <= Largest
  <2>1. buflen = Largest
    BY <1>1, <1>2, <1>4, LastThatFits DEF Grown
  <2>2. Length(buflen) = buflen
    BY <1>2, <2>1 DEF Length
  <2> QED
    BY <2>1, <2>2 DEF TooBig
<1> QED
  BY <1>2, <1>3, <1>4

\* Every step keeps what is known of the buffer.
LEMMA BufferStep == TypeInv /\ BufferInv /\ [Next]_vars => BufferInv'
<1> SUFFICES ASSUME TypeInv, BufferInv, [Next]_vars, pc' = "collect" PROVE BufferInv'
  BY DEF BufferInv
<1>1. CASE UNCHANGED <<pc, buflen, peak>>
  BY <1>1 DEF BufferInv
<1>2. CASE ScanColl
  BY <1>2, DoubledStep, FirstIsSmall, LargestFits, LengthAssumption DEF ScanColl,
     BufferInv
<1>3. CASE Enlarge
  <2>1. /\ TooBig /\ buflen' = 2 * buflen
        /\ peak' = IF Size(bss) > peak THEN Size(bss) ELSE peak
    BY <1>3 DEF Enlarge, Grown
  <2>2. PICK k \in Nat : buflen = Doubled[k]
    BY <2>1 DEF BufferInv, TooBig
  <2>3. buflen' = Doubled[k + 1]
    BY <2>1, <2>2, DoubledStep
  <2>4. Size(bss) \in Nat /\ peak \in Nat /\ Largest \in Nat
    BY EventsOfType, LargestFits DEF TypeInv, RadioOK, ScanOK
  <2>5. ASSUME buflen' > Largest PROVE peak' > Largest
    <3>1. Size(bss) > Largest \/ peak > Largest
      BY <2>1, <2>5, TooBigForLargest DEF Grown, TypeInv, ScanOK
    <3> QED
      BY <2>1, <2>4, <3>1
  <2> QED
    BY <2>3, <2>5 DEF BufferInv
<1>4. CASE Calls
  <2>1. pc = "idle"
    BY <1>4 DEF Calls, ScanInit, ScanStat, ScanColl, ScanCollFails, IfAdd, IfDel,
       IfRequest,
       IfRequestFails, Call
  <2> QED
    BY <1>2, <1>4, <2>1 DEF Calls, ScanInit, ScanStat, ScanCollFails, IfAdd, IfDel,
       IfRequest,
       IfRequestFails, Call
<1>5. CASE Step
  BY <1>3, <1>5 DEF Step, EnlargeFails, CollectRefused, Collect, NextEvent, LastEvent,
     ExtractFails, FreeAndReturn, Return, IfMessage, IfMessageFails, IfSend,
     IfSendFails,
     IfCallback, IfCallbackFails, IfReceive, ExitWith
<1>6. CASE Environment
  BY <1>1, <1>6 DEF Environment, ScanEnds, OtherScan, Heard, Lost, Appear, Disappear,
     callVars,
     bufVars, listVars
<1>7. CASE UNCHANGED vars
  BY <1>1, <1>7 DEF vars, callVars, bufVars, listVars
<1> QED
  BY <1>4, <1>5, <1>6, <1>7 DEF Next

\* A scan result is given up as too big only when it is: the buffer is doubled
\* as long as a larger one fits the length of a request, so a result that is
\* refused for its size is longer than every buffer wapi_scan_coll() can ask for.
THEOREM BufferGrowsEnough == Spec => GivesUpOnHugeOnly
<1>1. Init => TypeInv /\ BufferInv
  BY TypeInit DEF Init, BufferInv
<1>2. TypeInv /\ BufferInv /\ [Next]_vars => (TypeInv /\ BufferInv)'
  BY TypeStep, BufferStep
<1>3. TypeInv /\ BufferInv /\ [Next]_vars =>
        [pc = "collect" /\ pc' = "idle" /\ ret' = -1 =>
           faulty' \/ scanning \/ peak' > Largest]_vars
  <2> SUFFICES ASSUME TypeInv, BufferInv, Next, pc = "collect", pc' = "idle"
               PROVE  faulty' \/ scanning \/ peak' > Largest \/ ret' # -1
    BY DEF vars, callVars
  <2>1. EnlargeFails \/ CollectRefused \/ Collect
    BY DEF Next, Calls, ScanInit, ScanStat, ScanColl, ScanCollFails, IfAdd, IfDel,
       IfRequest,
       IfRequestFails, Call, Step, Enlarge, NextEvent, LastEvent, ExtractFails, IfMessage,
       IfMessageFails, IfSend, IfSendFails, IfCallback, IfCallbackFails, IfReceive,
       Environment, ScanEnds, OtherScan, Heard, Lost, Appear, Disappear, callVars
  <2>2. CASE EnlargeFails
    <3>1. /\ TooBig /\ faulty' = (Grown(buflen) < IntMod)
          /\ peak' = IF Size(bss) > peak THEN Size(bss) ELSE peak
      BY <2>2 DEF EnlargeFails
    <3>2. Size(bss) \in Nat /\ peak \in Nat /\ Largest \in Nat /\ Largest < LengthMod
          /\ buflen \in Nat /\ LengthMod \in Nat /\ IntMod \in Nat /\ LengthMod <= IntMod
      BY EventsOfType, LargestFits, LengthAssumption DEF TypeInv, RadioOK, ScanOK
    <3>3. CASE Grown(buflen) < IntMod
      BY <3>1, <3>3
    <3>4. CASE ~(Grown(buflen) < IntMod)
      <4>1. Largest < Grown(buflen)
        BY <3>2, <3>4 DEF Grown
      <4>2. Size(bss) > Largest \/ peak > Largest
        BY <3>1, <4>1, TooBigForLargest
      <4> QED
        BY <3>1, <3>2, <4>2
    <3> QED
      BY <3>3, <3>4
  <2>3. CASE CollectRefused
    BY <2>3 DEF CollectRefused
  <2>4. CASE Collect
    BY <2>4 DEF Collect, FreeAndReturn, Return
  <2> QED
    BY <2>1, <2>2, <2>3, <2>4
<1> QED
  BY <1>1, <1>2, <1>3, PTL DEF Spec, GivesUpOnHugeOnly

(***************************************************************************)
(* Cells.                                                                  *)
(***************************************************************************)
Cell == [ap : Aps, freq : Nat, mode : Nat, essid : Nat, rate : Nat]

\* A member of a set that no other exceeds is its maximum.
LEMMA MaxOne ==
  ASSUME NEW B \in Nat, NEW S \in SUBSET (0..B), NEW m \in S, \A x \in S : x <= m
  PROVE  Max(S) = m
<1> DEFINE M == Max(S)
<1>1. M \in S /\ \A x \in S : x <= M
  BY MaxIsLargest
<1> HIDE DEF M
<1>2. m <= M /\ M <= m /\ m \in Nat /\ M \in Nat
  BY <1>1
<1> QED
  BY <1>2 DEF M

\* The last value of a kind: the next event's, or what it was before.
LEMMA ValuesNext ==
  ASSUME NEW a \in Aps, NEW k, NEW n \in 0..(Len(Reported(a)) - 1)
  PROVE  ValuesAt(a, k, n + 1) = IF Reported(a)[n + 1].cmd = k
                                   THEN ValuesAt(a, k, n) \cup {n + 1} ELSE ValuesAt(a, k, n)
<1>1. n \in Nat
  BY ReportedType
<1>2. 1..(n + 1) = (1..n) \cup {n + 1}
  BY <1>1
<1> QED
  BY <1>2 DEF ValuesAt

\* The last value of a field, one event further.
LEMMA LastNext ==
  ASSUME NEW a \in Aps, NEW k, NEW n \in 0..(Len(Reported(a)) - 1)
  PROVE  LastAt(a, k, n + 1) = IF Reported(a)[n + 1].cmd = k
                                 THEN Reported(a)[n + 1].val ELSE LastAt(a, k, n)
<1>1. n \in Nat
  BY ReportedType
<1>2. CASE Reported(a)[n + 1].cmd = k
  <2>1. ValuesAt(a, k, n + 1) = ValuesAt(a, k, n) \cup {n + 1}
    BY <1>2, ValuesNext
  <2>2. ValuesAt(a, k, n) \subseteq 1..n
    BY DEF ValuesAt
  <2>3. Max(ValuesAt(a, k, n + 1)) = n + 1
    <3>1. ValuesAt(a, k, n + 1) \in SUBSET (0..(n + 1)) /\ n + 1 \in Nat
      BY <1>1, <2>1, <2>2
    <3>2. n + 1 \in ValuesAt(a, k, n + 1) /\ \A x \in ValuesAt(a, k, n + 1) : x <= n + 1
      BY <1>1, <2>1, <2>2
    <3> QED
      BY <3>1, <3>2, MaxOne
  <2> QED
    BY <1>2, <2>1, <2>3 DEF LastAt
<1>3. CASE Reported(a)[n + 1].cmd # k
  BY <1>3, ValuesNext DEF LastAt
<1> QED
  BY <1>2, <1>3

\* The values of a report, and the largest of its bit rates.
LEMMA ValueType ==
  ASSUME NEW a \in Aps, NEW i \in 1..Len(Reported(a))
  PROVE  Reported(a)[i].val \in Nat
<1>1. Reported(a)[i] \in Event
  BY ReportedType, ElementOfSeq
<1> QED
  BY <1>1 DEF Event

\* The last value of a field is a number.
LEMMA LastType ==
  ASSUME NEW a \in Aps, NEW k, NEW n \in 0..Len(Reported(a))
  PROVE  LastAt(a, k, n) \in Nat
<1> DEFINE S == ValuesAt(a, k, n)
<1>1. n \in Nat /\ Len(Reported(a)) \in Nat
  BY ReportedType, LenProperties
<1>2. S \in SUBSET (0..n) /\ S \subseteq 1..Len(Reported(a))
  BY <1>1 DEF ValuesAt
<1>3. CASE S = {}
  BY <1>3 DEF LastAt
<1>4. CASE S # {}
  <2>1. Max(S) \in S
    <3> HIDE DEF S
    <3> QED
      BY <1>1, <1>2, <1>4, MaxIsLargest
  <2>2. Reported(a)[Max(S)].val \in Nat
    BY <1>2, <2>1, ValueType
  <2> QED
    BY <1>4, <2>2 DEF LastAt
<1> QED
  BY <1>3, <1>4

\* What the bit rates are the largest of.
Rates(a, n) == {0} \cup { Reported(a)[i].val : i \in ValuesAt(a, "rate", n) }

\* The rates that were reported, one event further.
LEMMA RatesNext ==
  ASSUME NEW a \in Aps, NEW n \in 0..(Len(Reported(a)) - 1)
  PROVE  Rates(a, n + 1) = IF Reported(a)[n + 1].cmd = "rate"
                             THEN Rates(a, n) \cup {Reported(a)[n + 1].val} ELSE Rates(a, n)
<1>1. CASE Reported(a)[n + 1].cmd = "rate"
  <2>1. ValuesAt(a, "rate", n + 1) = ValuesAt(a, "rate", n) \cup {n + 1}
    BY <1>1, ValuesNext
  <2> QED
    BY <1>1, <2>1 DEF Rates
<1>2. CASE Reported(a)[n + 1].cmd # "rate"
  BY <1>2, ValuesNext DEF Rates
<1> QED
  BY <1>1, <1>2

\* They are bounded, however many they are.
LEMMA RatesBounded ==
  ASSUME NEW a \in Aps
  PROVE  \A n \in 0..Len(Reported(a)) : \E B \in Nat : Rates(a, n) \in SUBSET (0..B)
<1> DEFINE P == { n \in Nat : n <= Len(Reported(a)) =>
                                 \E B \in Nat : Rates(a, n) \in SUBSET (0..B) }
<1>1. Len(Reported(a)) \in Nat
  BY ReportedType, LenProperties
<1>2. 0 \in P
  <2>1. ValuesAt(a, "rate", 0) = {}
    BY DEF ValuesAt
  <2>2. Rates(a, 0) \in SUBSET (0..0)
    BY <2>1 DEF Rates
  <2> QED
    BY <2>2
<1>3. ASSUME NEW n \in P PROVE n + 1 \in P
  <2> SUFFICES ASSUME n + 1 <= Len(Reported(a))
               PROVE  \E B \in Nat : Rates(a, n + 1) \in SUBSET (0..B)
    OBVIOUS
  <2>1. n \in 0..(Len(Reported(a)) - 1) /\ n + 1 \in 1..Len(Reported(a))
    BY <1>1
  <2>2. PICK B \in Nat : Rates(a, n) \in SUBSET (0..B)
    BY <1>1, <2>1
  <2> DEFINE v == Reported(a)[n + 1].val
  <2>3. v \in Nat
    BY <2>1, ValueType
  <2> HIDE DEF v
  <2>4. Rates(a, n + 1) \subseteq Rates(a, n) \cup {v}
    BY <2>1, RatesNext DEF v
  <2>5. B + v \in Nat /\ Rates(a, n + 1) \in SUBSET (0..(B + v))
    BY <2>2, <2>3, <2>4
  <2> QED
    BY <2>5
<1>4. P = Nat
  <2> HIDE DEF P
  <2>1. P \in SUBSET Nat
    BY DEF P
  <2> QED
    BY <1>2, <1>3, <2>1, Induction
<1> QED
  BY <1>1, <1>4

\* The best rate, one event further: larger ones replace it.
LEMMA BestNext ==
  ASSUME NEW a \in Aps, NEW n \in 0..(Len(Reported(a)) - 1)
  PROVE  /\ BestAt(a, n) \in Nat
         /\ BestAt(a, n + 1) = IF /\ Reported(a)[n + 1].cmd = "rate"
                                  /\ ~(BestAt(a, n) > Reported(a)[n + 1].val)
                                 THEN Reported(a)[n + 1].val ELSE BestAt(a, n)
<1> DEFINE v == Reported(a)[n + 1].val
<1>1. /\ n \in 0..Len(Reported(a)) /\ n + 1 \in 0..Len(Reported(a))
      /\ n + 1 \in 1..Len(Reported(a))
  BY ReportedType, LenProperties
<1>2. v \in Nat
  BY <1>1, ValueType
<1>3. PICK B \in Nat : Rates(a, n) \in SUBSET (0..B)
  BY <1>1, RatesBounded
<1>4. PICK C \in Nat : Rates(a, n + 1) \in SUBSET (0..C)
  BY <1>1, RatesBounded
<1>5. BestAt(a, n) = Max(Rates(a, n)) /\ BestAt(a, n + 1) = Max(Rates(a, n + 1))
  BY DEF BestAt, Rates
<1>6. Rates(a, n) # {} 
  BY DEF Rates
<1>7. BestAt(a, n) \in Rates(a, n) /\ \A x \in Rates(a, n) : x <= BestAt(a, n)
  BY <1>3, <1>5, <1>6, MaxIsLargest
<1>8. BestAt(a, n) \in Nat
  BY <1>3, <1>7
<1> HIDE DEF v
<1>9. CASE Reported(a)[n + 1].cmd = "rate"
  <2>1. Rates(a, n + 1) = Rates(a, n) \cup {v}
    BY <1>9, RatesNext DEF v
  <2>2. CASE BestAt(a, n) > v
    <3>1. BestAt(a, n) \in Rates(a, n + 1) /\ \A x \in Rates(a, n + 1) : x <= BestAt(a, n)
      BY <1>2, <1>7, <1>8, <2>1, <2>2
    <3>2. BestAt(a, n + 1) = BestAt(a, n)
      BY <1>4, <1>5, <3>1, MaxOne
    <3> QED
      BY <1>8, <2>2, <3>2 DEF v
  <2>3. CASE ~(BestAt(a, n) > v)
    <3>1. v \in Rates(a, n + 1) /\ \A x \in Rates(a, n + 1) : x <= v
      BY <1>2, <1>3, <1>7, <1>8, <2>1, <2>3
    <3>2. BestAt(a, n + 1) = v
      BY <1>4, <1>5, <3>1, MaxOne
    <3> QED
      BY <1>8, <1>9, <2>3, <3>2 DEF v
  <2> QED
    BY <2>2, <2>3
<1>10. CASE Reported(a)[n + 1].cmd # "rate"
  BY <1>5, <1>8, <1>10, RatesNext
<1> QED
  BY <1>9, <1>10

\* What is noted of an access point is a cell.
LEMMA CellType ==
  ASSUME NEW a \in Aps, NEW n \in 1..Len(Reported(a))
  PROVE  CellAt(a, n) \in Cell
<1>1. n \in 0..Len(Reported(a)) /\ n - 1 \in 0..(Len(Reported(a)) - 1) /\ (n - 1) + 1 = n
  BY ReportedType, LenProperties
<1>2. BestAt(a, n) \in Nat
  <2>1. PICK B \in Nat : Rates(a, n) \in SUBSET (0..B)
    BY <1>1, RatesBounded
  <2>2. Rates(a, n) # {} /\ BestAt(a, n) = Max(Rates(a, n))
    BY DEF BestAt, Rates
  <2>3. BestAt(a, n) \in Rates(a, n)
    BY <2>1, <2>2, MaxIsLargest
  <2> QED
    BY <2>1, <2>3
<1>3. LastAt(a, "freq", n) \in Nat /\ LastAt(a, "mode", n) \in Nat /\ LastAt(a, "essid", n) \in Nat
  BY <1>1, LastType
<1> QED
  BY <1>2, <1>3 DEF CellAt, Cell

\* A cell that has been made of the first events and takes the next one.
LEMMA CellNext ==
  ASSUME NEW a \in Aps, NEW n \in 1..(Len(Reported(a)) - 1)
  PROVE  CellAt(a, n + 1) = IF Reported(a)[n + 1].cmd = "other" THEN CellAt(a, n)
                              ELSE Noted(CellAt(a, n), Reported(a)[n + 1])
<1> DEFINE e == Reported(a)[n + 1]
<1>1. /\ n \in 0..(Len(Reported(a)) - 1) /\ n + 1 \in 2..Len(Reported(a))
      /\ n + 1 \in 1..Len(Reported(a))
  BY ReportedType, LenProperties
<1>2. e.cmd \in {"freq", "mode", "essid", "rate", "other"}
  <2>1. e.cmd # "ap"
    BY <1>1, ReportedType
  <2>2. e \in Event
    BY <1>1, ReportedType, ElementOfSeq
  <2> HIDE DEF e
  <2> QED
    BY <2>1, <2>2 DEF Event, Kinds
<1>3. \A k : LastAt(a, k, n + 1) = IF e.cmd = k THEN e.val ELSE LastAt(a, k, n)
  BY <1>1, LastNext
<1>4. BestAt(a, n + 1) =
        IF e.cmd = "rate" /\ ~(BestAt(a, n) > e.val) THEN e.val ELSE BestAt(a, n)
  BY <1>1, BestNext
<1> HIDE DEF e
<1>5. CASE e.cmd = "freq"
  BY <1>3, <1>4, <1>5 DEF CellAt, Noted, e
<1>6. CASE e.cmd = "mode"
  BY <1>3, <1>4, <1>6 DEF CellAt, Noted, e
<1>7. CASE e.cmd = "essid"
  BY <1>3, <1>4, <1>7 DEF CellAt, Noted, e
<1>8. CASE e.cmd = "rate"
  BY <1>3, <1>4, <1>8 DEF CellAt, Noted, e
<1>9. CASE e.cmd = "other"
  BY <1>3, <1>4, <1>9 DEF CellAt, Noted, e
<1> QED
  BY <1>2, <1>5, <1>6, <1>7, <1>8, <1>9

\* The first event makes a cell of which nothing is known.
LEMMA CellFirst == ASSUME NEW a \in Aps PROVE CellAt(a, 1) = NewCell(a)
<1>1. 0 \in 0..(Len(Reported(a)) - 1) /\ Reported(a)[0 + 1].cmd = "ap"
  <2>1. Len(Reported(a)) \in Nat \ {0} /\ Reported(a)[1] = [cmd |-> "ap", val |-> a]
    BY ReportedType
  <2> QED
    BY <2>1
<1>2. \A k : ValuesAt(a, k, 0) = {}
  BY DEF ValuesAt
<1>3. \A k : LastAt(a, k, 0) = 0
  BY <1>2 DEF LastAt
<1>4. \A k : k # "ap" => LastAt(a, k, 1) = 0
  BY <1>1, <1>3, LastNext
<1>5. Rates(a, 0) = {0} /\ 0 \in Nat
  BY <1>2 DEF Rates
<1>6. Max({0}) = 0
  BY MaxOne
<1>7. BestAt(a, 0) = 0
  BY <1>5, <1>6 DEF BestAt, Rates
<1>8. BestAt(a, 1) = 0
  BY <1>1, <1>7, BestNext
<1> QED
  BY <1>4, <1>8 DEF CellAt, NewCell

\* The last event, handled twice, changes nothing.
LEMMA CellAgain ==
  ASSUME NEW a \in Aps, NEW n \in 2..Len(Reported(a))
  PROVE  Reported(a)[n].cmd # "other" => Noted(CellAt(a, n), Reported(a)[n]) = CellAt(a, n)
<1> DEFINE e == Reported(a)[n]
<1>1. n - 1 \in 0..(Len(Reported(a)) - 1) /\ (n - 1) + 1 = n /\ n \in 1..Len(Reported(a))
  BY ReportedType
<1>2. e.cmd \in {"freq", "mode", "essid", "rate", "other"} /\ e.val \in Nat
  <2>1. e.cmd # "ap"
    BY ReportedType
  <2>2. e \in Event
    BY <1>1, ReportedType, ElementOfSeq
  <2> HIDE DEF e
  <2> QED
    BY <2>1, <2>2 DEF Event, Kinds
<1>3. LastAt(a, e.cmd, n) = e.val
  BY <1>1, LastNext
<1>4. BestAt(a, n - 1) \in Nat
      /\ BestAt(a, n) =
            IF e.cmd = "rate" /\ ~(BestAt(a, n - 1) > e.val) THEN e.val ELSE BestAt(a, n - 1)
  BY <1>1, BestNext
<1> HIDE DEF e
<1>5. CASE e.cmd = "freq"
  BY <1>3, <1>5 DEF CellAt, Noted, e
<1>6. CASE e.cmd = "mode"
  BY <1>3, <1>6 DEF CellAt, Noted, e
<1>7. CASE e.cmd = "essid"
  BY <1>3, <1>7 DEF CellAt, Noted, e
<1>8. CASE e.cmd = "rate"
  <2>1. BestAt(a, n) = e.val \/ BestAt(a, n) > e.val
    BY <1>2, <1>4, <1>8
  <2> QED
    BY <1>8, <2>1 DEF CellAt, Noted, e
<1> QED
  BY <1>2, <1>5, <1>6, <1>7, <1>8 DEF e

(***************************************************************************)
(* Where the events of an access point are in a result.                    *)
(***************************************************************************)
LEMMA BeforeType ==
  ASSUME NEW b \in Seq(Aps), NEW n \in 0..Len(b)
  PROVE  /\ SubSeq(b, 1, n) \in Seq(Aps) /\ Len(SubSeq(b, 1, n)) = n
         /\ \A i \in 1..n : SubSeq(b, 1, n)[i] = b[i]
<1>1. n \in Nat /\ Len(b) \in Nat
  BY LenProperties
<1>2. \A i \in 1..n : b[i] \in Aps
  BY <1>1, ElementOfSeq
<1>3. /\ SubSeq(b, 1, n) \in Seq(Aps) /\ Len(SubSeq(b, 1, n)) = IF 1 <= n THEN n-1+1 ELSE 0
      /\ \A i \in 1..(n-1+1) : SubSeq(b, 1, n)[i] = b[1+i-1]
  BY <1>1, <1>2, SubSeqProperties
<1>4. \A i \in 1..n : i \in 1..(n-1+1) /\ 1+i-1 = i
  BY <1>1
<1>5. \A i \in 1..n : SubSeq(b, 1, n)[i] = b[i]
  BY <1>3, <1>4
<1> QED
  BY <1>1, <1>3, <1>5

\* The first i access points of a result are those before the i-th, and it.
LEMMA BeforeNext ==
  ASSUME NEW b \in Seq(Aps), NEW i \in 1..Len(b)
  PROVE  SubSeq(b, 1, i) = Append(SubSeq(b, 1, i - 1), b[i])
<1>1. i - 1 \in 0..Len(b) /\ i \in 0..Len(b) /\ (i - 1) + 1 = i /\ b[i] \in Aps
  BY LenProperties, ElementOfSeq
<1> DEFINE s == SubSeq(b, 1, i)
           t == SubSeq(b, 1, i - 1)
<1>2. /\ s \in Seq(Aps) /\ Len(s) = i /\ \A k \in 1..i : s[k] = b[k]
      /\ t \in Seq(Aps) /\ Len(t) = i - 1 /\ \A k \in 1..(i - 1) : t[k] = b[k]
  BY <1>1, BeforeType
<1> HIDE DEF s, t
<1>3. /\ Append(t, b[i]) \in Seq(Aps) /\ Len(Append(t, b[i])) = i
      /\ \A k \in 1..(i - 1) : Append(t, b[i])[k] = t[k]
      /\ Append(t, b[i])[i] = b[i]
  BY <1>1, <1>2, AppendProperties
<1>4. \A k \in 1..i : Append(t, b[i])[k] = s[k]
  BY <1>2, <1>3
<1>5. s = Append(t, b[i])
  BY <1>2, <1>3, <1>4, SeqEqual
<1> QED
  BY <1>5 DEF s, t

\* The events of the first n access points, and of one more.
LEMMA EventsNext ==
  ASSUME NEW b \in Seq(Aps), NEW i \in 1..Len(b)
  PROVE  /\ EventsOf(SubSeq(b, 1, i)) = EventsOf(SubSeq(b, 1, i - 1)) \o Reported(b[i])
         /\ Size(SubSeq(b, 1, i)) = Size(SubSeq(b, 1, i - 1)) + Len(Reported(b[i]))
<1>1. i - 1 \in 0..Len(b) /\ b[i] \in Aps
  BY LenProperties, ElementOfSeq
<1>2. SubSeq(b, 1, i - 1) \in Seq(Aps)
  BY <1>1, BeforeType
<1>3. EventsOf(SubSeq(b, 1, i)) = EventsOf(SubSeq(b, 1, i - 1)) \o Reported(b[i])
  BY <1>1, <1>2, BeforeNext, EventsOfAppend
<1>4. EventsOf(SubSeq(b, 1, i - 1)) \in Seq(Event) /\ Reported(b[i]) \in Seq(Event)
  BY <1>1, <1>2, EventsOfType, ReportedType
<1> QED
  BY <1>3, <1>4, ConcatProperties DEF Size

\* The events of the first access points come first.
Opens(s, t) == Len(s) <= Len(t) /\ \A p \in 1..Len(s) : t[p] = s[p]

\* The events of the first access points start those of the result.
LEMMA FirstEvents ==
  ASSUME NEW b \in Seq(Aps), NEW n \in 0..Len(b)
  PROVE  Opens(EventsOf(SubSeq(b, 1, n)), EventsOf(b))
<1> DEFINE E(k) == EventsOf(SubSeq(b, 1, k))
           P == { k \in Nat : n + k <= Len(b) => Opens(E(n), E(n + k)) }
<1>1. n \in Nat /\ Len(b) \in Nat
  BY LenProperties
<1>2. \A k \in 0..Len(b) : E(k) \in Seq(Event) /\ Len(E(k)) \in Nat
  BY BeforeType, EventsOfType, LenProperties
<1>3. \A k \in 0..(Len(b) - 1) : Opens(E(k), E(k + 1))
  <2> SUFFICES ASSUME NEW k \in 0..(Len(b) - 1) PROVE Opens(E(k), E(k + 1))
    OBVIOUS
  <2>1. k + 1 \in 1..Len(b) /\ (k + 1) - 1 = k /\ k \in 0..Len(b)
    BY <1>1
  <2>2. b[k + 1] \in Aps
    BY <2>1, ElementOfSeq
  <2> DEFINE r == Reported(b[k + 1])
  <2>3. E(k + 1) = E(k) \o r
    BY <2>1, EventsNext
  <2>4. E(k) \in Seq(Event) /\ r \in Seq(Event) /\ Len(E(k)) \in Nat /\ Len(r) \in Nat
    BY <1>2, <2>1, <2>2, ReportedType, LenProperties
  <2> HIDE DEF E, r
  <2>5. /\ Len(E(k) \o r) = Len(E(k)) + Len(r)
        /\ \A p \in 1..Len(E(k)) + Len(r) :
              (E(k) \o r)[p] = IF p <= Len(E(k)) THEN E(k)[p] ELSE r[p - Len(E(k))]
    BY <2>4, ConcatProperties
  <2>6. \A p \in 1..Len(E(k)) : (E(k) \o r)[p] = E(k)[p]
    BY <2>4, <2>5
  <2> QED
    BY <2>3, <2>4, <2>5, <2>6 DEF Opens
<1> HIDE DEF E
<1>4. 0 \in P
  <2>1. n + 0 = n /\ Len(E(n)) \in Nat
    BY <1>1, <1>2
  <2> QED
    BY <2>1 DEF Opens
<1>5. ASSUME NEW k \in P PROVE k + 1 \in P
  <2> SUFFICES ASSUME n + (k + 1) <= Len(b) PROVE Opens(E(n), E(n + (k + 1)))
    OBVIOUS
  <2>1. n + k \in 0..(Len(b) - 1) /\ n + k \in 0..Len(b) /\ n + (k + 1) = (n + k) + 1
        /\ (n + k) + 1 \in 0..Len(b) /\ n + k <= Len(b)
    BY <1>1
  <2>2. Opens(E(n), E(n + k)) /\ Opens(E(n + k), E((n + k) + 1))
    BY <1>3, <2>1
  <2>3. Len(E(n)) \in Nat /\ Len(E(n + k)) \in Nat /\ Len(E((n + k) + 1)) \in Nat
    BY <1>2, <2>1
  <2>4. Opens(E(n), E((n + k) + 1))
    BY <2>2, <2>3 DEF Opens
  <2> QED
    BY <2>1, <2>4
<1>6. P = Nat
  <2> HIDE DEF P
  <2>1. P \in SUBSET Nat
    BY DEF P
  <2> QED
    BY <1>4, <1>5, <2>1, Induction
<1>7. Len(b) - n \in Nat /\ n + (Len(b) - n) = Len(b)
  BY <1>1
<1>8. Opens(E(n), E(Len(b)))
  <2>1. Len(b) - n \in P
    <3> HIDE DEF P
    <3> QED
      BY <1>6, <1>7
  <2> QED
    BY <1>7, <2>1
<1> QED
  BY <1>8, SubSeqFull DEF E

\* The place of the j-th event of the i-th access point.
Place(b, i, j) == Size(SubSeq(b, 1, i - 1)) + j

\* The j-th event of the i-th access point is at its place.
LEMMA EventAt ==
  ASSUME NEW b \in Seq(Aps), NEW i \in 1..Len(b), NEW j \in 1..Len(Reported(b[i]))
  PROVE  /\ Place(b, i, j) \in 1..Size(b)
         /\ EventsOf(b)[Place(b, i, j)] = Reported(b[i])[j]
<1> DEFINE s == EventsOf(SubSeq(b, 1, i - 1))
           r == Reported(b[i])
           E == EventsOf(b)
<1>1. i - 1 \in 0..Len(b) /\ i \in 0..Len(b) /\ b[i] \in Aps
  BY LenProperties, ElementOfSeq
<1>2. s \in Seq(Event) /\ r \in Seq(Event) /\ Len(s) \in Nat /\ Len(r) \in Nat
  BY <1>1, BeforeType, EventsOfType, ReportedType, LenProperties
<1>3. Opens(s \o r, E)
  BY <1>1, FirstEvents, EventsNext
<1>4. Len(E) \in Nat
  BY EventsOfType, LenProperties
<1>5. Place(b, i, j) = Len(s) + j /\ Size(b) = Len(E)
  BY DEF Place, Size
<1>6. j \in 1..Len(r)
  OBVIOUS
<1> HIDE DEF s, r, E
<1>7. /\ Len(s \o r) = Len(s) + Len(r)
      /\ \A p \in 1..Len(s) + Len(r) :
            (s \o r)[p] = IF p <= Len(s) THEN s[p] ELSE r[p - Len(s)]
  BY <1>2, ConcatProperties
<1>8. /\ Len(s) + j \in 1..Len(s) + Len(r)
      /\ ~(Len(s) + j <= Len(s)) /\ (Len(s) + j) - Len(s) = j
  BY <1>2, <1>6
<1>9. (s \o r)[Len(s) + j] = r[j]
  BY <1>7, <1>8
<1>10. Len(s) + j \in 1..Len(E) /\ E[Len(s) + j] = r[j]
  BY <1>2, <1>3, <1>4, <1>7, <1>8, <1>9 DEF Opens
<1> QED
  BY <1>5, <1>10 DEF r, E

\* The first event of the first access point is the first of all.
LEMMA PlaceFirst == ASSUME NEW b \in Seq(Aps) PROVE Place(b, 1, 1) = 1
<1>1. SubSeq(b, 1, 1 - 1) = <<>>
  BY SubSeqEmpty
<1>2. Size(SubSeq(b, 1, 1 - 1)) = 0
  <2>1. Size(SubSeq(b, 1, 1 - 1)) = Len(<<>>)
    BY <1>1, EventsOfNone, Zenon DEF Size
  <2> QED
    BY <2>1
<1> QED
  BY <1>2 DEF Place

\* The first event of an access point follows the last of the one before.
LEMMA PlaceNext ==
  ASSUME NEW b \in Seq(Aps), NEW i \in 1..Len(b)
  PROVE  /\ \A j \in Nat : Place(b, i, j + 1) = Place(b, i, j) + 1
         /\ Place(b, i + 1, 1) = Place(b, i, Len(Reported(b[i]))) + 1
         /\ i = Len(b) => Place(b, i, Len(Reported(b[i]))) = Size(b)
<1>1. i - 1 \in 0..Len(b) /\ b[i] \in Aps /\ (i + 1) - 1 = i
  BY LenProperties, ElementOfSeq
<1>2. Size(SubSeq(b, 1, i - 1)) \in Nat /\ Len(Reported(b[i])) \in Nat
  BY <1>1, BeforeType, EventsOfType, ReportedType
<1>3. Size(SubSeq(b, 1, i)) = Size(SubSeq(b, 1, i - 1)) + Len(Reported(b[i]))
  BY EventsNext
<1>4. i = Len(b) => Size(SubSeq(b, 1, i)) = Size(b)
  BY SubSeqFull
<1> QED
  BY <1>1, <1>2, <1>3, <1>4 DEF Place

(***************************************************************************)
(* The cells of a result.                                                  *)
(***************************************************************************)
LEMMA CellOfType == ASSUME NEW a \in Aps PROVE CellOf(a) \in Cell
<1>0. Len(Reported(a)) \in Nat \ {0}
  BY ReportedType
<1>1. Len(Reported(a)) \in 1..Len(Reported(a))
  BY <1>0
<1> QED
  BY <1>1, CellType DEF CellOf

\* The list of a result is one of cells.
LEMMA CellsType ==
  ASSUME NEW b \in Seq(Aps)
  PROVE  /\ Cells(b) \in Seq(Cell) /\ Len(Cells(b)) = Len(b)
         /\ \A i \in 1..Len(b) : Cells(b)[i] = CellOf(b[(Len(b) - i) + 1])
<1> DEFINE r == [i \in 1..Len(b) |-> CellOf(b[i])]
<1>1. Len(b) \in Nat /\ \A i \in 1..Len(b) : b[i] \in Aps
  BY LenProperties, ElementOfSeq
<1>2. Len(r) = Len(b)
  BY <1>1
<1>3. Cells(b) = [i \in 1..Len(b) |-> r[(Len(b) - i) + 1]]
  BY <1>2 DEF Cells, Reverse
<1>4. \A i \in 1..Len(b) : (Len(b) - i) + 1 \in 1..Len(b)
  BY <1>1
<1>5. Cells(b) = [i \in 1..Len(b) |-> CellOf(b[(Len(b) - i) + 1])]
  BY <1>3, <1>4
<1>6. \A i \in 1..Len(b) : CellOf(b[(Len(b) - i) + 1]) \in Cell
  BY <1>1, <1>4, CellOfType
<1> QED
  BY <1>1, <1>5, <1>6

\* One more access point adds its cell in front.
LEMMA CellsNext ==
  ASSUME NEW b \in Seq(Aps), NEW i \in 1..Len(b)
  PROVE  Cells(SubSeq(b, 1, i)) = <<CellOf(b[i])>> \o Cells(SubSeq(b, 1, i - 1))
<1> DEFINE s == SubSeq(b, 1, i)
           t == SubSeq(b, 1, i - 1)
           c == CellOf(b[i])
<1>1. i - 1 \in 0..Len(b) /\ i \in 0..Len(b) /\ b[i] \in Aps /\ i - 1 \in Nat
  BY LenProperties, ElementOfSeq
<1>2. /\ s \in Seq(Aps) /\ Len(s) = i /\ \A k \in 1..i : s[k] = b[k]
      /\ t \in Seq(Aps) /\ Len(t) = i - 1 /\ \A k \in 1..(i - 1) : t[k] = b[k]
  BY <1>1, BeforeType
<1>3. c \in Cell
  BY <1>1, CellOfType
<1> HIDE DEF s, t
<1>4. /\ Cells(s) \in Seq(Cell) /\ Len(Cells(s)) = i
      /\ \A k \in 1..i : Cells(s)[k] = CellOf(s[(i - k) + 1])
      /\ Cells(t) \in Seq(Cell) /\ Len(Cells(t)) = i - 1
      /\ \A k \in 1..(i - 1) : Cells(t)[k] = CellOf(t[((i - 1) - k) + 1])
  <2>1. /\ Cells(s) \in Seq(Cell) /\ Len(Cells(s)) = Len(s)
        /\ \A k \in 1..Len(s) : Cells(s)[k] = CellOf(s[(Len(s) - k) + 1])
    BY <1>2, CellsType
  <2>2. /\ Cells(t) \in Seq(Cell) /\ Len(Cells(t)) = Len(t)
        /\ \A k \in 1..Len(t) : Cells(t)[k] = CellOf(t[(Len(t) - k) + 1])
    BY <1>2, CellsType
  <2>3. Len(s) = i /\ Len(t) = i - 1
    BY <1>2
  <2> QED
    BY <2>1, <2>2, <2>3, Zenon
<1> HIDE DEF c
<1>5. <<c>> \in Seq(Cell) /\ Len(<<c>>) = 1 /\ <<c>>[1] = c
  BY <1>3
<1>6. /\ <<c>> \o Cells(t) \in Seq(Cell) /\ Len(<<c>> \o Cells(t)) = 1 + (i - 1)
      /\ \A k \in 1..1 + (i - 1) :
            (<<c>> \o Cells(t))[k] = IF k <= 1 THEN <<c>>[k] ELSE Cells(t)[k - 1]
  BY <1>4, <1>5, ConcatProperties
<1>7. ASSUME NEW k \in 1..i PROVE (<<c>> \o Cells(t))[k] = Cells(s)[k]
  <2>1. CASE k = 1
    <3>1. Cells(s)[k] = CellOf(b[i])
      BY <1>2, <1>4, <2>1
    <3> QED
      BY <1>1, <1>5, <1>6, <2>1, <3>1 DEF c
  <2>2. CASE k # 1
    <3>1. k - 1 \in 1..(i - 1) /\ k \in 1..1 + (i - 1) /\ ~(k <= 1)
          /\ ((i - 1) - (k - 1)) + 1 = (i - k) + 1
          /\ (i - k) + 1 \in 1..(i - 1) /\ (i - k) + 1 \in 1..i
      BY <1>1, <2>2
    <3>2. (<<c>> \o Cells(t))[k] = Cells(t)[k - 1]
      BY <1>6, <3>1
    <3>3. Cells(t)[k - 1] = CellOf(t[(i - k) + 1])
      BY <1>4, <3>1
    <3>4. t[(i - k) + 1] = s[(i - k) + 1]
      BY <1>2, <3>1
    <3> QED
      BY <1>4, <3>2, <3>3, <3>4
  <2> QED
    BY <2>1, <2>2
<1>8. Len(<<c>> \o Cells(t)) = i
  BY <1>1, <1>6
<1>9. Cells(s) = <<c>> \o Cells(t)
  BY <1>4, <1>6, <1>7, <1>8, SeqEqual
<1> QED
  BY <1>9 DEF s, t, c

\* The cells of the first access points end the list.
LEMMA SuffixOfCells ==
  ASSUME NEW b \in Seq(Aps), NEW n \in 0..Len(b)
  PROVE  IsSuffix(Cells(SubSeq(b, 1, n)), Cells(b))
<1> DEFINE t == SubSeq(b, 1, n)
           R(c) == Reverse(Cells(c))
<1>1. n \in Nat /\ Len(b) \in Nat /\ n <= Len(b)
  BY LenProperties
<1>2. t \in Seq(Aps) /\ Len(t) = n /\ \A k \in 1..n : t[k] = b[k]
  BY BeforeType
<1>3. \A c \in Seq(Aps) : R(c) = [k \in 1..Len(c) |-> CellOf(c[k])]
  <2> SUFFICES ASSUME NEW c \in Seq(Aps) PROVE R(c) = [k \in 1..Len(c) |-> CellOf(c[k])]
    OBVIOUS
  <2>1. Len(c) \in Nat /\ Len(Cells(c)) = Len(c)
        /\ \A i \in 1..Len(c) : Cells(c)[i] = CellOf(c[(Len(c) - i) + 1])
    BY CellsType, LenProperties
  <2>2. \A k \in 1..Len(c) : /\ (Len(c) - k) + 1 \in 1..Len(c)
                             /\ (Len(c) - ((Len(c) - k) + 1)) + 1 = k
    BY <2>1
  <2>3. \A k \in 1..Len(c) : Cells(c)[(Len(c) - k) + 1] = CellOf(c[k])
    BY <2>1, <2>2
  <2> QED
    BY <2>1, <2>3 DEF Reverse
<1>4. R(t) = [k \in 1..n |-> CellOf(t[k])] /\ R(b) = [k \in 1..Len(b) |-> CellOf(b[k])]
  BY <1>2, <1>3
<1> HIDE DEF t, R
<1>5. Len(R(t)) = n /\ Len(R(b)) = Len(b) /\ \A k \in 1..n : R(t)[k] = R(b)[k]
  BY <1>1, <1>2, <1>4
<1>6. SubSeq(R(t), 1, n) = SubSeq(R(b), 1, n)
  BY <1>1, <1>5
<1> QED
  BY <1>1, <1>5, <1>6 DEF IsSuffix, IsPrefix, R, t

(***************************************************************************)
(* The list, event by event.                                               *)
(***************************************************************************)
\* The list when j events of the i-th access point have been handled.
ListAt(b, i, j) == <<CellAt(b[i], j)>> \o Cells(SubSeq(b, 1, i - 1))

\* A list with one more cell in front: its type, length and members.
LEMMA ConsList ==
  ASSUME NEW c \in Cell, NEW l \in Seq(Cell)
  PROVE  /\ <<c>> \o l \in Seq(Cell) /\ <<c>> \o l # <<>>
         /\ (<<c>> \o l)[1] = c /\ Tail(<<c>> \o l) = l
         /\ \A d \in Cell : [<<c>> \o l EXCEPT ![1] = d] = <<d>> \o l
<1>1. Len(l) \in Nat
  BY LenProperties
<1>2. \A d \in Cell :
        /\ <<d>> \o l \in Seq(Cell) /\ Len(<<d>> \o l) = 1 + Len(l) /\ (<<d>> \o l)[1] = d
        /\ \A k \in 2..1 + Len(l) : (<<d>> \o l)[k] = l[k - 1]
  <2> SUFFICES ASSUME NEW d \in Cell
               PROVE  /\ <<d>> \o l \in Seq(Cell) /\ Len(<<d>> \o l) = 1 + Len(l)
                      /\ (<<d>> \o l)[1] = d
                      /\ \A k \in 2..1 + Len(l) : (<<d>> \o l)[k] = l[k - 1]
    OBVIOUS
  <2>1. <<d>> \in Seq(Cell) /\ Len(<<d>>) = 1 /\ <<d>>[1] = d
    OBVIOUS
  <2>2. /\ <<d>> \o l \in Seq(Cell) /\ Len(<<d>> \o l) = 1 + Len(l)
        /\ \A k \in 1..1 + Len(l) :
              (<<d>> \o l)[k] = IF k <= 1 THEN <<d>>[k] ELSE l[k - 1]
    BY <2>1, ConcatProperties
  <2>3. 1 \in 1..1 + Len(l) /\ \A k \in 2..1 + Len(l) : k \in 1..1 + Len(l) /\ ~(k <= 1)
    BY <1>1
  <2> QED
    BY <2>1, <2>2, <2>3
<1> DEFINE s == <<c>> \o l
<1>3. /\ s \in Seq(Cell) /\ Len(s) = 1 + Len(l) /\ s[1] = c
      /\ \A k \in 2..1 + Len(l) : s[k] = l[k - 1]
  BY <1>2
<1> HIDE DEF s
<1>4. s # <<>>
  BY <1>1, <1>3
<1>5. Tail(s) = l
  <2>1. Tail(s) \in Seq(Cell) /\ Len(Tail(s)) = Len(l)
        /\ \A k \in 1..Len(Tail(s)) : Tail(s)[k] = s[k + 1]
    BY <1>1, <1>3, <1>4, HeadTailProperties
  <2>2. \A k \in 1..Len(l) : k + 1 \in 2..1 + Len(l) /\ (k + 1) - 1 = k
    BY <1>1
  <2>3. \A k \in 1..Len(Tail(s)) : Tail(s)[k] = l[k]
    BY <1>3, <2>1, <2>2
  <2> QED
    BY <2>1, <2>3, SeqEqual
<1>6. ASSUME NEW d \in Cell PROVE [s EXCEPT ![1] = d] = <<d>> \o l
  <2> DEFINE t == <<d>> \o l
             u == [s EXCEPT ![1] = d]
  <2>1. /\ t \in Seq(Cell) /\ Len(t) = 1 + Len(l) /\ t[1] = d
        /\ \A k \in 2..1 + Len(l) : t[k] = l[k - 1]
    BY <1>2
  <2>2. 1 \in 1..Len(s)
    BY <1>1, <1>3
  <2>3. /\ u \in Seq(Cell) /\ Len(u) = Len(s)
        /\ \A k \in 1..Len(s) : u[k] = IF k = 1 THEN d ELSE s[k]
    BY <1>3, <2>2, ExceptSeq
  <2> HIDE DEF t, u
  <2>4. ASSUME NEW k \in 1..Len(u) PROVE u[k] = t[k]
    <3>1. k \in 1..Len(s) /\ (k # 1 => k \in 2..1 + Len(l))
      BY <1>1, <1>3, <2>3
    <3> QED
      BY <1>3, <2>1, <2>3, <3>1
  <2>5. Len(u) = Len(t)
    BY <1>3, <2>1, <2>3
  <2>6. u = t
    BY <2>1, <2>3, <2>4, <2>5, SeqEqual
  <2> QED
    BY <2>6 DEF t, u
<1> QED
  BY <1>3, <1>4, <1>5, <1>6 DEF s

\* The cells of the access points before the i-th end the list of the result.
LEMMA BeforeCells ==
  ASSUME NEW b \in Seq(Aps), NEW i \in 1..Len(b)
  PROVE  /\ Cells(SubSeq(b, 1, i - 1)) \in Seq(Cell)
         /\ IsSuffix(Cells(SubSeq(b, 1, i - 1)), Cells(b))
<1>1. i - 1 \in 0..Len(b)
  BY LenProperties
<1> QED
  BY <1>1, BeforeType, CellsType, SuffixOfCells

\* The list, wherever the loop is, is one of cells.
LEMMA ListAtType ==
  ASSUME NEW b \in Seq(Aps), NEW i \in 1..Len(b), NEW j \in 1..Len(Reported(b[i]))
  PROVE  /\ ListAt(b, i, j) \in Seq(Cell) /\ ListAt(b, i, j) # <<>>
         /\ ListAt(b, i, j)[1] = CellAt(b[i], j)
         /\ IsSuffix(Tail(ListAt(b, i, j)), Cells(b))
<1>1. b[i] \in Aps
  BY ElementOfSeq
<1> DEFINE c == CellAt(b[i], j)
           l == Cells(SubSeq(b, 1, i - 1))
<1>2. c \in Cell /\ l \in Seq(Cell) /\ IsSuffix(l, Cells(b))
  BY <1>1, CellType, BeforeCells
<1>3. ListAt(b, i, j) = <<c>> \o l
  BY DEF ListAt
<1> HIDE DEF c, l
<1>4. /\ <<c>> \o l \in Seq(Cell) /\ <<c>> \o l # <<>>
      /\ (<<c>> \o l)[1] = c /\ Tail(<<c>> \o l) = l
  BY <1>2, ConsList
<1> QED
  BY <1>2, <1>3, <1>4 DEF c

\* It starts with the first event of the first access point.
LEMMA ListStarts ==
  ASSUME NEW b \in Seq(Aps), b # <<>>
  PROVE  ListAt(b, 1, 1) = <<NewCell(b[1])>> \o <<>>
<1>1. b[1] \in Aps
  BY ElementOfSeq
<1>2. SubSeq(b, 1, 1 - 1) = <<>>
  BY SubSeqEmpty
<1>3. Cells(<<>>) = <<>>
  <2>1. <<>> \in Seq(Aps) /\ Len(<<>>) = 0
    OBVIOUS
  <2>2. Cells(<<>>) \in Seq(Cell) /\ Len(Cells(<<>>)) = 0
    BY <2>1, CellsType
  <2> QED
    BY <2>2, EmptySeq
<1> QED
  BY <1>1, <1>2, <1>3, CellFirst DEF ListAt

\* A SIOCGIWAP event puts a new cell before the finished ones.
LEMMA ListGrows ==
  ASSUME NEW b \in Seq(Aps), NEW i \in 1..Len(b), i # Len(b)
  PROVE  ListAt(b, i + 1, 1) = <<NewCell(b[i + 1])>> \o ListAt(b, i, Len(Reported(b[i])))
<1>1. i + 1 \in 1..Len(b) /\ (i + 1) - 1 = i
  BY LenProperties
<1>2. b[i + 1] \in Aps
  BY <1>1, ElementOfSeq
<1>3. Cells(SubSeq(b, 1, i)) = ListAt(b, i, Len(Reported(b[i])))
  BY CellsNext DEF ListAt, CellOf
<1> QED
  BY <1>1, <1>2, <1>3, CellFirst DEF ListAt

\* After the last event the list is that of the whole result.
LEMMA ListIsWhole ==
  ASSUME NEW b \in Seq(Aps), b # <<>>
  PROVE  ListAt(b, Len(b), Len(Reported(b[Len(b)]))) = Cells(b)
<1>1. Len(b) \in 1..Len(b)
  BY LenProperties, EmptySeq
<1> QED
  BY <1>1, CellsNext, SubSeqFull DEF ListAt, CellOf

\* Any other event changes the newest cell.
LEMMA ListNoted ==
  ASSUME NEW b \in Seq(Aps), NEW i \in 1..Len(b), NEW j \in 1..(Len(Reported(b[i])) - 1)
  PROVE  ListAt(b, i, j + 1) =
           IF Reported(b[i])[j + 1].cmd = "other" THEN ListAt(b, i, j)
           ELSE [ListAt(b, i, j) EXCEPT ![1] = Noted(@, Reported(b[i])[j + 1])]
<1> DEFINE e == Reported(b[i])[j + 1]
           c == CellAt(b[i], j)
           d == CellAt(b[i], j + 1)
           l == Cells(SubSeq(b, 1, i - 1))
<1>1. b[i] \in Aps
  BY ElementOfSeq
<1>2. j \in 1..Len(Reported(b[i])) /\ j + 1 \in 1..Len(Reported(b[i]))
  BY <1>1, ReportedType
<1>3. c \in Cell /\ d \in Cell /\ l \in Seq(Cell)
  BY <1>1, <1>2, CellType, BeforeCells
<1>4. d = IF e.cmd = "other" THEN c ELSE Noted(c, e)
  BY <1>1, CellNext
<1>5. ListAt(b, i, j) = <<c>> \o l /\ ListAt(b, i, j + 1) = <<d>> \o l
  BY DEF ListAt
<1> HIDE DEF e, c, d, l
<1>6. (<<c>> \o l)[1] = c /\ [<<c>> \o l EXCEPT ![1] = d] = <<d>> \o l
  BY <1>3, ConsList
<1>7. CASE e.cmd = "other"
  BY <1>4, <1>5, <1>7 DEF e
<1>8. CASE e.cmd # "other"
  <2>1. [<<c>> \o l EXCEPT ![1] = Noted(@, e)] = [<<c>> \o l EXCEPT ![1] = d]
    BY <1>4, <1>6, <1>8
  <2> QED
    BY <1>5, <1>6, <1>8, <2>1 DEF e
<1> QED
  BY <1>7, <1>8

\* Handling the last event of an access point twice changes nothing.
LEMMA ListAgain ==
  ASSUME NEW b \in Seq(Aps), NEW i \in 1..Len(b), NEW j \in 2..Len(Reported(b[i])),
         Reported(b[i])[j].cmd # "other"
  PROVE  [ListAt(b, i, j) EXCEPT ![1] = Noted(@, Reported(b[i])[j])] = ListAt(b, i, j)
<1> DEFINE e == Reported(b[i])[j]
           c == CellAt(b[i], j)
           l == Cells(SubSeq(b, 1, i - 1))
<1>1. b[i] \in Aps
  BY ElementOfSeq
<1>2. j \in 1..Len(Reported(b[i]))
  BY <1>1, ReportedType
<1>3. c \in Cell /\ l \in Seq(Cell)
  BY <1>1, <1>2, CellType, BeforeCells
<1>4. Noted(c, e) = c
  BY <1>1, CellAgain
<1>5. ListAt(b, i, j) = <<c>> \o l
  BY DEF ListAt
<1> HIDE DEF e, c, l
<1>6. (<<c>> \o l)[1] = c /\ [<<c>> \o l EXCEPT ![1] = c] = <<c>> \o l
  BY <1>3, ConsList
<1>7. [<<c>> \o l EXCEPT ![1] = Noted(@, e)] = <<c>> \o l
  BY <1>4, <1>6
<1> QED
  BY <1>5, <1>7 DEF e

\* The events that are left after the p-th.
Rest(b, p) == SubSeq(EventsOf(b), p + 1, Size(b))

\* What is left after an event: nothing, or the next one and what follows it.
LEMMA RestNext ==
  ASSUME NEW b \in Seq(Aps), NEW p \in 0..Size(b)
  PROVE  /\ p # Size(b) => /\ Rest(b, p) # <<>> /\ Head(Rest(b, p)) = EventsOf(b)[p + 1]
                           /\ Tail(Rest(b, p)) = Rest(b, p + 1)
         /\ p = Size(b) => Rest(b, p) = <<>>
<1> DEFINE E == EventsOf(b)
<1>1. E \in Seq(Event) /\ Len(E) \in Nat /\ Size(b) = Len(E)
  BY EventsOfType, LenProperties DEF Size
<1> HIDE DEF E
<1>2. CASE p = Size(b)
  <2>1. SubSeq(E, p + 1, Len(E)) = <<>>
    BY <1>1, <1>2, SubSeqEmpty
  <2> QED
    BY <1>1, <1>2, <2>1 DEF Rest, E
<1>3. CASE p # Size(b)
  <2>1. p + 1 \in 1..Len(E) /\ Len(E) \in (p + 1)..Len(E)
    BY <1>1, <1>3
  <2>2. Head(SubSeq(E, p + 1, Len(E))) = E[p + 1]
        /\ Tail(SubSeq(E, p + 1, Len(E))) = SubSeq(E, (p + 1) + 1, Len(E))
    BY <1>1, <2>1, HeadTailOfSubSeq
  <2>3. \A k \in (p + 1)..Len(E) : E[k] \in Event
    <3>1. \A k \in (p + 1)..Len(E) : k \in 1..Len(E)
      BY <1>1, <2>1
    <3> QED
      BY <1>1, <3>1, ElementOfSeq
  <2>4. Len(SubSeq(E, p + 1, Len(E))) = (Len(E) - (p + 1)) + 1
    <3>1. p + 1 \in Int /\ Len(E) \in Int /\ p + 1 <= Len(E)
      BY <1>1, <2>1
    <3> QED
      BY <2>3, <3>1, SubSeqProperties
  <2>5. SubSeq(E, p + 1, Len(E)) # <<>>
    <3>1. Len(SubSeq(E, p + 1, Len(E))) # 0
      BY <1>1, <2>1, <2>4
    <3> QED
      BY <3>1, EmptySeq
  <2> QED
    BY <1>1, <1>3, <2>2, <2>5 DEF Rest, E
<1> QED
  BY <1>2, <1>3

\* Before the first event is taken all of them are left.
LEMMA RestAll ==
  ASSUME NEW b \in Seq(Aps) PROVE EventsOf(b) = Rest(b, 0)
BY EventsOfType, SubSeqFull DEF Rest, Size

\* wapi_scan_coll() has handled j events of the i-th access point.
Extracting(i, j) ==
  /\ iwe = Reported(dumped[i])[j]
  /\ stream = Rest(dumped, Place(dumped, i, j))
  /\ aps = ListAt(dumped, i, j)

InEvents ==
  /\ dumped # <<>>
  /\ \/ stream = EventsOf(dumped) /\ aps = <<>>
     \/ \E i \in 1..Len(dumped) : \E j \in 1..Len(Reported(dumped[i])) : Extracting(i, j)

\* The list is that of the events handled so far; there is none but in
\* wapi_scan_coll() and after it.
ListInv ==
  /\ pc = "collect" => aps = <<>>
  /\ pc = "events" => InEvents
  /\ op # "coll" => aps = <<>>
  /\ aps \in Seq(Cell)
  /\ CollectsOneResult

\* The first event of a report is taken as a new cell, or not at all; the
\* others are noted, ignored or of an unknown mode.
LEMMA TakenFirst ==
  ASSUME NEW a \in Aps, Taken(Reported(a)[1])
  PROVE  aps' = <<NewCell(a)>> \o aps
<1>1. Reported(a)[1] = [cmd |-> "ap", val |-> a]
  BY ReportedType
<1> QED
  BY <1>1 DEF Taken, CellAdded, CellNoted, Ignored

\* What an event that is not the first of its access point does to the list.
LEMMA TakenNext ==
  ASSUME NEW a \in Aps, NEW j \in 2..Len(Reported(a)), Taken(Reported(a)[j])
  PROVE  aps' = IF Reported(a)[j].cmd = "other" THEN aps
                ELSE [aps EXCEPT ![1] = Noted(@, Reported(a)[j])]
<1>1. Reported(a)[j].cmd # "ap"
  BY ReportedType
<1> QED
  BY <1>1 DEF Taken, CellAdded, CellNoted, Ignored

\* What follows the j-th event of the i-th access point: its next event, the
\* first of the next access point, or nothing.
LEMMA WhatFollows ==
  ASSUME NEW b \in Seq(Aps), NEW i \in 1..Len(b), NEW j \in 1..Len(Reported(b[i]))
  PROVE  \/ /\ j + 1 \in 2..Len(Reported(b[i])) /\ j \in 1..(Len(Reported(b[i])) - 1)
            /\ Place(b, i, j) \in 0..Size(b) /\ Place(b, i, j) # Size(b)
            /\ Place(b, i, j) + 1 = Place(b, i, j + 1)
         \/ /\ j = Len(Reported(b[i])) /\ i # Len(b) /\ i + 1 \in 1..Len(b)
            /\ Place(b, i, j) \in 0..Size(b) /\ Place(b, i, j) # Size(b)
            /\ Place(b, i, j) + 1 = Place(b, i + 1, 1)
         \/ /\ j = Len(Reported(b[i])) /\ i = Len(b)
            /\ Place(b, i, j) = Size(b) /\ Size(b) \in Nat
<1>1. b[i] \in Aps /\ Len(b) \in Nat /\ Size(b) \in Nat
  BY ElementOfSeq, LenProperties, EventsOfType
<1>2. Len(Reported(b[i])) \in Nat \ {0}
  BY <1>1, ReportedType
<1>3. Place(b, i, j) \in 1..Size(b)
  BY EventAt
<1>4. CASE j # Len(Reported(b[i]))
  <2>1. /\ j + 1 \in 2..Len(Reported(b[i])) /\ j \in 1..(Len(Reported(b[i])) - 1)
        /\ j \in Nat
        /\ j + 1 \in 1..Len(Reported(b[i]))
    BY <1>2, <1>4
  <2>2. Place(b, i, j + 1) = Place(b, i, j) + 1
    BY <2>1, PlaceNext
  <2>3. Place(b, i, j + 1) \in 1..Size(b)
    BY <2>1, EventAt
  <2> QED
    BY <1>1, <1>3, <2>1, <2>2, <2>3
<1>5. CASE j = Len(Reported(b[i])) /\ i # Len(b)
  <2>1. i + 1 \in 1..Len(b)
    BY <1>1, <1>5
  <2>2. b[i + 1] \in Aps
    BY <2>1, ElementOfSeq
  <2>3. 1 \in 1..Len(Reported(b[i + 1]))
    <3>1. Len(Reported(b[i + 1])) \in Nat \ {0}
      BY <2>2, ReportedType
    <3> QED
      BY <3>1
  <2>4. Place(b, i + 1, 1) = Place(b, i, j) + 1
    BY <1>5, PlaceNext
  <2>5. Place(b, i + 1, 1) \in 1..Size(b)
    BY <2>1, <2>3, EventAt
  <2> QED
    BY <1>1, <1>3, <1>5, <2>1, <2>4, <2>5
<1>6. CASE j = Len(Reported(b[i])) /\ i = Len(b)
  BY <1>1, <1>6, PlaceNext
<1> QED
  BY <1>4, <1>5, <1>6

\* An event that is taken leads to the list of one event more.
LEMMA NextIsTaken ==
  ASSUME TypeInv, InEvents, stream # <<>>, Taken(Head(stream)), iwe' = Head(stream),
         stream' = Tail(stream), dumped' = dumped
  PROVE  InEvents'
<1>1. dumped \in Seq(Aps) /\ dumped # <<>>
  BY DEF TypeInv, ScanOK, InEvents
<1> SUFFICES \E i \in 1..Len(dumped) : \E j \in 1..Len(Reported(dumped[i])) :
               /\ Head(stream) = Reported(dumped[i])[j]
               /\ Tail(stream) = Rest(dumped, Place(dumped, i, j))
               /\ aps' = ListAt(dumped, i, j)
  BY <1>1 DEF InEvents, Extracting
<1>2. CASE stream = EventsOf(dumped) /\ aps = <<>>
  <2>1. 1 \in 1..Len(dumped) /\ dumped[1] \in Aps
    BY <1>1, LenProperties, EmptySeq, ElementOfSeq
  <2>2. 1 \in 1..Len(Reported(dumped[1]))
    <3>1. Len(Reported(dumped[1])) \in Nat \ {0}
      BY <2>1, ReportedType
    <3> QED
      BY <3>1
  <2>3. Place(dumped, 1, 1) = 1
    BY <1>1, PlaceFirst
  <2>4. Place(dumped, 1, 1) \in 1..Size(dumped)
        /\ EventsOf(dumped)[Place(dumped, 1, 1)] = Reported(dumped[1])[1]
    BY <1>1, <2>1, <2>2, EventAt
  <2>5. 0 \in 0..Size(dumped) /\ 0 # Size(dumped)
    BY <1>1, <2>3, <2>4, EventsOfType
  <2>6. stream = Rest(dumped, 0)
    BY <1>1, <1>2, RestAll
  <2>7. /\ Head(stream) = Reported(dumped[1])[1]
        /\ Tail(stream) = Rest(dumped, Place(dumped, 1, 1))
    BY <1>1, <2>3, <2>4, <2>5, <2>6, RestNext
  <2>8. aps' = <<NewCell(dumped[1])>> \o <<>>
    BY <1>2, <2>1, <2>7, TakenFirst
  <2>9. aps' = ListAt(dumped, 1, 1)
    BY <1>1, <2>8, ListStarts
  <2> QED
    BY <2>1, <2>2, <2>7, <2>9
<1>3. ASSUME NEW i \in 1..Len(dumped), NEW j \in 1..Len(Reported(dumped[i])), Extracting(i, j)
      PROVE  \E k \in 1..Len(dumped) : \E n \in 1..Len(Reported(dumped[k])) :
               /\ Head(stream) = Reported(dumped[k])[n]
               /\ Tail(stream) = Rest(dumped, Place(dumped, k, n))
               /\ aps' = ListAt(dumped, k, n)
  <2>1. stream = Rest(dumped, Place(dumped, i, j)) /\ aps = ListAt(dumped, i, j)
    BY <1>3 DEF Extracting
  <2>2. dumped[i] \in Aps
    BY <1>1, ElementOfSeq
  <2>3. CASE /\ j + 1 \in 2..Len(Reported(dumped[i])) /\ j \in 1..(Len(Reported(dumped[i])) - 1)
             /\ Place(dumped, i, j) \in 0..Size(dumped) /\ Place(dumped, i, j) # Size(dumped)
             /\ Place(dumped, i, j) + 1 = Place(dumped, i, j + 1)
    <3>1. j + 1 \in 1..Len(Reported(dumped[i]))
      BY <2>3
    <3>2. /\ Head(stream) = Reported(dumped[i])[j + 1]
          /\ Tail(stream) = Rest(dumped, Place(dumped, i, j + 1))
      <4>1. Head(stream) = EventsOf(dumped)[Place(dumped, i, j) + 1]
            /\ Tail(stream) = Rest(dumped, Place(dumped, i, j) + 1)
        BY <1>1, <2>1, <2>3, RestNext
      <4>2. EventsOf(dumped)[Place(dumped, i, j + 1)] = Reported(dumped[i])[j + 1]
        BY <1>1, <3>1, EventAt
      <4> QED
        BY <2>3, <4>1, <4>2
    <3>3. aps' = IF Reported(dumped[i])[j + 1].cmd = "other" THEN aps
                 ELSE [aps EXCEPT ![1] = Noted(@, Reported(dumped[i])[j + 1])]
      BY <2>2, <2>3, <3>2, TakenNext
    <3>4. aps' = ListAt(dumped, i, j + 1)
      BY <1>1, <2>1, <2>3, <3>3, ListNoted
    <3> QED
      BY <3>1, <3>2, <3>4
  <2>4. CASE /\ j = Len(Reported(dumped[i])) /\ i # Len(dumped) /\ i + 1 \in 1..Len(dumped)
             /\ Place(dumped, i, j) \in 0..Size(dumped) /\ Place(dumped, i, j) # Size(dumped)
             /\ Place(dumped, i, j) + 1 = Place(dumped, i + 1, 1)
    <3>1. dumped[i + 1] \in Aps
      BY <1>1, <2>4, ElementOfSeq
    <3>2. 1 \in 1..Len(Reported(dumped[i + 1]))
      <4>1. Len(Reported(dumped[i + 1])) \in Nat \ {0}
        BY <3>1, ReportedType
      <4> QED
        BY <4>1
    <3>3. /\ Head(stream) = Reported(dumped[i + 1])[1]
          /\ Tail(stream) = Rest(dumped, Place(dumped, i + 1, 1))
      <4>1. Head(stream) = EventsOf(dumped)[Place(dumped, i, j) + 1]
            /\ Tail(stream) = Rest(dumped, Place(dumped, i, j) + 1)
        BY <1>1, <2>1, <2>4, RestNext
      <4>2. EventsOf(dumped)[Place(dumped, i + 1, 1)] = Reported(dumped[i + 1])[1]
        BY <1>1, <2>4, <3>2, EventAt
      <4> QED
        BY <2>4, <4>1, <4>2
    <3>4. aps' = <<NewCell(dumped[i + 1])>> \o aps
      BY <3>1, <3>3, TakenFirst
    <3>5. aps' = ListAt(dumped, i + 1, 1)
      BY <1>1, <2>1, <2>4, <3>4, ListGrows
    <3> QED
      BY <2>4, <3>2, <3>3, <3>5
  <2>5. CASE /\ j = Len(Reported(dumped[i])) /\ i = Len(dumped)
             /\ Place(dumped, i, j) = Size(dumped) /\ Size(dumped) \in Nat
    BY <1>1, <2>1, <2>5, RestNext
  <2> QED
    BY <1>1, <2>3, <2>4, <2>5, WhatFollows
<1> QED
  BY <1>2, <1>3 DEF InEvents

\* When no event is left the list is whole, and the last event is handled once
\* more.
LEMMA LastIsTaken ==
  ASSUME TypeInv, InEvents, stream = <<>>
  PROVE  /\ dumped # <<>> /\ aps = Cells(dumped)
         /\ Taken(iwe) => aps' = WholeList(dumped)
<1>1. dumped \in Seq(Aps) /\ dumped # <<>>
  BY DEF TypeInv, ScanOK, InEvents
<1>2. Len(dumped) \in 1..Len(dumped) /\ 1 \in 1..Len(dumped) /\ Len(dumped) \in Nat
  BY <1>1, LenProperties, EmptySeq
<1>3. dumped[1] \in Aps /\ dumped[Len(dumped)] \in Aps
  BY <1>1, <1>2, ElementOfSeq
<1>4. stream # EventsOf(dumped)
  <2>1. 1 \in 1..Len(Reported(dumped[1]))
    <3>1. Len(Reported(dumped[1])) \in Nat \ {0}
      BY <1>3, ReportedType
    <3> QED
      BY <3>1
  <2>2. Place(dumped, 1, 1) \in 1..Size(dumped)
    BY <1>1, <1>2, <2>1, EventAt
  <2>3. Len(EventsOf(dumped)) # 0
    BY <1>1, <2>2, EventsOfType DEF Size
  <2> QED
    BY <2>3, EmptySeq
<1>5. PICK i \in 1..Len(dumped) : \E j \in 1..Len(Reported(dumped[i])) : Extracting(i, j)
  BY <1>4 DEF InEvents
<1>6. PICK j \in 1..Len(Reported(dumped[i])) : Extracting(i, j)
  BY <1>5
<1>7. i = Len(dumped) /\ j = Len(Reported(dumped[i]))
  BY <1>1, <1>6, WhatFollows, RestNext DEF Extracting
<1> DEFINE a == dumped[Len(dumped)]
           n == Len(Reported(a))
<1>8. iwe = Reported(a)[n] /\ aps = ListAt(dumped, Len(dumped), n)
  BY <1>6, <1>7 DEF Extracting
<1>9. aps = Cells(dumped)
  BY <1>1, <1>8, ListIsWhole
<1>10. n \in Nat \ {0} /\ n = Len(Report[a]) + 1 /\ a \in Aps
  BY <1>3, ReportedType
<1> HIDE DEF a, n
<1>11. ASSUME Taken(iwe) PROVE aps' = WholeList(dumped)
  <2>1. CASE n = 1
    <3>1. Report[a] = <<>>
      <4>1. Report[a] \in Seq([cmd : Kinds \ {"ap"}, val : Nat]) /\ Len(Report[a]) = 0
        BY <1>10, <2>1, LenProperties, ReportAssumption
      <4> QED
        BY <4>1, EmptySeq
    <3>2. aps' = <<NewCell(a)>> \o aps
      BY <1>8, <1>10, <1>11, <2>1, TakenFirst
    <3>3. CellOf(a) = NewCell(a)
      BY <1>10, <2>1, CellFirst DEF CellOf, n
    <3>4. WholeList(dumped) = <<CellOf(a)>> \o Cells(dumped)
      BY <1>1, <3>1 DEF WholeList, Last, a
    <3> QED
      BY <1>9, <3>2, <3>3, <3>4
  <2>2. CASE n # 1
    <3>1. n \in 2..Len(Reported(a))
      BY <1>10, <2>2 DEF n
    <3>2. Report[a] # <<>>
      BY <1>10, <2>2
    <3>3. WholeList(dumped) = Cells(dumped)
      BY <1>1, <3>2 DEF WholeList, Last, a
    <3>4. aps' = IF Reported(a)[n].cmd = "other" THEN aps
                 ELSE [aps EXCEPT ![1] = Noted(@, Reported(a)[n])]
      BY <1>8, <1>10, <1>11, <3>1, TakenNext
    <3>5. aps' = aps
      BY <1>1, <1>2, <1>8, <3>1, <3>4, ListAgain DEF a
    <3> QED
      BY <1>9, <3>3, <3>5
  <2> QED
    BY <2>1, <2>2
<1> QED
  BY <1>1, <1>9, <1>11

\* A result may be empty, and then so is its list.
LEMMA NoCells == Cells(<<>>) = <<>> /\ WholeList(<<>>) = <<>>
<1>1. <<>> \in Seq(Aps) /\ Len(<<>>) = 0
  OBVIOUS
<1>2. Cells(<<>>) \in Seq(Cell) /\ Len(Cells(<<>>)) = 0
  BY <1>1, CellsType
<1>3. Cells(<<>>) = <<>>
  BY <1>2, EmptySeq
<1> QED
  BY <1>3 DEF WholeList

\* The list of a whole result is one of cells.
LEMMA WholeListType ==
  ASSUME NEW b \in Seq(Aps)
  PROVE  /\ WholeList(b) \in Seq(Cell)
         /\ WholeList(b) # <<>> => IsSuffix(Tail(WholeList(b)), Cells(b))
<1>1. CASE b = <<>>
  BY <1>1, NoCells, EmptySeq
<1>2. CASE b # <<>>
  <2>1. Len(b) \in 1..Len(b) /\ Len(b) \in 0..Len(b)
    BY <1>2, LenProperties, EmptySeq
  <2>2. b[Len(b)] \in Aps
    BY <2>1, ElementOfSeq
  <2> DEFINE n == Len(Reported(b[Len(b)]))
             c == CellOf(b[Len(b)])
             l == Cells(b)
  <2>3. n \in 1..n
    <3>1. n \in Nat \ {0}
      BY <2>2, ReportedType
    <3> QED
      BY <3>1
  <2>4. l = ListAt(b, Len(b), n)
    BY <1>2, ListIsWhole
  <2>5. l \in Seq(Cell) /\ IsSuffix(Tail(l), l)
    BY <2>1, <2>3, <2>4, ListAtType
  <2>6. c \in Cell
    BY <2>2, CellOfType
  <2>7. IsSuffix(l, l)
    BY <2>1, SuffixOfCells, SubSeqFull
  <2>8. WholeList(b) = l \/ WholeList(b) = <<c>> \o l
    BY <1>2 DEF WholeList, Last
  <2> HIDE DEF c, l
  <2>9. <<c>> \o l \in Seq(Cell) /\ Tail(<<c>> \o l) = l
    BY <2>5, <2>6, ConsList
  <2>10. CASE WholeList(b) = l
    BY <2>5, <2>10 DEF l
  <2>11. CASE WholeList(b) = <<c>> \o l
    BY <2>7, <2>9, <2>11 DEF l
  <2> QED
    BY <2>8, <2>10, <2>11
<1> QED
  BY <1>1, <1>2

\* The list of a call in progress: every cell but the newest is whole.
PartOfResult == aps \in Seq(Cell) /\ (aps # <<>> => IsSuffix(Tail(aps), Cells(dumped)))

\* While events are left the list is a part of the result.
LEMMA ListInEvents == TypeInv /\ InEvents => PartOfResult
<1> SUFFICES ASSUME TypeInv, InEvents PROVE PartOfResult
  OBVIOUS
<1> USE DEF PartOfResult
<1>1. dumped \in Seq(Aps)
  BY DEF TypeInv, ScanOK
<1>2. ASSUME NEW i \in 1..Len(dumped), NEW j \in 1..Len(Reported(dumped[i])), Extracting(i, j)
      PROVE  aps \in Seq(Cell) /\ IsSuffix(Tail(aps), Cells(dumped))
  BY <1>1, <1>2, ListAtType DEF Extracting
<1>3. CASE aps = <<>>
  BY <1>3, EmptySeq
<1> QED
  BY <1>2, <1>3 DEF InEvents

\* A call that starts has made no list.
LEMMA ListCallsStep == ListInv /\ Calls => ListInv'
<1> SUFFICES ASSUME Calls PROVE ListInv'
  OBVIOUS
<1>1. aps' = <<>> /\ dumped' = <<>> /\ pc' # "events"
  BY DEF Calls, ScanInit, ScanStat, ScanColl, ScanCollFails, IfAdd, IfDel, IfRequest,
     IfRequestFails, Call
<1>2. aps' \in Seq(Cell) /\ WholeList(dumped') = <<>>
  BY <1>1, NoCells, EmptySeq
<1> QED
  BY <1>1, <1>2 DEF ListInv, CollectsOneResult

\* The call is given up; the list it leaves is the one it had.
LEMMA ListGivenUp ==
  ASSUME ListInv, pc' = "idle", ret' = -1, UNCHANGED <<op, aps, dumped>>
  PROVE  ListInv'
BY DEF ListInv, CollectsOneResult

\* Collecting starts with an empty list and the first event.
LEMMA ListCollectStep ==
  ASSUME TypeInv, AnswerInv, ListInv, Collect
  PROVE  ListInv'
<1>1. /\ pc = "collect" /\ op' = "coll" /\ dumped' = bss /\ aps' = <<>> /\ bss \in Seq(Aps)
  BY DEF Collect, ListInv, AnswerInv, TypeInv, RadioOK
<1>2. aps' \in Seq(Cell)
  BY <1>1, EmptySeq
<1>3. CASE bss = <<>> /\ FreeAndReturn(0)
  BY <1>1, <1>2, <1>3, NoCells DEF FreeAndReturn, Return, ListInv, CollectsOneResult
<1>4. CASE bss # <<>> /\ stream' = EventsOf(bss) /\ pc' = "events"
  BY <1>1, <1>2, <1>4 DEF ListInv, InEvents, CollectsOneResult
<1> QED
  BY <1>3, <1>4 DEF Collect

\* The next event is handled.
LEMMA ListNextStep ==
  ASSUME TypeInv, TypeInv', AnswerInv, ListInv, NextEvent
  PROVE  ListInv'
<1> DEFINE e == Head(stream)
<1>1. pc = "events" /\ op = "coll" /\ op' = op /\ dumped' = dumped /\ InEvents /\ stream # <<>>
  BY DEF NextEvent, ListInv, AnswerInv
<1>2. CASE Taken(e) /\ iwe' = e /\ stream' = Tail(stream) /\ pc' = pc
  <2>1. InEvents'
    BY <1>1, <1>2, NextIsTaken
  <2>2. PartOfResult'
    BY <2>1, ListInEvents, PTL
  <2> QED
    BY <1>1, <1>2, <2>1, <2>2 DEF PartOfResult, ListInv, CollectsOneResult
<1>3. CASE FreeAndReturn(-1) /\ UNCHANGED aps
  BY <1>1, <1>3, ListGivenUp DEF FreeAndReturn, Return
<1> QED
  BY <1>2, <1>3 DEF NextEvent

\* The last event is handled, and the list returned.
LEMMA ListLastStep ==
  ASSUME TypeInv, AnswerInv, ListInv, LastEvent
  PROVE  ListInv'
<1>1. pc = "events" /\ op = "coll" /\ op' = op /\ dumped' = dumped /\ InEvents /\ stream = <<>>
      /\ dumped \in Seq(Aps)
  BY DEF LastEvent, ListInv, AnswerInv, TypeInv, ScanOK
<1>2. CASE Taken(iwe) /\ FreeAndReturn(0)
  <2>1. aps' = WholeList(dumped)
    BY <1>1, <1>2, LastIsTaken
  <2>2. pc' = "idle"
    BY <1>2 DEF FreeAndReturn, Return
  <2> QED
    BY <1>1, <2>1, <2>2, WholeListType DEF ListInv, CollectsOneResult
<1>3. CASE FreeAndReturn(-1) /\ UNCHANGED aps
  BY <1>1, <1>3, ListGivenUp DEF FreeAndReturn, Return
<1> QED
  BY <1>2, <1>3 DEF LastEvent

\* Every step keeps what is known of the list.
LEMMA ListStep ==
  ASSUME TypeInv, TypeInv', AnswerInv, ListInv, [Next]_vars
  PROVE  ListInv'
<1>1. CASE UNCHANGED <<pc, op, ret, stream, iwe, aps, dumped>>
  BY <1>1 DEF ListInv, InEvents, Extracting, CollectsOneResult
<1>2. CASE Enlarge
  BY <1>2 DEF Enlarge, TooBig, ListInv, CollectsOneResult
<1>3. CASE EnlargeFails \/ CollectRefused \/ ExtractFails
  BY <1>3, ListGivenUp
     DEF EnlargeFails, CollectRefused, ExtractFails, FreeAndReturn, Return, listVars
<1>4. CASE IfMessage \/ IfSend \/ IfCallback
  <2>1. pc' \notin {"idle", "collect", "events"} /\ UNCHANGED <<op, aps, dumped>>
    BY <1>4 DEF IfMessage, IfSend, IfCallback, listVars
  <2> QED
    BY <2>1 DEF ListInv, CollectsOneResult
<1>5. CASE IfMessageFails \/ IfSendFails \/ IfCallbackFails \/ IfReceive
  <2>1. pc' = "idle" /\ UNCHANGED <<op, aps, dumped>> /\ op # "coll"
    BY <1>5 DEF IfMessageFails, IfSendFails, IfCallbackFails, IfReceive, ExitWith,
       listVars,
       AnswerInv, Requesting
  <2> QED
    BY <2>1 DEF ListInv, CollectsOneResult
<1>6. CASE Environment
  BY <1>1, <1>6 DEF Environment, ScanEnds, OtherScan, Heard, Lost, Appear, Disappear,
     callVars,
     bufVars, listVars
<1>7. CASE UNCHANGED vars
  BY <1>1, <1>7 DEF vars, callVars, bufVars, listVars
<1>8. CASE Step
  BY <1>2, <1>3, <1>4, <1>5, <1>8, ListCollectStep, ListNextStep,
     ListLastStep DEF Step
<1> QED
  BY <1>6, <1>7, <1>8, ListCallsStep DEF Next

\* The list is of its type.
LEMMA ListTyped == TypeInv /\ ListInv => TypeOK
<1> SUFFICES ASSUME TypeInv, ListInv PROVE TypeOK
  OBVIOUS
<1>1. ToSet(aps) \subseteq Cell
  BY ElementOfSeq, LenProperties DEF ListInv, ToSet
<1>2. {faulty, served} \subseteq BOOLEAN
  BY Zenon DEF TypeInv, FlagsOK
<1>3. scanning \in BOOLEAN /\ bss \in Seq(Aps)
  BY DEF TypeInv, RadioOK
<1> QED
  BY <1>1, <1>2, <1>3, Zenon DEF TypeOK, Cell, TypeInv, TableOK, StepOK, IfOK, ScanOK

WirelessInv == TypeInv /\ AnswerInv /\ BufferInv /\ ListInv

\* Init establishes the invariant.
LEMMA WirelessInit == Init => WirelessInv
<1> SUFFICES ASSUME Init PROVE WirelessInv
  OBVIOUS
<1>1. AnswerInv
  BY DEF Init, AnswerInv, AnsweredRight, Requesting
<1>2. BufferInv
  BY DEF Init, BufferInv
<1>3. ListInv
  BY EmptySeq DEF Init, ListInv, CollectsOneResult
<1> QED
  BY <1>1, <1>2, <1>3, TypeInit DEF WirelessInv

\* Every step keeps the invariant.
LEMMA WirelessStep == WirelessInv /\ [Next]_vars => WirelessInv'
BY TypeStep, AnswerStep, BufferStep, ListStep DEF WirelessInv

\* The invariant holds in every state.
LEMMA WirelessInvariant == Spec => []WirelessInv
BY WirelessInit, WirelessStep, PTL DEF Spec

\* Every variable has its type, the list of cells and the events still to be
\* handled included.
THEOREM TypesAreCorrect == Spec => []TypeOK
<1>1. WirelessInv => TypeOK
  BY ListTyped DEF WirelessInv
<1> QED
  BY <1>1, WirelessInvariant, PTL

\* When wapi_scan_coll() returns 0 its list is that of one result of the kernel:
\* a cell for each access point, the last one in front, each with the last
\* frequency, mode and ESSID and the best rate reported for it, although the loop
\* handles the last event of the stream twice.
THEOREM OneResultIsCollected == Spec => []CollectsOneResult
<1>1. WirelessInv => CollectsOneResult
  BY DEF WirelessInv, ListInv
<1> QED
  BY <1>1, WirelessInvariant, PTL

(***************************************************************************)
(* The contract.                                                           *)
(***************************************************************************)
LEMMA SeenNothing ==
  ASSUME UNCHANGED <<pc, op, ret, aps, dumped, radioVars>>
  PROVE  UNCHANGED Scan!vars
BY DEF radioVars, Scan!vars, Scan!callVars, SeenCall, SeenRet, SeenList, InHand

\* No result is taken for the absence of one.
LEMMA ResultIsNone == \A b \in Seq(Aps) : b # NoResult
<1> SUFFICES ASSUME NEW b \in Seq(Aps), b = NoResult PROVE FALSE
  OBVIOUS
<1>1. Len(b) = 1 /\ b[1] = -1
  BY DEF NoResult
<1>2. b[1] \in Aps
  BY <1>1, ElementOfSeq
<1> QED
  BY <1>1, <1>2, ReportAssumption

\* A call of the contract starts, or nothing is seen of it.
LEMMA SeenCalls == Calls => [Scan!Next]_Scan!vars
<1> SUFFICES ASSUME Calls PROVE Scan!Next
  OBVIOUS
<1> USE DEF SeenCall, SeenRet, SeenList, InHand
<1>1. pc = "idle" /\ aps' = <<>>
  BY DEF Calls, ScanInit, ScanStat, ScanColl, ScanCollFails, IfAdd, IfDel, IfRequest,
     IfRequestFails, Call
<1>2. SeenCall # "collecting"
  BY <1>1
<1>3. CASE ScanInit
  <2>1. op' = "init" /\ pc' = "idle" /\ UNCHANGED bss
    BY <1>1, <1>3 DEF ScanInit, Call
  <2>2. Scan!Returned("init", ret', <<>>)
    BY <2>1 DEF Scan!Returned
  <2>3. (~scanning /\ scanning' = TRUE /\ ret' = 0) \/ (UNCHANGED scanning /\ ret' = -1)
    BY <1>3 DEF ScanInit, Call
  <2>4. Scan!ScanInit
    BY <1>2, <2>1, <2>2, <2>3 DEF Scan!ScanInit
  <2> QED
    BY <2>4 DEF Scan!Next
<1>4. CASE ScanStat
  <2>1. op' = "stat" /\ pc' = "idle" /\ UNCHANGED <<scanning, bss>>
    BY <1>1, <1>4 DEF ScanStat, Call, radioVars
  <2>2. Scan!Returned("stat", ret', <<>>)
    BY <2>1 DEF Scan!Returned
  <2>3. ret' = (IF scanning THEN 1 ELSE 0) \/ ret' = -1
    BY <1>4 DEF ScanStat, Call
  <2>4. Scan!ScanStat
    BY <1>2, <2>1, <2>2, <2>3 DEF Scan!ScanStat
  <2> QED
    BY <2>4 DEF Scan!Next
<1>5. CASE ScanColl
  <2>1. op' = "coll" /\ pc' = "collect" /\ ret' = 0 /\ UNCHANGED <<scanning, bss>>
    BY <1>5 DEF ScanColl, Call, radioVars
  <2>2. Scan!Returned("collecting", 0, <<>>)
    BY <2>1 DEF Scan!Returned
  <2>3. Scan!ScanColl
    BY <1>2, <2>1, <2>2 DEF Scan!ScanColl
  <2> QED
    BY <2>3 DEF Scan!Next
<1>6. CASE ScanCollFails
  <2>1. op' = "coll" /\ pc' = "idle" /\ ret' = -1 /\ UNCHANGED <<scanning, bss>>
    BY <1>1, <1>6 DEF ScanCollFails, Call, radioVars
  <2>2. Scan!Returned("coll", -1, <<>>)
    BY <1>1, <2>1 DEF Scan!Returned
  <2>3. Scan!ScanColl
    BY <1>2, <2>1, <2>2 DEF Scan!ScanColl
  <2> QED
    BY <2>3 DEF Scan!Next
<1>7. CASE IfAdd \/ IfDel \/ IfRequestFails("add") \/ IfRequestFails("del")
  <2>1. op' \in {"add", "del"} /\ pc' # "events" /\ UNCHANGED <<scanning, bss>>
    BY <1>1, <1>7 DEF IfAdd, IfDel, IfRequest, IfRequestFails, Call, radioVars
  <2>2. Scan!Returned("none", 0, <<>>)
    BY <2>1 DEF Scan!Returned
  <2>3. Scan!Release
    BY <1>2, <2>1, <2>2 DEF Scan!Release
  <2> QED
    BY <2>3 DEF Scan!Next
<1> QED
  BY <1>3, <1>4, <1>5, <1>6, <1>7 DEF Calls

\* wapi_scan_coll() returns: -1 and no list before it has a result, -1 and a
\* part of the list, or 0 and the list.
LEMMA SeenRefusal ==
  ASSUME WirelessInv, pc = "collect", pc' = "idle", ret' = -1,
         UNCHANGED <<op, aps, dumped, radioVars>>
  PROVE  Scan!Next
<1> USE DEF SeenCall, SeenRet, SeenList, InHand
<1>1. op = "coll" /\ aps = <<>>
  BY DEF WirelessInv, AnswerInv, ListInv
<1>2. SeenCall = "collecting" /\ InHand = NoResult
  BY <1>1
<1>3. Scan!Returned("coll", -1, <<>>)
  BY <1>1 DEF Scan!Returned
<1>4. Scan!CollReturns
  BY <1>2, <1>3 DEF Scan!CollReturns, radioVars
<1> QED
  BY <1>4 DEF Scan!Next

\* While events are handled the contract sees a call under way.
LEMMA SeenEvents ==
  ASSUME WirelessInv, pc = "events"
  PROVE  /\ op = "coll" /\ SeenCall = "collecting"
         /\ InHand = dumped /\ dumped # NoResult /\ dumped \in Seq(Aps)
         /\ aps \in Seq(Cell) /\ PartOf(aps, dumped)
BY ResultIsNone, ListInEvents DEF WirelessInv, AnswerInv, ListInv, TypeInv, ScanOK,
   SeenCall,
   InHand, PartOf, PartOfResult

\* A call that gives up returns an error of the contract.
LEMMA SeenGivenUp ==
  ASSUME WirelessInv, pc = "events", pc' = "idle", ret' = -1,
         UNCHANGED <<op, aps, dumped, radioVars>>
  PROVE  Scan!Next
<1>1. Scan!Returned("coll", -1, aps)
  BY SeenEvents DEF Scan!Returned, SeenCall, SeenRet, SeenList, InHand
<1>2. SeenList' = aps
  BY <1>1 DEF Scan!Returned
<1>3. Scan!CollReturns
  BY <1>1, <1>2, SeenEvents DEF Scan!CollReturns, radioVars, Cell
<1> QED
  BY <1>3 DEF Scan!Next

\* Collecting is the step that takes the result of the contract.
LEMMA SeenCollect == WirelessInv /\ Collect => Scan!Next
<1> SUFFICES ASSUME WirelessInv, Collect PROVE Scan!Next
  OBVIOUS
<1> USE DEF SeenCall, SeenRet, SeenList, InHand
<1>1. /\ pc = "collect" /\ op = "coll" /\ op' = "coll" /\ ~scanning
      /\ aps = <<>> /\ aps' = <<>>
      /\ dumped' = bss /\ UNCHANGED <<scanning, bss>>
  BY DEF Collect, WirelessInv, AnswerInv, ListInv, radioVars
<1>2. SeenCall = "collecting" /\ InHand = NoResult
  BY <1>1
<1>3. CASE bss = <<>> /\ FreeAndReturn(0)
  <2>1. Scan!Returned("coll", 0, <<>>)
    BY <1>1, <1>3 DEF FreeAndReturn, Return, Scan!Returned
  <2>2. Scan!CollReturns
    BY <1>1, <1>2, <1>3, <2>1, NoCells DEF Scan!CollReturns
  <2> QED
    BY <2>2 DEF Scan!Next
<1>4. CASE pc' = "events" /\ UNCHANGED ret
  <2>1. Scan!Take
    BY <1>1, <1>2, <1>4 DEF Scan!Take
  <2> QED
    BY <2>1 DEF Scan!Next
<1> QED
  BY <1>3, <1>4 DEF Collect

\* Handling an event is not seen, or adds to the list of the contract.
LEMMA SeenNext == WirelessInv /\ NextEvent => [Scan!Next]_Scan!vars
<1> SUFFICES ASSUME WirelessInv, NextEvent PROVE [Scan!Next]_Scan!vars
  OBVIOUS
<1>1. pc = "events" /\ UNCHANGED <<op, dumped, radioVars>>
  BY DEF NextEvent
<1>2. CASE FreeAndReturn(-1) /\ UNCHANGED aps
  BY <1>1, <1>2, SeenGivenUp DEF FreeAndReturn, Return
<1>3. CASE UNCHANGED <<pc, ret>>
  BY <1>1, <1>3 DEF radioVars, Scan!vars, Scan!callVars, SeenCall, SeenRet, SeenList,
     InHand
<1> QED
  BY <1>2, <1>3 DEF NextEvent

\* The last event completes the list of the contract.
LEMMA SeenLast == WirelessInv /\ LastEvent => Scan!Next
<1> SUFFICES ASSUME WirelessInv, LastEvent PROVE Scan!Next
  OBVIOUS
<1>1. pc = "events" /\ UNCHANGED <<op, dumped, radioVars>>
  BY DEF LastEvent
<1>2. CASE FreeAndReturn(-1) /\ UNCHANGED aps
  BY <1>1, <1>2, SeenGivenUp DEF FreeAndReturn, Return
<1>3. CASE Taken(iwe) /\ FreeAndReturn(0)
  <2>1. aps' = WholeList(dumped)
    BY <1>1, <1>3, LastIsTaken DEF LastEvent, WirelessInv, ListInv
  <2>2. Scan!Returned("coll", 0, WholeList(dumped))
    BY <1>1, <1>3, <2>1, SeenEvents
       DEF FreeAndReturn, Return, Scan!Returned, SeenCall, SeenRet, SeenList, InHand
  <2>3. Scan!CollReturns
    BY <1>1, <2>2, SeenEvents DEF Scan!CollReturns, radioVars
  <2> QED
    BY <2>3 DEF Scan!Next
<1> QED
  BY <1>2, <1>3 DEF LastEvent

\* What the radio does is a step of the contract, or is not seen.
LEMMA SeenEnvironment == WirelessInv' /\ Environment => [Scan!Next]_Scan!vars
<1> SUFFICES ASSUME WirelessInv', Environment PROVE [Scan!Next]_Scan!vars
  OBVIOUS
<1> DEFINE same == UNCHANGED <<SeenCall, SeenRet, SeenList, InHand>>
<1>1. UNCHANGED <<pc, op, ret, aps, dumped>>
  BY DEF Environment, ScanEnds, OtherScan, Heard, Lost, Appear, Disappear, callVars,
     listVars
<1>2. UNCHANGED Scan!callVars
  BY <1>1 DEF Scan!callVars, SeenCall, SeenRet, SeenList, InHand
<1>3. CASE ScanEnds
  BY <1>2, <1>3 DEF ScanEnds, Scan!ScanEnds, Scan!Next
<1>4. CASE OtherScan
  BY <1>2, <1>4 DEF OtherScan, Scan!OtherScan, Scan!Next
<1>5. ASSUME NEW a \in Aps, Heard(a) \/ Lost(a) PROVE Scan!Next
  <2>1. UNCHANGED scanning
    BY <1>5 DEF Heard, Lost
  <2>2. bss' \in Seq(Aps)
    BY DEF WirelessInv, TypeInv, RadioOK
  <2> QED
    BY <1>2, <2>1, <2>2 DEF Scan!Update, Scan!Next
<1>6. ASSUME NEW n \in Names, Appear(n) \/ Disappear(n) PROVE UNCHANGED Scan!vars
  BY <1>1, <1>6, SeenNothing DEF Appear, Disappear
<1> QED
  BY <1>3, <1>4, <1>5, <1>6 DEF Environment

\* What nl80211_cmd_handler() does is not seen.
LEMMA SeenRequest ==
  ASSUME WirelessInv, Requesting, pc' # "events", UNCHANGED <<op, radioVars>>
  PROVE  UNCHANGED Scan!vars
<1>1. op \in {"add", "del"} /\ pc # "events"
  BY DEF WirelessInv, AnswerInv, Requesting
<1> QED
  BY <1>1 DEF radioVars, Scan!vars, Scan!callVars, SeenCall, SeenRet, SeenList, InHand

\* Every step inside a call is a step of the contract, or is not seen.
LEMMA SeenStep == WirelessInv /\ Step => [Scan!Next]_Scan!vars
<1> SUFFICES ASSUME WirelessInv, Step PROVE [Scan!Next]_Scan!vars
  OBVIOUS
<1>1. CASE Enlarge
  BY <1>1, SeenNothing DEF Enlarge
<1>2. CASE EnlargeFails \/ CollectRefused
  BY <1>2, SeenRefusal DEF EnlargeFails, CollectRefused, TooBig, FreeAndReturn,
     Return, listVars
<1>3. CASE ExtractFails
  BY <1>3, SeenGivenUp DEF ExtractFails, FreeAndReturn, Return, listVars
<1>4. CASE IfMessage \/ IfSend \/ IfCallback
  BY <1>4, SeenRequest DEF IfMessage, IfSend, IfCallback, Requesting
<1>5. CASE IfMessageFails \/ IfSendFails \/ IfCallbackFails \/ IfReceive
  BY <1>5, SeenRequest DEF IfMessageFails, IfSendFails, IfCallbackFails, IfReceive,
     ExitWith,
     Requesting
<1> QED
  BY <1>1, <1>2, <1>3, <1>4, <1>5, SeenCollect, SeenNext, SeenLast DEF Step

\* wireless.c implements what wapi.h promises of the three scan calls: the
\* buffer, the stream of events and the way out of each loop are not seen by
\* their caller.
THEOREM KeepsScanContract == Spec => ScanContract
<1>1. Init => Scan!Init
  BY EmptySeq DEF Init, Scan!Init, SeenCall, SeenRet, SeenList, InHand
<1>2. WirelessInv /\ WirelessInv' /\ [Next]_vars => [Scan!Next]_Scan!vars
  <2> SUFFICES ASSUME WirelessInv, WirelessInv', [Next]_vars PROVE [Scan!Next]_Scan!vars
    OBVIOUS
  <2>1. CASE UNCHANGED vars
    BY <2>1, SeenNothing DEF vars, callVars, listVars
  <2> QED
    BY <2>1, SeenCalls, SeenStep, SeenEnvironment DEF Next
<1> QED
  BY <1>1, <1>2, WirelessInvariant, PTL DEF Spec, ScanContract, Scan!Spec

=============================================================================
