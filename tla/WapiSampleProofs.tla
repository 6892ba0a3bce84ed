-------------------------- MODULE WapiSampleProofs --------------------------
(***************************************************************************)
(* Proofs about the sample program, for any tables, number of lines a      *)
(* read() returns, results of scans, and tries, whatever fails and however *)
(* much other programs do.                                                 *)
(***************************************************************************)
EXTENDS WapiSample, FiniteSetTheorems, TLAPS

(***************************************************************************)
(* What read() returns.                                                    *)
(***************************************************************************)
Line == Wlans \cup Routes \cup {"Inter-", "face", "Iface"}

All == Titles(file) \o table[file]

LEMMA LessIsMin == ASSUME NEW a \in Int, NEW b \in Int PROVE Min({a, b}) = IF a <= b THEN a ELSE b
<1> DEFINE m == IF a <= b THEN a ELSE b
<1>1. m \in {a, b} /\ \A y \in {a, b} : m <= y
  OBVIOUS
<1>2. ASSUME NEW x \in {a, b}, \A y \in {a, b} : x <= y PROVE x = m
  BY <1>2
<1> QED
  BY <1>1, <1>2 DEF Min

\* The headers, then the lines.
LEMMA AllLines ==
  ASSUME file \in {"wireless", "route"}, table[file] \in Seq(Line)
  PROVE  /\ Header(file) \in 1..2
         /\ All \in Seq(Line) /\ Len(All) = Header(file) + Len(table[file])
         /\ \A k \in 1..Len(table[file]) : All[Header(file) + k] = table[file][k]
<1>1. Titles(file) \in Seq(Line) /\ Len(Titles(file)) = Header(file) /\ Header(file) \in 1..2
  <2>1. <<"Inter-", "face">> \in Seq(Line) /\ <<"Iface">> \in Seq(Line)
    BY DEF Line
  <2> QED
    BY <2>1 DEF Titles, Header
<1> QED
  BY <1>1 DEF All

LEMMA AheadIs ==
  ASSUME file \in {"wireless", "route"}, table[file] \in Seq(Line), pos \in Nat
  PROVE  /\ Ahead \in Seq(Line)
         /\ Len(Ahead) = IF pos < Len(All)
                           THEN (IF pos + Chunk <= Len(All) THEN Chunk ELSE Len(All) - pos)
                           ELSE 0
         /\ \A k \in 1..Len(Ahead) : Ahead[k] = All[pos + k]
<1> DEFINE n == Min({pos + Chunk, Len(All)})
<1>1. All \in Seq(Line) /\ Len(All) \in Nat /\ Chunk \in Nat \ {0, 1}
  BY AllLines, ChunkAssumption
<1>2. n = IF pos + Chunk <= Len(All) THEN pos + Chunk ELSE Len(All)
  BY <1>1, LessIsMin
<1>3. Ahead = SubSeq(All, pos + 1, n)
  BY DEF Ahead, All
<1>4. n \in 0..Len(All)
  BY <1>1, <1>2
<1> HIDE DEF n
<1>5. /\ SubSeq(All, pos + 1, n) \in Seq(Line)
      /\ Len(SubSeq(All, pos + 1, n)) = IF pos + 1 <= n THEN n - pos ELSE 0
      /\ \A k \in 1..(n - pos) : SubSeq(All, pos + 1, n)[k] = All[pos + k]
  BY <1>1, <1>4
<1> QED
  BY <1>1, <1>2, <1>3, <1>5

(***************************************************************************)
(* The readers of /proc/net.                                               *)
(***************************************************************************)
Shape ==
  /\ file \in {"wireless", "route", "none"} /\ ret \in {0, -1}
  /\ step \in {"open", "header", "lines", "returned"}
  /\ step # "open" => file # "none"
  /\ table = [f \in {"wireless", "route"} |-> table[f]]
  /\ table["wireless"] \in Seq(Line) /\ table["route"] \in Seq(Line)
  /\ list \in Seq(Line) /\ buffer \in Seq(Line) /\ pos \in Nat

Flags == moved \in BOOLEAN /\ broken \in BOOLEAN

\* What is in the list, and on its way there, was in the file.
Sound ==
  /\ step \in {"open", "header"} => list = <<>>
  /\ step = "header" => pos = 0
  /\ step = "lines" => pos >= Header(file)
  /\ step \in {"header", "lines"} => \A k \in 1..Len(table[file]) : table[file][k] \in seen
  /\ \A k \in 1..Len(list) : list[k] \in seen
  /\ step = "lines" => \A k \in 1..Len(buffer) : buffer[k] \in seen

\* When the file did not change, list and buffer are its lines up to pos.
Complete ==
  /\ step = "lines" /\ ~moved =>
       /\ pos = Header(file) + Len(list) + Len(buffer)
       /\ Len(list) + Len(buffer) <= Len(table[file])
       /\ \A k \in 1..Len(list) : list[k] = table[file][Len(list) + 1 - k]
       /\ \A k \in 1..Len(buffer) : buffer[k] = table[file][Len(list) + k]
  /\ step = "returned" /\ ret = 0 /\ ~moved /\ ~broken =>
       /\ Len(list) = Len(table[file])
       /\ \A k \in 1..Len(list) : list[k] = table[file][Len(list) + 1 - k]

\* A file is read once, and what fails is what its call leaves behind.
Headerless == { f \in {"wireless", "route"} : <<"header", f>> \in failed }
Memoryless == <<"memory", "wireless">> \in failed

Held ==
  /\ failed \subseteq {"header", "memory"} \X {"wireless", "route"}
  /\ \A what \in {"header", "memory"} :
       /\ <<what, "wireless">> \in failed => file # "wireless" \/ step = "returned"
       /\ <<what, "route">> \in failed => file = "none" \/ (file = "route" /\ step = "returned")
  /\ Memoryless /\ file = "wireless" => ret = -1
  /\ files = (IF step \in {"header", "lines"} THEN 1 ELSE 0) + Cardinality(Headerless)
  /\ nodes \in Nat /\ nodes >= Len(list) /\ strings \in Nat /\ strings >= Len(list)
  /\ ~Memoryless => /\ nodes = Len(list) /\ strings = Len(list)
                    /\ step = "returned" /\ ret = -1 => list = <<>>

\* Whatever others do, they give a file other lines, or none of what is here
\* changes.
Rewritten == \E f \in {"wireless", "route"} : \E lines \in Seq(Line) : Becomes(f, lines)

LEMMA OthersRewrite ==
  ASSUME Shape, Others
  PROVE  Rewritten \/ UNCHANGED <<callVars, readVars, heapVars, table, history>>
<1>1. ASSUME NEW f \in {"wireless", "route"}, NEW line \in Line, Comes(f, line)
      PROVE  Rewritten
  <2>1. PICK k \in 1..Len(table[f]) + 1 : Becomes(f, InsertAt(table[f], k, line))
    BY <1>1 DEF Comes
  <2>2. table[f] \in Seq(Line)
    BY DEF Shape
  <2>3. SubSeq(table[f], 1, k - 1) \in Seq(Line) /\ SubSeq(table[f], k, Len(table[f])) \in Seq(Line)
    BY <2>2
  <2>4. InsertAt(table[f], k, line) \in Seq(Line)
    BY <2>3 DEF InsertAt
  <2> QED
    BY <2>1, <2>4 DEF Rewritten
<1>2. ASSUME NEW f \in {"wireless", "route"}, NEW line, Goes(f, line)
      PROVE  Rewritten
  <2>1. PICK k \in 1..Len(table[f]) : Becomes(f, RemoveAt(table[f], k))
    BY <1>2 DEF Goes
  <2>2. table[f] \in Seq(Line)
    BY DEF Shape
  <2>3. SubSeq(table[f], 1, k - 1) \in Seq(Line) /\ SubSeq(table[f], k + 1, Len(table[f])) \in Seq(Line)
    BY <2>2
  <2>4. RemoveAt(table[f], k) \in Seq(Line)
    BY <2>3 DEF RemoveAt
  <2> QED
    BY <2>1, <2>4 DEF Rewritten
<1>3. Wlans \subseteq Line /\ Routes \subseteq Line /\ <<>> \in Seq(Line)
  BY DEF Line
<1>4. CASE \E w \in Wlans : WlanComes(w) \/ WlanGoes(w)
  BY <1>1, <1>2, <1>3, <1>4 DEF WlanComes, WlanGoes
<1>5. CASE \E r \in Routes : AddRouteGw(r) \/ DelRouteGw(r)
  BY <1>1, <1>2, <1>3, <1>5 DEF AddRouteGw, DelRouteGw
<1>6. CASE SetIfUp
  BY <1>6 DEF SetIfUp
<1>7. CASE SetIfDown
  BY <1>3, <1>7 DEF SetIfDown, Rewritten
<1> QED
  BY <1>4, <1>5, <1>6, <1>7 DEF Others

LEMMA ShapeKept == ASSUME Shape, [Next]_vars PROVE Shape'
<1> USE DEF Shape, callVars, readVars, heapVars, kernel, history, Goto
<1>1. CASE Open \/ OpenFails \/ NoHeader
  <2>1. CASE Open
    BY <2>1 DEF Open
  <2>2. CASE OpenFails
    BY <2>2 DEF OpenFails
  <2>3. CASE NoHeader
    BY <2>3 DEF NoHeader
  <2> QED
    BY <1>1, <2>1, <2>2, <2>3
<1>2. CASE SkipHeader
  <2>1. file \in {"wireless", "route"} /\ table[file] \in Seq(Line)
    BY <1>2 DEF SkipHeader
  <2>2. Ahead \in Seq(Line) /\ Header(file) \in 1..2
    BY <2>1, AllLines, AheadIs
  <2>3. Header(file) + 1 \in Nat \ {0} /\ Len(Ahead) \in Nat
    BY <2>2
  <2>4. SubSeq(Ahead, Header(file) + 1, Len(Ahead)) \in Seq(Line)
    BY <2>2, <2>3
  <2> QED
    BY <1>2, <2>1, <2>3, <2>4 DEF SkipHeader
<1>3. CASE Refill
  <2>1. file \in {"wireless", "route"} /\ table[file] \in Seq(Line)
    BY <1>3 DEF Refill
  <2>2. Ahead \in Seq(Line)
    BY <2>1, AheadIs
  <2>3. pos + Len(Ahead) \in Nat
    BY <2>2
  <2> QED
    BY <1>3, <2>2, <2>3 DEF Refill
<1>4. CASE TakeLine
  <2>1. Head(buffer) \in Line /\ Tail(buffer) \in Seq(Line)
    BY <1>4 DEF TakeLine
  <2>2. <<Head(buffer)>> \o list \in Seq(Line)
    BY <2>1
  <2> QED
    BY <1>4, <2>1, <2>2 DEF TakeLine
<1>5. CASE EndOfFile
  BY <1>5 DEF EndOfFile, CloseAndReturn
<1>6. CASE NoMemory
  BY <1>6 DEF NoMemory, CloseAndReturn, GivenUp
<1>7. CASE FreeList
  BY <1>7 DEF FreeList, NextFile
<1>8. CASE Others
  <2>1. CASE Rewritten
    BY <2>1 DEF Rewritten, Becomes
  <2>2. CASE ~Rewritten
    BY <1>8, <2>2, OthersRewrite
  <2> QED
    BY <2>1, <2>2
<1>9. CASE UNCHANGED vars
  BY <1>9 DEF vars
<1> QED
  BY <1>1, <1>2, <1>3, <1>4, <1>5, <1>6, <1>7, <1>8, <1>9 DEF Next, Step

LEMMA FlagsKept == ASSUME Flags, [Next]_vars PROVE Flags'
<1> USE DEF Flags, callVars, readVars, heapVars, kernel, history
<1>1. CASE Step
  BY <1>1, Zenon DEF Step, Open, OpenFails, SkipHeader, NoHeader, Refill, TakeLine,
                     EndOfFile, NoMemory, FreeList, NextFile
<1>2. ASSUME NEW f, NEW lines, Becomes(f, lines) PROVE Flags'
  BY <1>2, Zenon DEF Becomes
<1>3. CASE Others
  BY <1>2, <1>3, Zenon DEF Others, WlanComes, WlanGoes, AddRouteGw, DelRouteGw, Comes,
                           Goes, SetIfUp, SetIfDown
<1>4. CASE UNCHANGED vars
  BY <1>4 DEF vars
<1> QED
  BY <1>1, <1>3, <1>4 DEF Next

\* What the lines read() returns are, once the headers are behind.
LEMMA AheadLines ==
  ASSUME file \in {"wireless", "route"}, table[file] \in Seq(Line),
         pos \in Nat, pos >= Header(file)
  PROVE  LET n == Len(table[file]) IN
         /\ Header(file) \in 1..2 /\ Ahead \in Seq(Line) /\ n \in Nat
         /\ Ahead = <<>> => pos >= Header(file) + n
         /\ pos <= Header(file) + n => pos + Len(Ahead) <= Header(file) + n
         /\ \A k \in 1..Len(Ahead) :
              /\ pos + k - Header(file) \in 1..n
              /\ Ahead[k] = table[file][pos + k - Header(file)]
<1> DEFINE n == Len(table[file])
<1>1. /\ Header(file) \in 1..2 /\ All \in Seq(Line) /\ Len(All) = Header(file) + n /\ n \in Nat
      /\ \A k \in 1..n : All[Header(file) + k] = table[file][k]
  BY AllLines
<1>2. /\ Ahead \in Seq(Line) /\ Chunk \in Nat \ {0, 1}
      /\ Len(Ahead) = IF pos < Len(All)
                        THEN (IF pos + Chunk <= Len(All) THEN Chunk ELSE Len(All) - pos)
                        ELSE 0
      /\ \A k \in 1..Len(Ahead) : Ahead[k] = All[pos + k]
  BY AheadIs, ChunkAssumption
<1>3. /\ Ahead = <<>> => Len(Ahead) = 0
      /\ Len(Ahead) \in Nat /\ (Len(Ahead) > 0 => pos + Len(Ahead) <= Header(file) + n)
  BY <1>1, <1>2
<1>4. ASSUME NEW k \in 1..Len(Ahead)
      PROVE  /\ pos + k - Header(file) \in 1..n
             /\ Ahead[k] = table[file][pos + k - Header(file)]
  <2> DEFINE j == pos + k - Header(file)
  <2>1. j \in 1..n /\ Header(file) + j = pos + k
    <3>1. /\ Header(file) \in Int /\ Len(Ahead) \in Int /\ k \in Int /\ n \in Int
          /\ 1 <= k /\ k <= Len(Ahead) /\ pos + Len(Ahead) <= Header(file) + n
      BY <1>1, <1>3
    <3> HIDE DEF n
    <3> QED
      BY <3>1
  <2>2. Ahead[k] = All[Header(file) + j]
    BY <1>2, <2>1
  <2> QED
    BY <1>1, <2>1, <2>2
<1> QED
  BY <1>1, <1>2, <1>3, <1>4

LEMMA SkippedHeader ==
  ASSUME Shape, Sound, SkipHeader
  PROVE  LET n == Len(table[file]) IN
         /\ file \in {"wireless", "route"} /\ Header(file) \in 1..2 /\ n \in Nat
         /\ Len(buffer') \in Nat /\ pos' = Header(file) + Len(buffer') /\ Len(buffer') <= n
         /\ \A k \in 1..Len(buffer') : buffer'[k] = table[file][k]
<1> DEFINE n == Len(table[file])
<1>1. file \in {"wireless", "route"} /\ table[file] \in Seq(Line) /\ pos = 0
  BY DEF Shape, Sound, SkipHeader
<1>2. /\ Header(file) \in 1..2 /\ All \in Seq(Line) /\ Len(All) = Header(file) + n /\ n \in Nat
      /\ \A k \in 1..n : All[Header(file) + k] = table[file][k]
  BY <1>1, AllLines
<1>3. /\ Ahead \in Seq(Line) /\ Chunk \in Nat \ {0, 1}
      /\ Len(Ahead) = IF pos < Len(All)
                        THEN (IF pos + Chunk <= Len(All) THEN Chunk ELSE Len(All) - pos)
                        ELSE 0
      /\ \A k \in 1..Len(Ahead) : Ahead[k] = All[pos + k]
  BY <1>1, AheadIs, ChunkAssumption
<1>4. Len(Ahead) >= Header(file) /\ Len(Ahead) <= Header(file) + n
  BY <1>1, <1>2, <1>3
<1>5. /\ Len(buffer') = Len(Ahead) - Header(file)
      /\ \A k \in 1..Len(buffer') : buffer'[k] = Ahead[Header(file) + k]
  <2>1. \A h \in 1..2 : h <= Len(Ahead) =>
          LET rest == SubSeq(Ahead, h + 1, Len(Ahead)) IN
          /\ Len(rest) = Len(Ahead) - h
          /\ \A k \in 1..Len(rest) : rest[k] = Ahead[h + k]
    BY <1>3
  <2>2. buffer' = SubSeq(Ahead, Header(file) + 1, Len(Ahead))
    BY DEF SkipHeader
  <2> QED
    BY <1>2, <1>4, <2>1, <2>2
<1>6. ASSUME NEW k \in 1..Len(buffer') PROVE buffer'[k] = table[file][k]
  <2>1. Header(file) + k \in 1..Len(Ahead) /\ k \in 1..n
    <3>1. Len(Ahead) \in Nat
      BY <1>3
    <3> HIDE DEF n
    <3> QED
      BY <1>2, <1>4, <1>5, <3>1
  <2>2. buffer'[k] = Ahead[Header(file) + k]
    BY <1>5
  <2>3. Ahead[Header(file) + k] = All[0 + (Header(file) + k)]
    BY <1>1, <1>3, <2>1
  <2>4. 0 + (Header(file) + k) = Header(file) + k
    BY <1>2
  <2> QED
    BY <1>2, <2>1, <2>2, <2>3, <2>4
<1> QED
  BY <1>1, <1>2, <1>4, <1>5, <1>6 DEF SkipHeader

LEMMA SoundKept == ASSUME Shape, Sound, [Next]_vars PROVE Sound'
<1> USE DEF callVars, readVars, heapVars, kernel, history, Goto
<1>1. CASE Open
  <2>1. \A k \in 1..Len(table[file]) : table[file][k] \in seen'
    BY <1>1 DEF Open, ToSet, Shape
  <2> QED
    BY <1>1, <2>1 DEF Open, Sound
<1>2. CASE OpenFails \/ NoHeader
  BY <1>2 DEF OpenFails, NoHeader, Sound
<1>3. CASE SkipHeader
  <2>1. /\ Header(file) \in 1..2 /\ Len(table[file]) \in Nat
        /\ Len(buffer') \in Nat /\ pos' = Header(file) + Len(buffer')
        /\ Len(buffer') <= Len(table[file])
        /\ \A k \in 1..Len(buffer') : buffer'[k] = table[file][k]
    BY <1>3, SkippedHeader
  <2>2. \A k \in 1..Len(table[file]) : table[file][k] \in seen
    BY <1>3 DEF Sound, SkipHeader
  <2>3. \A k \in 1..Len(buffer') : buffer'[k] \in seen
    BY <2>1, <2>2
  <2>4. pos' >= Header(file)
    BY <2>1
  <2> QED
    BY <1>3, <2>2, <2>3, <2>4 DEF Sound, SkipHeader
<1>4. CASE Refill
  <2>1. file \in {"wireless", "route"} /\ table[file] \in Seq(Line) /\ pos \in Nat
    BY <1>4 DEF Refill, Shape
  <2>2. pos >= Header(file) /\ \A k \in 1..Len(table[file]) : table[file][k] \in seen
    BY <1>4 DEF Refill, Sound
  <2>3. /\ Header(file) \in 1..2 /\ Ahead \in Seq(Line)
        /\ \A k \in 1..Len(Ahead) :
             /\ pos + k - Header(file) \in 1..Len(table[file])
             /\ Ahead[k] = table[file][pos + k - Header(file)]
    BY <2>1, <2>2, AheadLines
  <2>4. \A k \in 1..Len(Ahead) : Ahead[k] \in seen
    BY <2>2, <2>3
  <2>5. pos + Len(Ahead) >= Header(file)
    BY <2>1, <2>2, <2>3
  <2> QED
    BY <1>4, <2>4, <2>5 DEF Refill, Sound
<1>5. CASE TakeLine
  <2>1. /\ list \in Seq(Line) /\ buffer \in Seq(Line) /\ buffer # <<>>
        /\ \A k \in 1..Len(list) : list[k] \in seen
        /\ \A k \in 1..Len(buffer) : buffer[k] \in seen
        /\ list' = <<Head(buffer)>> \o list /\ buffer' = Tail(buffer) /\ seen' = seen
    BY <1>5 DEF TakeLine, Shape, Sound
  <2>2. \A k \in 1..Len(list') : list'[k] \in seen
    <3>1. <<Head(buffer)>> \in Seq(Line) /\ Head(buffer) \in seen
      BY <2>1
    <3>2. ASSUME NEW k \in 1..Len(list') PROVE list'[k] \in seen
      <4>1. CASE k = 1
        BY <2>1, <3>1, <4>1
      <4>2. CASE k # 1
        <5>1. k - 1 \in 1..Len(list) /\ list'[k] = list[k - 1]
          BY <2>1, <3>1, <4>2
        <5> QED
          BY <2>1, <5>1
      <4> QED
        BY <4>1, <4>2
    <3> QED
      BY <3>2
  <2>3. \A k \in 1..Len(buffer') : buffer'[k] \in seen
    BY <2>1
  <2> QED
    BY <1>5, <2>2, <2>3 DEF TakeLine, Sound
<1>6. CASE EndOfFile
  BY <1>6 DEF EndOfFile, CloseAndReturn, Sound
<1>7. CASE NoMemory
  BY <1>7 DEF NoMemory, CloseAndReturn, Sound
<1>8. CASE FreeList
  BY <1>8 DEF FreeList, NextFile, Sound
<1>9. CASE Others
  <2>1. CASE Rewritten
    <3>1. PICK f \in {"wireless", "route"}, lines \in Seq(Line) : Becomes(f, lines)
      BY <2>1 DEF Rewritten
    <3>2. /\ table' = [table EXCEPT ![f] = lines]
          /\ UNCHANGED <<file, step, list, buffer, pos>>
          /\ seen \subseteq seen'
      BY <3>1 DEF Becomes
    <3>3. ASSUME step \in {"header", "lines"}, NEW k \in 1..Len(table'[file])
          PROVE  table'[file][k] \in seen'
      <4>1. CASE f = file
        <5>1. table'[file] = lines
          BY <3>2, <4>1 DEF Shape
        <5>2. seen' = seen \cup ToSet(lines)
          BY <3>1, <3>3, <4>1 DEF Becomes
        <5> QED
          BY <3>3, <5>1, <5>2 DEF ToSet
      <4>2. CASE f # file
        <5>1. table'[file] = table[file]
          BY <3>2, <3>3, <4>2 DEF Shape
        <5> QED
          BY <3>2, <3>3, <5>1 DEF Sound
      <4> QED
        BY <4>1, <4>2
    <3> QED
      BY <3>2, <3>3 DEF Sound
  <2>2. CASE ~Rewritten
    BY <1>9, <2>2, OthersRewrite DEF Sound
  <2> QED
    BY <2>1, <2>2
<1>10. CASE UNCHANGED vars
  BY <1>10 DEF vars, Sound
<1> QED
  BY <1>1, <1>2, <1>3, <1>4, <1>5, <1>6, <1>7, <1>8, <1>9, <1>10 DEF Next, Step

LEMMA CompleteKept ==
  ASSUME Shape, Flags, Sound, Complete, [Next]_vars PROVE Complete'
<1> USE DEF callVars, readVars, heapVars, kernel, history, Goto
<1>1. CASE Open \/ OpenFails \/ NoHeader
  BY <1>1 DEF Open, OpenFails, NoHeader, Complete
<1>2. CASE SkipHeader
  <2>1. list = <<>> /\ list' = list /\ step' = "lines" /\ UNCHANGED <<file, table, moved>>
    BY <1>2 DEF SkipHeader, Sound
  <2>2. Len(list') = 0
    BY <2>1
  <2>3. /\ file \in {"wireless", "route"} /\ Header(file) \in 1..2 /\ Len(table[file]) \in Nat
        /\ Len(buffer') \in Nat /\ pos' = Header(file) + Len(buffer')
        /\ Len(buffer') <= Len(table[file])
        /\ \A k \in 1..Len(buffer') : buffer'[k] = table[file][k]
    BY <1>2, SkippedHeader
  <2> QED
    BY <2>1, <2>2, <2>3 DEF Complete
<1>3. CASE Refill
  <2>1. /\ file \in {"wireless", "route"} /\ table[file] \in Seq(Line) /\ pos \in Nat
        /\ step = "lines" /\ Len(buffer) = 0 /\ Len(list) \in Nat /\ pos >= Header(file)
    BY <1>3 DEF Refill, Shape, Sound
  <2>2. /\ Header(file) \in 1..2 /\ Len(Ahead) \in Nat /\ Len(table[file]) \in Nat
        /\ pos <= Header(file) + Len(table[file])
             => pos + Len(Ahead) <= Header(file) + Len(table[file])
        /\ \A k \in 1..Len(Ahead) : Ahead[k] = table[file][pos + k - Header(file)]
    BY <2>1, AheadLines
  <2>3. /\ step' = "lines" /\ UNCHANGED <<file, table, moved, list>>
        /\ buffer' = Ahead /\ pos' = pos + Len(Ahead)
    BY <1>3 DEF Refill
  <2>4. ASSUME ~moved PROVE \A k \in 1..Len(Ahead) : Ahead[k] = table[file][Len(list) + k]
    <3>1. pos - Header(file) = Len(list)
      BY <2>1, <2>2, <2>4 DEF Complete
    <3>2. \A k \in Int : pos + k - Header(file) = Len(list) + k
      <4>1. pos \in Int /\ Header(file) \in Int /\ Len(list) \in Int
        BY <2>1, <2>2
      <4> QED
        BY <3>1, <4>1
    <3>3. ASSUME NEW k \in 1..Len(Ahead) PROVE Ahead[k] = table[file][Len(list) + k]
      <4>1. pos + k - Header(file) = Len(list) + k
        BY <3>2
      <4> QED
        BY <2>2, <4>1
    <3> QED
      BY <3>3
  <2> QED
    BY <2>1, <2>2, <2>3, <2>4 DEF Complete
<1>4. CASE TakeLine
  <2>1. /\ list \in Seq(Line) /\ buffer \in Seq(Line) /\ buffer # <<>>
        /\ list' = <<Head(buffer)>> \o list /\ buffer' = Tail(buffer)
        /\ step = "lines" /\ UNCHANGED <<file, table, moved, step, pos>>
    BY <1>4 DEF TakeLine, Shape
  <2>2. /\ Len(list') = Len(list) + 1 /\ list'[1] = buffer[1]
        /\ \A k \in 2..Len(list') : list'[k] = list[k - 1]
        /\ Len(buffer') = Len(buffer) - 1 /\ \A k \in 1..Len(buffer') : buffer'[k] = buffer[k + 1]
    <3>1. <<Head(buffer)>> \in Seq(Line) /\ Head(buffer) = buffer[1]
      BY <2>1
    <3> QED
      BY <2>1, <3>1
  <2> SUFFICES ASSUME ~moved
               PROVE  /\ pos = Header(file) + Len(list') + Len(buffer')
                      /\ Len(list') + Len(buffer') <= Len(table[file])
                      /\ \A k \in 1..Len(list') : list'[k] = table[file][Len(list') + 1 - k]
                      /\ \A k \in 1..Len(buffer') : buffer'[k] = table[file][Len(list') + k]
    BY <2>1 DEF Complete
  <2>3. /\ pos = Header(file) + Len(list) + Len(buffer)
        /\ Len(list) + Len(buffer) <= Len(table[file])
        /\ \A k \in 1..Len(list) : list[k] = table[file][Len(list) + 1 - k]
        /\ \A k \in 1..Len(buffer) : buffer[k] = table[file][Len(list) + k]
    BY <2>1 DEF Complete
  <2>4. Len(list) \in Nat /\ Len(buffer) \in Nat \ {0}
    BY <2>1
  <2>5. ASSUME NEW k \in 1..Len(list') PROVE list'[k] = table[file][Len(list') + 1 - k]
    <3>1. CASE k = 1
      <4>1. Len(list') + 1 - k = Len(list) + 1 /\ 1 \in 1..Len(buffer)
        BY <2>2, <2>4, <3>1
      <4> QED
        BY <2>2, <2>3, <3>1, <4>1
    <3>2. CASE k # 1
      <4>1. k - 1 \in 1..Len(list) /\ k \in 2..Len(list') /\ Len(list) + 1 - (k - 1) = Len(list') + 1 - k
        BY <2>2, <2>4, <3>2
      <4>2. list'[k] = list[k - 1] /\ list[k - 1] = table[file][Len(list) + 1 - (k - 1)]
        BY <2>2, <2>3, <4>1
      <4> QED
        BY <4>1, <4>2
    <3> QED
      BY <3>1, <3>2
  <2>6. ASSUME NEW k \in 1..Len(buffer') PROVE buffer'[k] = table[file][Len(list') + k]
    <3>1. k + 1 \in 1..Len(buffer) /\ Len(list) + (k + 1) = Len(list') + k
      <4>1. /\ k \in Int /\ 1 <= k /\ k <= Len(buffer) - 1 /\ Len(list') = Len(list) + 1
            /\ Len(list) \in Int /\ Len(buffer) \in Int
        BY <2>2, <2>4
      <4> QED
        BY <4>1
    <3> QED
      BY <2>2, <2>3, <3>1
  <2>7. Header(file) \in Int
    BY DEF Header
  <2>8. /\ pos = Header(file) + Len(list') + Len(buffer')
        /\ Len(list') + Len(buffer') <= Len(table[file])
    BY <2>2, <2>3, <2>4, <2>7
  <2> QED
    BY <2>5, <2>6, <2>8
<1>5. CASE EndOfFile
  <2>1. /\ file \in {"wireless", "route"} /\ table[file] \in Seq(Line) /\ pos \in Nat
        /\ step = "lines" /\ buffer = <<>> /\ Len(list) \in Nat /\ pos >= Header(file)
        /\ step' = "returned" /\ UNCHANGED <<file, table, moved, list>>
        /\ Ahead = <<>> \/ broken' = TRUE
    BY <1>5 DEF EndOfFile, CloseAndReturn, Shape, Sound
  <2> SUFFICES ASSUME ~moved, Ahead = <<>>
               PROVE  Len(list) = Len(table[file])
    BY <2>1 DEF Complete
  <2>2. /\ Header(file) \in 1..2 /\ Len(table[file]) \in Nat
        /\ pos >= Header(file) + Len(table[file])
    BY <2>1, AheadLines
  <2>3. pos = Header(file) + Len(list) /\ Len(list) <= Len(table[file])
    BY <2>1, <2>2 DEF Complete
  <2> QED
    BY <2>1, <2>2, <2>3
<1>6. CASE NoMemory
  BY <1>6 DEF NoMemory, CloseAndReturn, Complete
<1>7. CASE FreeList
  BY <1>7 DEF FreeList, NextFile, Complete
<1>8. CASE Others
  <2>1. CASE Rewritten
    <3>1. PICK f \in {"wireless", "route"}, lines \in Seq(Line) : Becomes(f, lines)
      BY <2>1 DEF Rewritten
    <3>2. /\ table' = [table EXCEPT ![f] = lines]
          /\ UNCHANGED <<file, step, ret, list, buffer, pos, broken>>
      BY <3>1 DEF Becomes
    <3>3. step # "open" /\ ~moved' => ~moved /\ (f = file => lines = table[f])
      BY <3>1 DEF Becomes
    <3>4. step # "open" /\ ~moved' => table'[file] = table[file]
      BY <3>2, <3>3 DEF Shape
    <3> QED
      BY <3>2, <3>3, <3>4 DEF Complete
  <2>2. CASE ~Rewritten
    BY <1>8, <2>2, OthersRewrite DEF Complete
  <2> QED
    BY <2>1, <2>2
<1>9. CASE UNCHANGED vars
  BY <1>9 DEF vars, Complete
<1> QED
  BY <1>1, <1>2, <1>3, <1>4, <1>5, <1>6, <1>7, <1>8, <1>9 DEF Next, Step

\* A failure of the call that is going on is counted once.
LEMMA HeaderlessGrows ==
  ASSUME NEW f \in {"wireless", "route"}, f \notin Headerless,
         failed' = failed \cup {<<"header", f>>}
  PROVE  Cardinality(Headerless') = Cardinality(Headerless) + 1
<1>1. Headerless' = { g \in {"wireless", "route"} : <<"header", g>> \in failed' }
  BY DEF Headerless
<1>2. Headerless' = Headerless \cup {f}
  BY <1>1 DEF Headerless
<1>3. IsFiniteSet({"wireless", "route"}) /\ Headerless \subseteq {"wireless", "route"}
  <2>1. IsFiniteSet({} \cup {"wireless"})
    BY FS_EmptySet, FS_AddElement
  <2>2. IsFiniteSet(({} \cup {"wireless"}) \cup {"route"})
    BY <2>1, FS_AddElement
  <2>3. ({} \cup {"wireless"}) \cup {"route"} = {"wireless", "route"}
    OBVIOUS
  <2> QED
    BY <2>2, <2>3 DEF Headerless
<1>4. IsFiniteSet(Headerless)
  BY <1>3, FS_Subset
<1> QED
  BY <1>2, <1>4, FS_AddElement

LEMMA HeadersCounted == Cardinality(Headerless) \in Nat
<1>1. IsFiniteSet({} \cup {"wireless"})
  BY FS_EmptySet, FS_AddElement
<1>2. IsFiniteSet(({} \cup {"wireless"}) \cup {"route"})
  BY <1>1, FS_AddElement
<1>3. ({} \cup {"wireless"}) \cup {"route"} = {"wireless", "route"}
  OBVIOUS
<1>4. IsFiniteSet(Headerless)
  BY <1>2, <1>3, FS_Subset DEF Headerless
<1> QED
  BY <1>4, FS_CardinalityType

LEMMA HeldKept == ASSUME Shape, Sound, Held, [Next]_vars PROVE Held'
<1> USE DEF callVars, readVars, heapVars, kernel, history, Goto, Memoryless
<1>1. failed' = failed => Headerless' = Headerless
  BY DEF Headerless
<1>2. Len(list) \in Nat
  BY DEF Shape
<1>3. CASE Open \/ OpenFails \/ SkipHeader
  <2>1. Headerless' = Headerless /\ failed' = failed
    BY <1>1, <1>3 DEF Open, OpenFails, SkipHeader
  <2>2. CASE Open
    BY <1>2, <2>1, <2>2, HeadersCounted DEF Open, Held, Sound
  <2>3. CASE OpenFails
    BY <1>2, <2>1, <2>3 DEF OpenFails, Held, Sound
  <2>4. CASE SkipHeader
    BY <1>2, <2>1, <2>4 DEF SkipHeader, Held, Sound
  <2> QED
    BY <1>3, <2>2, <2>3, <2>4
<1>4. CASE NoHeader
  <2>1. file \in {"wireless", "route"} /\ <<"header", file>> \notin failed
    BY <1>4 DEF NoHeader, Shape, Held
  <2>2. Cardinality(Headerless') = Cardinality(Headerless) + 1
    BY <1>4, <2>1, HeaderlessGrows DEF NoHeader, Headerless
  <2>3. files = files' /\ files = 1 + Cardinality(Headerless)
    BY <1>4 DEF NoHeader, Held
  <2>4. files' = (IF step' \in {"header", "lines"} THEN 1 ELSE 0) + Cardinality(Headerless')
    BY <1>4, <2>2, <2>3, HeadersCounted DEF NoHeader
  <2> QED
    BY <1>2, <1>4, <2>1, <2>4 DEF NoHeader, Held, Sound
<1>5. CASE Refill
  BY <1>1, <1>5 DEF Refill, Held
<1>6. CASE TakeLine
  <2>1. Len(list') = Len(list) + 1
    BY <1>6 DEF TakeLine, Shape
  <2> QED
    BY <1>1, <1>2, <1>6, <2>1 DEF TakeLine, Held
<1>7. CASE EndOfFile
  BY <1>1, <1>2, <1>7, HeadersCounted DEF EndOfFile, CloseAndReturn, Held
<1>8. CASE NoMemory
  <2>1. file \in {"wireless", "route"} /\ <<"memory", file>> \notin failed
    BY <1>8 DEF NoMemory, Shape, Held
  <2>2. Headerless' = Headerless
    <3>1. Headerless' = { g \in {"wireless", "route"} : <<"header", g>> \in failed' }
      BY DEF Headerless
    <3> QED
      BY <1>8, <3>1 DEF Headerless, NoMemory
  <2>3. files' = Cardinality(Headerless') /\ step' = "returned"
    BY <1>8, <2>2, HeadersCounted DEF NoMemory, CloseAndReturn, Held
  <2>4. CASE file = "wireless"
    BY <1>2, <1>8, <2>1, <2>3, <2>4 DEF NoMemory, CloseAndReturn, GivenUp, Held
  <2>5. CASE file = "route"
    BY <1>2, <1>8, <2>1, <2>3, <2>5 DEF NoMemory, CloseAndReturn, GivenUp, Held
  <2> QED
    BY <2>1, <2>4, <2>5
<1>9. CASE FreeList
  <2>1. Len(list') = 0 /\ file \in {"wireless", "route"} /\ ret \in {0, -1}
    BY <1>9 DEF FreeList, NextFile, Shape
  <2>2. nodes' \in Nat /\ strings' \in Nat /\ (~Memoryless => nodes' = 0 /\ strings' = 0)
    BY <1>2, <1>9, <2>1 DEF FreeList, Held
  <2> QED
    BY <1>1, <1>9, <2>1, <2>2 DEF FreeList, NextFile, Held
<1>10. CASE Others
  <2>1. UNCHANGED <<file, step, ret, list, files, nodes, strings, failed>>
    BY <1>10, OthersRewrite DEF Rewritten, Becomes
  <2> QED
    BY <1>1, <2>1 DEF Held
<1>11. CASE UNCHANGED vars
  BY <1>1, <1>11 DEF vars, Held
<1> QED
  BY <1>3, <1>4, <1>5, <1>6, <1>7, <1>8, <1>9, <1>10, <1>11 DEF Next, Step

ProcInv == Shape /\ Flags /\ Sound /\ Complete /\ Held

LEMMA ProcInit == Init => ProcInv
<1> SUFFICES ASSUME Init PROVE ProcInv
  OBVIOUS
<1>1. /\ file = "wireless" /\ step = "open" /\ ret = 0 /\ buffer = <<>> /\ pos = 0
      /\ list = <<>> /\ files = 0 /\ nodes = 0 /\ strings = 0
      /\ moved = FALSE /\ broken = FALSE /\ failed = {}
      /\ table \in [wireless : Seq(Wlans), route : Seq(Routes)]
  BY TablesAssumption DEF Init
<1>2. table["wireless"] \in Seq(Line) /\ table["route"] \in Seq(Line)
  <2>1. Wlans \subseteq Line /\ Routes \subseteq Line
    BY DEF Line
  <2>2. \A s \in Seq(Wlans) : s \in Seq(Line)
    BY <2>1
  <2>3. \A s \in Seq(Routes) : s \in Seq(Line)
    BY <2>1
  <2> QED
    BY <1>1, <2>2, <2>3
<1>3. table = [f \in {"wireless", "route"} |-> table[f]]
  BY <1>1
<1>4. Shape
  BY <1>1, <1>2, <1>3 DEF Shape
<1>5. Flags
  BY <1>1, Zenon DEF Flags
<1>6. Len(list) = 0
  BY <1>1
<1>7. Sound /\ Complete
  BY <1>1, <1>6 DEF Sound, Complete
<1>8. Headerless = {}
  BY <1>1 DEF Headerless
<1>9. Held
  BY <1>1, <1>6, <1>8, FS_EmptySet DEF Held, Memoryless
<1> QED
  BY <1>4, <1>5, <1>7, <1>9 DEF ProcInv

LEMMA ProcKept == ProcInv /\ [Next]_vars => ProcInv'
BY ShapeKept, FlagsKept, SoundKept, CompleteKept, HeldKept DEF ProcInv

\* The whole program reads the lists as module WapiProc says.
LEMMA MainReadsLists == [MainNext]_allVars => [Next]_vars
<1> SUFFICES ASSUME [MainNext]_allVars PROVE [Next]_vars
  OBVIOUS
<1>1. CASE ReadLists
  BY <1>1 DEF ReadLists, Next
<1>2. CASE Elsewhere
  BY <1>2 DEF Elsewhere, Next, procVars, vars
<1>3. CASE Configure \/ StartScan \/ PollScan \/ CollectScan \/ FreeScan \/ Close \/ ScanEnds
  BY <1>3 DEF Configure, StartScan, PollScan, CollectScan, FreeScan, Close, ScanEnds,
              procVars, vars
<1>4. CASE UNCHANGED allVars
  BY <1>4 DEF allVars, procVars, vars
<1> QED
  BY <1>1, <1>2, <1>3, <1>4 DEF MainNext, Main

(***************************************************************************)
(* Every line in a list was in the file while it was read; a list is       *)
(* complete and in order when the file did not change and the reading was  *)
(* not given up.  Behaviour: wapi_get_ifnames(), wapi_get_routes().        *)
(***************************************************************************)
THEOREM TableCollected == MainSpec => []CollectsTable
<1>1. MainInit => ProcInv
  BY ProcInit DEF MainInit
<1>2. ProcInv /\ [MainNext]_allVars => ProcInv'
  BY ProcKept, MainReadsLists
<1>3. ProcInv => CollectsTable
  <2> SUFFICES ASSUME ProcInv PROVE CollectsTable
    OBVIOUS
  <2> USE DEF ProcInv
  <2>1. ToSet(list) \subseteq seen /\ (step = "lines" => ToSet(buffer) \subseteq seen)
    <3>1. list \in Seq(Line) /\ buffer \in Seq(Line)
      BY DEF Shape
    <3>2. DOMAIN list = 1..Len(list) /\ DOMAIN buffer = 1..Len(buffer)
      BY <3>1
    <3> QED
      BY <3>2 DEF Sound, ToSet
  <2>2. ASSUME step = "returned", ret = 0, ~moved, ~broken
        PROVE  list = Reverse(table[file])
    <3>1. /\ list \in Seq(Line) /\ table[file] \in Seq(Line) /\ Len(list) = Len(table[file])
          /\ \A k \in 1..Len(list) : list[k] = table[file][Len(list) + 1 - k]
      BY <2>2 DEF Shape, Complete
    <3>2. \A k \in 1..Len(list) : Len(list) + 1 - k = (Len(table[file]) - k) + 1
      BY <3>1
    <3>3. list = [k \in 1..Len(table[file]) |-> table[file][(Len(table[file]) - k) + 1]]
      BY <3>1, <3>2
    <3> QED
      BY <3>3 DEF Reverse
  <2>3. step = "returned" /\ <<"memory", file>> \in failed /\ file = "wireless" => ret = -1
    BY DEF Held, Memoryless
  <2> QED
    BY <2>1, <2>2, <2>3 DEF CollectsTable
<1> QED
  BY <1>1, <1>2, <1>3, PTL DEF MainSpec

(***************************************************************************)
(* The sample program leaks what is known, and no more: a FILE per header  *)
(* that was missing, and the list of a wapi_get_ifnames() that ran out of  *)
(* memory.  Behaviour: the ways out of both functions.                     *)
(***************************************************************************)
THEOREM NoOtherLeaks == MainSpec => []LeaksKnown
<1>1. MainInit => ProcInv
  BY ProcInit DEF MainInit
<1>2. ProcInv /\ [MainNext]_allVars => ProcInv'
  BY ProcKept, MainReadsLists
<1>3. ProcInv => LeaksKnown
  BY DEF ProcInv, Held, Memoryless, Headerless, LeaksKnown
<1> QED
  BY <1>1, <1>2, <1>3, PTL DEF MainSpec

(***************************************************************************)
(* The whole program.                                                      *)
(***************************************************************************)
Bools == sock \in BOOLEAN /\ (pc = "end" => ~sock)

Places ==
  /\ pc \in {"lists", "conf", "scan", "stat", "coll", "free", "close", "end"}
  /\ tries \in 0..MaxTries /\ (pc = "stat" => tries >= 1)
  /\ pc \in {"close", "end"} => aps = <<>>

\* A scan this program began goes on until it is over, and meanwhile nothing
\* is handed out.
Fresh ==
  /\ began \in {"no", "on", "over"}
  /\ began = "on" => scanning /\ taken = NoResult /\ ~(call = "coll" /\ scanRet = 0)

LEMMA BoolsKept == Bools /\ [MainNext]_allVars => Bools'
<1> SUFFICES ASSUME Bools, [MainNext]_allVars PROVE Bools'
  OBVIOUS
<1> USE DEF Bools, To, confVars, scanVars
<1>1. CASE ReadLists
  BY <1>1, Zenon DEF ReadLists
<1>2. CASE Configure
  <2>1. sock' \in BOOLEAN
    BY <1>2, Zenon DEF Configure, Conf!Step, Conf!MakeSocket, Conf!GetSetting, Conf!GetFails,
          Conf!FindChannel, Conf!FindFreq, Conf!NoSetter, Conf!SetSetting, Conf!SetFails,
          Conf!CloseSocket, Conf!fixedVars
  <2>2. pc' # "end"
    BY <1>2 DEF Configure
  <2> QED
    BY <2>1, <2>2
<1>3. CASE StartScan \/ PollScan \/ CollectScan \/ FreeScan
  <2>1. sock' = sock
    BY <1>3 DEF StartScan, PollScan, CollectScan, FreeScan
  <2>2. pc' # "end"
    BY <1>3 DEF StartScan, PollScan, Polled, CollectScan, FreeScan
  <2> QED
    BY <2>1, <2>2
<1>4. CASE Close
  BY <1>4 DEF Close, Conf!CloseSocket
<1>5. CASE ScanEnds
  BY <1>5, Zenon DEF ScanEnds
<1>6. CASE Elsewhere
  <2>1. pc' = pc
    BY <1>6 DEF Elsewhere
  <2>2. Conf!Others => sock' = sock
    BY DEF Conf!Others, Conf!OtherSets, Conf!fixedVars
  <2>3. sock' = sock
    BY <1>6, <2>2 DEF Elsewhere
  <2> QED
    BY <2>1, <2>3, Zenon
<1>7. CASE UNCHANGED allVars
  BY <1>7 DEF allVars
<1> QED
  BY <1>1, <1>2, <1>3, <1>4, <1>5, <1>6, <1>7 DEF MainNext, Main

LEMMA PlacesKept == Places /\ [MainNext]_allVars => Places'
<1> SUFFICES ASSUME Places, [MainNext]_allVars PROVE Places'
  OBVIOUS
<1> USE TriesAssumption DEF Places, To, scanVars, Scan!Returned, Scan!callVars
<1>1. CASE ReadLists
  BY <1>1 DEF ReadLists
<1>2. CASE Configure
  BY <1>2 DEF Configure
<1>3. CASE StartScan
  BY <1>3 DEF StartScan
<1>4. CASE PollScan
  <2>1. aps' = <<>> /\ tries' = tries - 1 /\ pc' = Polled(scanRet') /\ tries >= 1
    BY <1>4 DEF PollScan, Scan!ScanStat, TriesLeft
  <2> QED
    BY <2>1 DEF Polled, TriesLeft
<1>5. CASE CollectScan
  BY <1>5 DEF CollectScan
<1>6. CASE FreeScan
  BY <1>6 DEF FreeScan, Scan!Release
<1>7. CASE Close
  BY <1>7 DEF Close
<1>8. CASE ScanEnds
  BY <1>8 DEF ScanEnds, Scan!ScanEnds
<1>9. CASE Elsewhere
  BY <1>9 DEF Elsewhere, Scan!OtherScan, Scan!Update
<1>10. CASE UNCHANGED allVars
  BY <1>10 DEF allVars
<1> QED
  BY <1>1, <1>2, <1>3, <1>4, <1>5, <1>6, <1>7, <1>8, <1>9, <1>10 DEF MainNext, Main

(***************************************************************************)
(* Types, and what main() has given back when it ends: socket and list.    *)
(* Behaviour: main() as a whole.                                           *)
(***************************************************************************)
THEOREM TypeCorrectness == MainSpec => []MainTypeOK
<1>1. MainInit => ProcInv /\ Bools /\ Places
  <2> SUFFICES ASSUME MainInit PROVE ProcInv /\ Bools /\ Places
    OBVIOUS
  <2>1. Bools
    BY Zenon DEF MainInit, Bools, Conf!Init
  <2> QED
    BY <2>1, ProcInit, TriesAssumption DEF MainInit, Places
<1>2. ProcInv /\ Bools /\ Places /\ [MainNext]_allVars => ProcInv' /\ Bools' /\ Places'
  BY ProcKept, MainReadsLists, BoolsKept, PlacesKept
<1>3. ProcInv /\ Bools /\ Places => MainTypeOK
  <2> SUFFICES ASSUME ProcInv, Bools, Places PROVE MainTypeOK
    OBVIOUS
  <2>1. TypeOK
    BY HeadersCounted DEF ProcInv, Shape, Held, TypeOK
  <2>2. pc = "end" => ~sock /\ aps = <<>>
    BY DEF Bools, Places
  <2>3. sock \in BOOLEAN
    BY DEF Bools
  <2> QED
    BY <2>1, <2>2, <2>3 DEF Places, MainTypeOK
<1> QED
  BY <1>1, <1>2, <1>3, PTL DEF MainSpec

(***************************************************************************)
(* A list shown after this program began a scan is never that of an        *)
(* earlier one, for any number of tries and any scans of others.           *)
(* Behaviour: scan(), with the library as WapiScan promises it.            *)
(***************************************************************************)
THEOREM ResultIsFresh == MainSpec => []FreshResult
<1>1. MainInit => Fresh
  BY DEF MainInit, Fresh
<1>2. Fresh /\ [MainNext]_allVars => Fresh'
  <2> SUFFICES ASSUME Fresh, [MainNext]_allVars PROVE Fresh'
    OBVIOUS
  <2> USE DEF Fresh, To, scanVars, Scan!Returned, Scan!callVars
  <2>1. CASE ReadLists \/ Configure \/ Close
    BY <2>1 DEF ReadLists, Configure, Close
  <2>2. CASE StartScan
    BY <2>2 DEF StartScan, Scan!ScanInit
  <2>3. CASE PollScan
    BY <2>3 DEF PollScan, Scan!ScanStat
  <2>4. CASE CollectScan
    BY <2>4 DEF CollectScan, Scan!ScanColl, Scan!Take, Scan!CollReturns
  <2>5. CASE FreeScan
    BY <2>5 DEF FreeScan, Scan!Release
  <2>6. CASE ScanEnds
    BY <2>6 DEF ScanEnds, Scan!ScanEnds
  <2>7. CASE Elsewhere
    BY <2>7 DEF Elsewhere, Scan!OtherScan, Scan!Update
  <2>8. CASE UNCHANGED allVars
    BY <2>8 DEF allVars
  <2> QED
    BY <2>1, <2>2, <2>3, <2>4, <2>5, <2>6, <2>7, <2>8 DEF MainNext, Main
<1>3. Fresh => FreshResult
  BY DEF Fresh, FreshResult
<1> QED
  BY <1>1, <1>2, <1>3, PTL DEF MainSpec

(***************************************************************************)
(* The settings.  What WapiConfProofs proves of conf() alone holds of it   *)
(* within the program, which instantiates the same definitions as Conf.    *)
(***************************************************************************)
CP == INSTANCE WapiConfProofs

LEMMA SameConf ==
  /\ Conf!SettingsAssumption <=> CP!SettingsAssumption
  /\ Conf!Init <=> CP!Init
  /\ Conf!Next <=> CP!Next
  /\ Conf!vars = CP!vars
<1>1. Conf!SettingsAssumption <=> CP!SettingsAssumption
  BY Zenon DEF Conf!SettingsAssumption, CP!SettingsAssumption, Conf!IsConf, CP!IsConf,
         Conf!SettingNames, CP!SettingNames, Conf!Setting, CP!Setting, Conf!IwFreq,
         CP!IwFreq, Conf!Freq2Float, CP!Freq2Float
<1>2. Conf!Init <=> CP!Init
  BY Zenon DEF Conf!Init, CP!Init, Conf!Settings, CP!Settings, Conf!NotFound,
         CP!NotFound
<1>3. Conf!Next <=> CP!Next
  BY Zenon DEF Conf!Freq2Float, CP!Freq2Float, Conf!Has, CP!Has, Conf!IW_FREQ_AUTO,
         CP!IW_FREQ_AUTO, Conf!IW_FREQ_FIXED, CP!IW_FREQ_FIXED, Conf!IW_TXPOW_DBM,
         CP!IW_TXPOW_DBM, Conf!IW_TXPOW_MWATT, CP!IW_TXPOW_MWATT,
         Conf!IW_TXPOW_RELATIVE, CP!IW_TXPOW_RELATIVE, Conf!GetFreq, CP!GetFreq,
         Conf!GetEssid, CP!GetEssid, Conf!GetAddr, CP!GetAddr, Conf!GetAp, CP!GetAp,
         Conf!GetMode, CP!GetMode, Conf!GetBitrate, CP!GetBitrate, Conf!GetTxpower,
         CP!GetTxpower, Conf!Get, CP!Get, Conf!Log10, CP!Log10, Conf!Float2Freq,
         CP!Float2Freq, Conf!SetFreq, CP!SetFreq, Conf!SetEssid, CP!SetEssid,
         Conf!SetAddr, CP!SetAddr, Conf!SetMode, CP!SetMode, Conf!SetAp, CP!SetAp,
         Conf!SetBitrate, CP!SetBitrate, Conf!SetTxpower, CP!SetTxpower, Conf!Set,
         CP!Set, Conf!Stored, CP!Stored, Conf!NotFound, CP!NotFound, Conf!First,
         CP!First, Conf!Freq2Chan, CP!Freq2Chan, Conf!Chan2Freq, CP!Chan2Freq,
         Conf!convVars, CP!convVars, Conf!fixedVars, CP!fixedVars, Conf!kernel,
         CP!kernel, Conf!cur, CP!cur, Conf!Fails, CP!Fails, Conf!MakeSocket,
         CP!MakeSocket, Conf!NextSetting, CP!NextSetting, Conf!GetFails, CP!GetFails,
         Conf!GetSetting, CP!GetSetting, Conf!FindChannel, CP!FindChannel,
         Conf!FindFreq, CP!FindFreq, Conf!NoSetter, CP!NoSetter, Conf!SetSetting,
         CP!SetSetting, Conf!SetFails, CP!SetFails, Conf!CloseSocket, CP!CloseSocket,
         Conf!Step, CP!Step, Conf!Writing, CP!Writing, Conf!OtherSets, CP!OtherSets,
         Conf!Others, CP!Others, Conf!Next, CP!Next
<1>4. Conf!vars = CP!vars
  BY Zenon DEF Conf!vars, CP!vars, Conf!convVars, CP!convVars, Conf!fixedVars,
         CP!fixedVars, Conf!kernel, CP!kernel
<1> QED
  BY <1>1, <1>2, <1>3, <1>4

\* The faults of an execution are drawn once.
LEMMA FaultsStay == [Next]_vars => faults' = faults
<1> SUFFICES ASSUME [Next]_vars PROVE faults' = faults
  OBVIOUS
<1>1. CASE Step
  BY <1>1 DEF Step, Open, OpenFails, SkipHeader, NoHeader, Refill, TakeLine, EndOfFile,
              NoMemory, FreeList
<1>2. CASE Others
  <2>1. ASSUME NEW f, NEW line, Comes(f, line) \/ Goes(f, line) PROVE faults' = faults
    BY <2>1 DEF Comes, Goes, Becomes
  <2>2. SetIfUp \/ SetIfDown => faults' = faults
    BY DEF SetIfUp, SetIfDown, Becomes
  <2> QED
    BY <1>2, <2>1, <2>2 DEF Others, WlanComes, WlanGoes, AddRouteGw, DelRouteGw
<1> QED
  BY <1>1, <1>2 DEF Next, vars

\* The whole program goes through the settings as module WapiConf says.
LEMMA MainConfigures == [MainNext]_allVars => [CP!Next]_(CP!vars)
<1> SUFFICES ASSUME [MainNext]_allVars PROVE [Conf!Next]_(Conf!vars)
  BY SameConf DEF Conf!vars, CP!vars, Conf!convVars, CP!convVars, Conf!fixedVars,
                  CP!fixedVars, Conf!kernel, CP!kernel
<1>1. faults' = faults
  BY MainReadsLists, FaultsStay
<1> USE DEF Conf!vars, Conf!convVars, Conf!fixedVars, Conf!kernel, confVars
<1>2. CASE Configure
  BY <1>2 DEF Configure, Conf!Next
<1>3. CASE Close
  BY <1>3 DEF Close, Conf!Next, Conf!Step
<1>4. CASE Elsewhere
  BY <1>1, <1>4 DEF Elsewhere, Conf!Next
<1>5. CASE ReadLists \/ StartScan \/ PollScan \/ CollectScan \/ FreeScan \/ ScanEnds
  BY <1>1, <1>5 DEF ReadLists, StartScan, PollScan, CollectScan, FreeScan, ScanEnds
<1>6. CASE UNCHANGED allVars
  BY <1>1, <1>6 DEF allVars
<1> QED
  BY <1>2, <1>3, <1>4, <1>5, <1>6 DEF MainNext, Main

LEMMA MainIsConf == MainSpec => CP!Spec
<1>1. MainInit => CP!Init
  BY SameConf DEF MainInit
<1> QED
  BY <1>1, MainConfigures, PTL DEF MainSpec, CP!Spec

(***************************************************************************)
(* Within the whole program, too, every setting is as it was at first or   *)
(* as others made it last, but for those the program undid.                *)
(* Behaviour: conf() in main(), with the getters and setters.              *)
(***************************************************************************)
THEOREM SettingsSurvive == MainSpec => []KeepsSettings
<1>1. CP!Spec => []CP!KeepsSettings
  BY SameConf, ConfAssumption, CP!SettingsKept, ExpAssumption, PowAssumption
<1>2. CP!KeepsSettings <=> KeepsSettings
  BY Zenon DEF KeepsSettings, Conf!KeepsSettings, CP!KeepsSettings, Conf!Kept, CP!Kept,
         Conf!SettingNames, CP!SettingNames, Conf!Rounded, CP!Rounded,
         Conf!Freq2Float, CP!Freq2Float, Conf!Float2Freq, CP!Float2Freq, Conf!Log10,
         CP!Log10
<1> QED
  BY <1>1, <1>2, MainIsConf, PTL

(***************************************************************************)
(* Within the whole program, too, the frequency shown for the channel      *)
(* found is that of the interface.                                         *)
(* Behaviour: wapi_freq2chan() and wapi_chan2freq() as conf() calls them.  *)
(***************************************************************************)
THEOREM FrequencyIsShown == MainSpec => []ChannelShown
<1>1. CP!Spec => []CP!ChannelShown
  BY SameConf, ConfAssumption, CP!FrequencyOfChannel, ExpAssumption, PowAssumption
<1>2. CP!ChannelShown <=> ChannelShown
  BY Zenon DEF ChannelShown, Conf!ChannelShown, CP!ChannelShown, Conf!NotFound, CP!NotFound
<1> QED
  BY <1>1, <1>2, MainIsConf, PTL
=============================================================================
