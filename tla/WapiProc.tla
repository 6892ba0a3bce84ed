------------------------------ MODULE WapiProc ------------------------------
(***************************************************************************)
(* wapi_get_ifnames() and wapi_get_routes(), each called once by a program *)
(* that frees the list if the call succeeded, as sample.c does.  They read *)
(* /proc/net/wireless and /proc/net/route, which the kernel writes anew    *)
(* for every read(): between two of them interfaces come and go, and other *)
(* programs add and delete routes and shut the interface down.             *)
(***************************************************************************)
EXTENDS Integers, FiniteSets, SequencesExt

CONSTANTS
  Wlans,   \* the wireless interfaces there may be
  Routes,  \* the routes through a gateway there may be
  Tables,  \* what the files may hold at first
  Chunk,   \* the lines one read() returns, the headers at least
  FaultSets \* the sets of calls that may fail in one execution

ASSUME ChunkAssumption == Chunk \in Nat \ {0, 1}
ASSUME TablesAssumption == Tables \subseteq [wireless : Seq(Wlans), route : Seq(Routes)]

VARIABLES
  faults,  \* the calls that may fail in this one
  file,    \* the file being read: "wireless", then "route", then "none"
  step,    \* where in the call: "open", "header", "lines", "returned"
  ret,     \* what it returned
  buffer,  \* the lines read() returned and fgets() has not
  pos,     \* the lines read() has returned
  list,    \* the list made of them, its head first
  files,   \* the FILEs open
  nodes,   \* the list nodes allocated
  strings, \* the strings allocated to them
  up,      \* the kernel: is the interface up?
  table,   \* the kernel: the lines of both files, without headers
  seen,    \* history: the lines there were while the file was read
  moved,   \* history: did they change meanwhile?
  broken,  \* history: was the reading given up half-way?
  failed   \* history: the failures that leave something behind

callVars == <<file, step, ret>>
readVars == <<buffer, pos, list>>
heapVars == <<files, nodes, strings>>
kernel   == <<up, table>>
history  == <<seen, moved, broken, failed>>
vars     == <<faults, callVars, readVars, heapVars, kernel, history>>

May(f)  == f \in faults
Goto(s) == step' = s

\* Mutant: one header line is skipped in either file.
Header_One(f) == 1

Header(f) == IF f = "wireless" THEN 2 ELSE 1

Titles(f) == IF f = "wireless" THEN <<"Inter-", "face">> ELSE <<"Iface">>

\* What the next read() returns.  The kernel goes by the position in the file.
Ahead ==
  LET all == Titles(file) \o table[file]
  IN  SubSeq(all, pos + 1, Min({pos + Chunk, Len(all)}))

Init ==
  /\ faults \in FaultSets
  /\ file = "wireless" /\ step = "open" /\ ret = 0
  /\ buffer = <<>> /\ pos = 0 /\ list = <<>>
  /\ files = 0 /\ nodes = 0 /\ strings = 0
  /\ up = TRUE
  /\ table \in Tables
  /\ seen = {} /\ moved = FALSE /\ broken = FALSE /\ failed = {}

Open ==
  /\ step = "open" /\ file # "none"
  /\ files' = files + 1 /\ buffer' = <<>> /\ pos' = 0
  /\ seen' = ToSet(table[file]) /\ moved' = FALSE /\ broken' = FALSE
  /\ Goto("header")
  /\ UNCHANGED <<faults, file, ret, list, nodes, strings, kernel, failed>>

OpenFails ==
  /\ step = "open" /\ file # "none" /\ May("fopen")
  /\ ret' = -1 /\ Goto("returned")
  /\ UNCHANGED <<faults, file, readVars, heapVars, kernel, history>>

SkipHeader ==
  /\ step = "header"
  /\ buffer' = SubSeq(Ahead, Header(file) + 1, Len(Ahead)) /\ pos' = Len(Ahead)
  /\ Goto("lines")
  /\ UNCHANGED <<faults, file, ret, list, heapVars, kernel, history>>

\* The FILE is left open.
NoHeader ==
  /\ step = "header" /\ May("read")
  /\ ret' = -1 /\ Goto("returned")
  /\ failed' = failed \cup {<<"header", file>>}
  /\ UNCHANGED <<faults, file, readVars, heapVars, kernel, seen, moved, broken>>

\* fgets() has no line left and reads on.
Refill ==
  /\ step = "lines" /\ buffer = <<>> /\ Ahead # <<>>
  /\ buffer' = Ahead /\ pos' = pos + Len(Ahead)
  /\ UNCHANGED <<faults, callVars, list, heapVars, kernel, history>>

TakeLine ==
  /\ step = "lines" /\ buffer # <<>>
  /\ list' = <<Head(buffer)>> \o list /\ buffer' = Tail(buffer)
  /\ nodes' = nodes + 1 /\ strings' = strings + 1
  /\ UNCHANGED <<faults, callVars, pos, files, kernel, history>>

CloseAndReturn(r) ==
  /\ files' = files - 1 /\ buffer' = <<>> /\ pos' = 0
  /\ ret' = r /\ Goto("returned")

\* fgets() returns NULL at the end of the file as it does when read() fails.
EndOfFile ==
  /\ step = "lines" /\ buffer = <<>>
  /\ \/ Ahead = <<>> /\ UNCHANGED broken
     \/ May("read") /\ broken' = TRUE
  /\ CloseAndReturn(0)
  /\ UNCHANGED <<faults, file, list, nodes, strings, kernel, seen, moved, failed>>

\* wapi_get_routes() sets ret to -1 and returns 0.
GivenUp(f) == IF f = "wireless" THEN -1 ELSE 0

\* malloc() fails for the node or for its string.  In the second case
\* wapi_get_ifnames() does not free the node.
NoMemory ==
  /\ step = "lines" /\ buffer # <<>> /\ May("malloc")
  /\ nodes' \in {nodes, IF file = "wireless" THEN nodes + 1 ELSE nodes}
  /\ broken' = TRUE /\ failed' = failed \cup {<<"memory", file>>}
  /\ CloseAndReturn(GivenUp(file))
  /\ UNCHANGED <<faults, file, list, strings, kernel, seen, moved>>

NextFile ==
  /\ list' = <<>> /\ file' = (IF file = "wireless" THEN "route" ELSE "none") /\ Goto("open")
  /\ seen' = {} /\ moved' = FALSE /\ broken' = FALSE

\* Mutant: the nodes are freed, their strings are not.
FreeList_NodesOnly ==
  /\ step = "returned"
  /\ nodes' = IF ret >= 0 THEN nodes - Len(list) ELSE nodes
  /\ NextFile
  /\ UNCHANGED <<faults, ret, buffer, pos, files, strings, kernel, failed>>

\* The caller frees the list if the call succeeded, and forgets it otherwise.
FreeList ==
  /\ step = "returned"
  /\ nodes'   = IF ret >= 0 THEN nodes - Len(list) ELSE nodes
  /\ strings' = IF ret >= 0 THEN strings - Len(list) ELSE strings
  /\ NextFile
  /\ UNCHANGED <<faults, ret, buffer, pos, files, kernel, failed>>

Step == \/ Open \/ OpenFails \/ SkipHeader \/ NoHeader \/ Refill \/ TakeLine
        \/ EndOfFile \/ NoMemory \/ FreeList

(***************************************************************************)
(* The kernel and the other programs, which call the library too.          *)
(***************************************************************************)
Becomes(f, lines) ==
  /\ table' = [table EXCEPT ![f] = lines]
  /\ IF f = file /\ step # "open"
       THEN seen' = seen \cup ToSet(lines) /\ moved' = (moved \/ lines # table[f])
       ELSE UNCHANGED <<seen, moved>>
  /\ UNCHANGED <<faults, callVars, readVars, heapVars, broken, failed>>

Comes(f, line) ==
  /\ ~Contains(table[f], line)
  /\ \E k \in 1..Len(table[f]) + 1 : Becomes(f, InsertAt(table[f], k, line))

Goes(f, line) ==
  \E k \in 1..Len(table[f]) : table[f][k] = line /\ Becomes(f, RemoveAt(table[f], k))

WlanComes(w) == Comes("wireless", w) /\ UNCHANGED up
WlanGoes(w)  == Goes("wireless", w) /\ UNCHANGED up

\* wapi_add_route_gw(), wapi_del_route_gw(): the gateway must be in reach.
AddRouteGw(r) == up /\ Comes("route", r) /\ UNCHANGED up
DelRouteGw(r) == Goes("route", r) /\ UNCHANGED up

\* wapi_set_ifup(), wapi_set_ifdown(); the kernel deletes the routes.
SetIfUp   == up' = TRUE /\ UNCHANGED <<faults, callVars, readVars, heapVars, table, history>>
SetIfDown == up' = FALSE /\ Becomes("route", <<>>)

Others == \/ \E w \in Wlans : WlanComes(w) \/ WlanGoes(w)
          \/ \E r \in Routes : AddRouteGw(r) \/ DelRouteGw(r)
          \/ SetIfUp \/ SetIfDown

Next == Step \/ Others
Spec == Init /\ [][Next]_vars

-----------------------------------------------------------------------------
TypeOK ==
  /\ file \in {"wireless", "route", "none"} /\ ret \in {0, -1}
  /\ step \in {"open", "header", "lines", "returned"}
  /\ files \in Nat /\ nodes \in Nat /\ strings \in Nat /\ pos \in Nat
  /\ failed \subseteq {"header", "memory"} \X {"wireless", "route"}

(***************************************************************************)
(* Every line in the list, or yet to be put there, was in the file at some *)
(* time of the reading: headers are not taken for lines, lists not mixed   *)
(* up.  If nothing changed meanwhile and the reading was not given up, the *)
(* list has the lines of the file, all and in order, last first.  A call   *)
(* of wapi_get_ifnames() that was given up for lack of memory says so.     *)
(* Behaviour: wapi_get_ifnames() and wapi_get_routes(), the loops.         *)
(***************************************************************************)
CollectsTable ==
  /\ ToSet(list) \subseteq seen
  /\ step = "lines" => ToSet(buffer) \subseteq seen
  /\ (step = "returned" /\ ret = 0 /\ ~moved /\ ~broken) => list = Reverse(table[file])
  /\ (step = "returned" /\ <<"memory", file>> \in failed /\ file = "wireless") => ret = -1

(***************************************************************************)
(* Files and memory are held while they are needed and given back, but for *)
(* the known exceptions: the FILE of a call that found no header, and the  *)
(* nodes and strings of wapi_get_ifnames() when it ran out of memory.      *)
(* Behaviour: the ways out of both functions and the loops of main().      *)
(***************************************************************************)
LeaksKnown ==
  /\ files = (IF step \in {"header", "lines"} THEN 1 ELSE 0)
               + Cardinality({ f \in {"wireless", "route"} : <<"header", f>> \in failed })
  /\ <<"memory", "wireless">> \notin failed => nodes = Len(list) /\ strings = Len(list)
=============================================================================
