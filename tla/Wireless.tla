------------------------------ MODULE Wireless ------------------------------
(***************************************************************************)
(* wireless.c: scanning for access points, and adding and deleting virtual *)
(* interfaces, as one program uses them, a call at a time.                 *)
(*                                                                         *)
(* A scan is three calls: wapi_scan_init() starts it, wapi_scan_stat()     *)
(* tells whether it is over, wapi_scan_coll() asks the kernel for the      *)
(* result until the buffer is large enough, and turns the stream of events *)
(* it gets into a list of cells.  Meanwhile access points come and go, and *)
(* other programs start scans.                                             *)
(*                                                                         *)
(* nl80211_cmd_handler(), behind wapi_if_add() and wapi_if_del(), is one   *)
(* netlink request with a receive loop of its own.                         *)
(***************************************************************************)
EXTENDS Integers, SequencesExt

CONSTANTS
  Aps,        \* the access points in the range, by address
  Report,     \* what the kernel reports of each after its SIOCGIWAP event
  ScanLen,    \* IW_SCAN_MAX_DATA, in events
  LengthMod,  \* 2^16, in events: iw_point.length is a __u16
  IntMod,     \* 2^31, in events: buflen is an int
  Names,      \* names of interfaces
  MaxIndex,   \* bound: the largest ifindex the kernel gives out on its own
  Faults      \* the calls that may fail for no reason of their own

Kinds == {"ap", "freq", "mode", "essid", "rate", "other"}
Event == [cmd : Kinds, val : Nat]

\* A SIOCGIWAP event opens each report, and is in none.
ASSUME ReportAssumption ==
  Aps \subseteq Nat /\ Report \in [Aps -> Seq([cmd : Kinds \ {"ap"}, val : Nat])]
\* 4096 bytes, 2^16 and 2^31.
ASSUME LengthAssumption ==
  /\ {ScanLen, LengthMod, IntMod} \subseteq Nat \ {0}
  /\ ScanLen < LengthMod /\ LengthMod <= IntMod
ASSUME IndexAssumption  == MaxIndex \in Nat

VARIABLES
  pc,         \* where the call is, "idle" between calls
  op,         \* the last call
  ret,        \* what it returned
  held,       \* what it has allocated: "buf", "sock", "msg", "cb"
  buflen,     \* wapi_scan_coll(): the size of buf
  stream,     \* wapi_scan_coll(): the events not yet extracted
  iwe,        \* wapi_scan_coll(): the event extracted last
  aps,        \* the list of cells, head first
  name,       \* wapi_if_add(), wapi_if_del(): the interface to add or delete
  ifidx,      \* nl80211_cmd_handler(): the ifindex of ctx->ifname
  answer,     \* nl80211_cmd_handler(): the kernel's reply, "none" while there is none
  scanning,   \* the kernel: is a scan under way?
  bss,        \* the kernel: the access points it has heard, in order
  ifs,        \* the kernel: the ifindex of each interface, 0 if there is none
  nextIndex,  \* the kernel: the ifindex of the next interface
  dumped,     \* history: the access points of the result being processed
  peak,       \* history: the largest result the kernel had no room for
  faulty,     \* history: did something fail for no reason of its own?
  served      \* history: did the kernel carry the request out?

bufVars    == <<buflen, stream, iwe>>
listVars   == <<aps, dumped, peak>>
ifVars     == <<name, ifidx, answer>>
radioVars  == <<scanning, bss>>
tableVars  == <<ifs, nextIndex>>
callVars   == <<pc, op, ret, held, bufVars, listVars, ifVars, faulty, served>>
vars == <<callVars, radioVars, tableVars>>

NoName == "none"
May(f) == f \in Faults

(***************************************************************************)
(* The kernel's result, and a cell made of its events.                     *)
(***************************************************************************)
Reported(a) == <<[cmd |-> "ap", val |-> a]>> \o Report[a]

EventsOf(b) == FlattenSeq([i \in 1..Len(b) |-> Reported(b[i])])

Size(b) == Len(EventsOf(b))

\* WAPI_MODE_AUTO to WAPI_MODE_MONITOR.
KnownModes == 0..6

NewCell(a) == [ap |-> a, freq |-> 0, mode |-> 0, essid |-> 0, rate |-> 0]

\* Mutant: the last bit rate is kept, not the largest.
Noted_LastRate(c, e) == [c EXCEPT ![e.cmd] = e.val]

\* has_x = 0 is the value 0.
Noted(c, e) == [c EXCEPT ![e.cmd] = IF e.cmd = "rate" /\ @ > e.val THEN @ ELSE e.val]

(***************************************************************************)
(* wapi_scan_init() and wapi_scan_stat()                                   *)
(***************************************************************************)
\* The caller has freed the list of the call before.
Call(o, r) ==
  /\ pc = "idle" /\ op' = o /\ ret' = r
  /\ aps' = <<>> /\ dumped' = <<>> /\ peak' = 0 /\ faulty' = FALSE /\ served' = FALSE

\* Mutant: SIOCGIWSCAN for SIOCSIWSCAN; no scan is started.
ScanInit_Get ==
  /\ Call("init", IF scanning THEN -1 ELSE 0)
  /\ UNCHANGED <<pc, held, bufVars, ifVars, radioVars, tableVars>>

ScanInit ==
  /\ \/ ~scanning /\ scanning' = TRUE /\ Call("init", 0)
     \/ (scanning \/ May("ioctl")) /\ UNCHANGED scanning /\ Call("init", -1)
  /\ UNCHANGED <<pc, held, bufVars, ifVars, bss, tableVars>>

\* Mutant: EAGAIN is returned as it is.
ScanStat_Errno ==
  /\ Call("stat", IF scanning THEN 11 ELSE 0)
  /\ UNCHANGED <<pc, held, bufVars, ifVars, radioVars, tableVars>>

\* EAGAIN is 1; E2BIG is 0, and so is an empty result.
ScanStat ==
  /\ \/ Call("stat", IF scanning THEN 1 ELSE 0)
     \/ May("ioctl") /\ Call("stat", -1)
  /\ UNCHANGED <<pc, held, bufVars, ifVars, radioVars, tableVars>>

(***************************************************************************)
(* wapi_scan_coll()                                                        *)
(***************************************************************************)
ScanColl ==
  /\ Call("coll", 0)
  /\ pc' = "collect" /\ held' = {"buf"} /\ buflen' = ScanLen
  /\ UNCHANGED <<stream, iwe, ifVars, radioVars, tableVars>>

\* The WE version cannot be read, or malloc() fails.
ScanCollFails ==
  /\ May("ioctl") \/ May("malloc")
  /\ Call("coll", -1)
  /\ UNCHANGED <<pc, held, bufVars, ifVars, radioVars, tableVars>>

NoEvent == [cmd |-> "other", val |-> 0]

Return(r) == /\ pc' = "idle" /\ ret' = r
             /\ buflen' = 0 /\ stream' = <<>> /\ iwe' = NoEvent

FreeAndReturn(r) == Return(r) /\ held' = held \ {"buf"}

\* The length the kernel is told.
Length(n) == n % LengthMod

TooBig == pc = "collect" /\ ~scanning /\ Size(bss) > Length(buflen)

\* Mutants: the buffer grows to 64 kB at once; it does not grow.
Grown_ToLimit(n) == IF n < LengthMod THEN LengthMod ELSE 2 * n
Grown_Not(n)     == n

Grown(n) == 2 * n

Enlarge ==
  /\ TooBig /\ Grown(buflen) < IntMod
  /\ buflen' = Grown(buflen)
  /\ peak' = IF Size(bss) > peak THEN Size(bss) ELSE peak
  /\ UNCHANGED <<pc, op, ret, held, faulty, served, stream, iwe, aps, dumped, ifVars,
                 radioVars, tableVars>>

\* realloc() fails, as it does for a buflen that has become negative.
EnlargeFails ==
  /\ TooBig /\ (Grown(buflen) >= IntMod \/ May("realloc"))
  /\ FreeAndReturn(-1)
  /\ faulty' = (Grown(buflen) < IntMod)
  /\ peak' = IF Size(bss) > peak THEN Size(bss) ELSE peak
  /\ UNCHANGED <<op, served, aps, dumped, ifVars, radioVars, tableVars>>

\* Mutant: the buffer is not freed.
CollectRefused_Keeps ==
  /\ pc = "collect" /\ (scanning \/ May("ioctl"))
  /\ Return(-1)
  /\ faulty' = ~scanning
  /\ UNCHANGED <<op, held, served, listVars, ifVars, radioVars, tableVars>>

\* EAGAIN, or some other failure.
CollectRefused ==
  /\ pc = "collect" /\ (scanning \/ May("ioctl"))
  /\ FreeAndReturn(-1)
  /\ faulty' = ~scanning
  /\ UNCHANGED <<op, served, listVars, ifVars, radioVars, tableVars>>

Collect ==
  /\ pc = "collect" /\ ~scanning /\ Size(bss) <= Length(buflen)
  /\ dumped' = bss
  /\ \/ bss = <<>> /\ FreeAndReturn(0)
     \/ bss # <<>> /\ stream' = EventsOf(bss) /\ pc' = "events"
        /\ UNCHANGED <<ret, held, buflen, iwe>>
  /\ UNCHANGED <<op, faulty, served, aps, peak, ifVars, radioVars, tableVars>>

\* wapi_scan_event(): it succeeds, or not.
CellAdded(e)   == e.cmd = "ap" /\ aps' = <<NewCell(e.val)>> \o aps
UnknownMode(e) == e.cmd = "mode" /\ e.val \notin KnownModes
CellNoted(e)   == /\ e.cmd \notin {"ap", "other"} /\ ~UnknownMode(e)
                  /\ aps' = [aps EXCEPT ![1] = Noted(@, e)]
Ignored(e)     == e.cmd = "other" /\ UNCHANGED aps

Taken(e)    == CellAdded(e) \/ CellNoted(e) \/ Ignored(e)
NotTaken(e) == UnknownMode(e) \/ (e.cmd = "ap" /\ May("cell"))

NextEvent ==
  /\ pc = "events" /\ stream # <<>>
  /\ LET e == Head(stream) IN
     \/ /\ Taken(e) /\ iwe' = e /\ stream' = Tail(stream)
        /\ UNCHANGED <<pc, ret, held, faulty, buflen>>
     \/ /\ NotTaken(e) /\ FreeAndReturn(-1)
        /\ faulty' = ~UnknownMode(e) /\ UNCHANGED aps
  /\ UNCHANGED <<op, served, dumped, peak, ifVars, radioVars, tableVars>>

\* iw_extract_event_stream() has no more events and returns 0; the event that
\* is still in iwe is handled once more.
LastEvent ==
  /\ pc = "events" /\ stream = <<>>
  /\ \/ Taken(iwe) /\ FreeAndReturn(0) /\ UNCHANGED faulty
     \/ NotTaken(iwe) /\ FreeAndReturn(-1) /\ faulty' = TRUE /\ UNCHANGED aps
  /\ UNCHANGED <<op, served, dumped, peak, ifVars, radioVars, tableVars>>

\* iw_extract_event_stream() returns an error.
ExtractFails ==
  /\ pc = "events" /\ May("extract")
  /\ FreeAndReturn(-1) /\ faulty' = TRUE
  /\ UNCHANGED <<op, served, listVars, ifVars, radioVars, tableVars>>

(***************************************************************************)
(* nl80211_cmd_handler()                                                   *)
(***************************************************************************)
\* "exit:" releases what there is.
ExitWith(r) == /\ pc' = "idle" /\ ret' = r /\ held' = held \ {"sock", "msg", "cb"}
               /\ name' = NoName /\ ifidx' = 0 /\ answer' = "none"

\* The socket is connected, the family is resolved, ctx->ifname is looked up.
IfRequest(o, n, m) ==
  /\ Call(o, 0)
  /\ name' = m /\ ifidx' = ifs[n]
  /\ held' = {"sock"} /\ pc' = "message"
  /\ UNCHANGED <<answer, bufVars, radioVars, tableVars>>

\* The socket cannot be had.
IfRequestFails(o) ==
  /\ May("socket") /\ Call(o, -1)
  /\ UNCHANGED <<pc, held, bufVars, ifVars, radioVars, tableVars>>

IfAdd == \E n, m \in Names : nextIndex <= MaxIndex /\ IfRequest("add", n, m)
IfDel == \E n \in Names : IfRequest("del", n, n)

IfMessage ==
  /\ pc = "message" /\ ifidx # 0
  /\ held' = held \cup {"msg"} /\ pc' = "send"
  /\ UNCHANGED <<op, ret, faulty, served, bufVars, listVars, ifVars, radioVars,
                 tableVars>>

\* No such interface; no message; a parameter does not fit, or the mode has no
\* iftype.
IfMessageFails ==
  /\ pc = "message" /\ (ifidx = 0 \/ May("message"))
  /\ ExitWith(-1) /\ faulty' = (ifidx # 0)
  /\ UNCHANGED <<op, served, bufVars, listVars, radioVars, tableVars>>

Present == \E n \in Names : ifs[n] = ifidx

\* The kernel serves the request when it is sent; its answer may get lost.
KernelServes ==
  \/ /\ op = "add" /\ Present /\ ifs[name] = 0
     /\ ifs' = [ifs EXCEPT ![name] = nextIndex] /\ nextIndex' = nextIndex + 1
  \/ /\ op = "del" /\ Present
     /\ ifs' = [n \in Names |-> IF ifs[n] = ifidx THEN 0 ELSE ifs[n]]
     /\ UNCHANGED nextIndex

KernelRefuses == ~Present \/ (op = "add" /\ ifs[name] # 0)

IfSend ==
  /\ pc = "send"
  /\ pc' = "callback"
  /\ \/ KernelServes /\ served' = TRUE
     \/ KernelRefuses /\ UNCHANGED <<served, tableVars>>
  /\ \/ answer' = (IF served' THEN "ack" ELSE "error") /\ UNCHANGED faulty
     \/ May("receive") /\ faulty' = TRUE /\ UNCHANGED answer
  /\ UNCHANGED <<op, ret, held, bufVars, listVars, name, ifidx, radioVars>>

IfSendFails ==
  /\ pc = "send" /\ May("send")
  /\ ExitWith(-1) /\ faulty' = TRUE
  /\ UNCHANGED <<op, served, bufVars, listVars, radioVars, tableVars>>

IfCallback ==
  /\ pc = "callback"
  /\ held' = held \cup {"cb"} /\ pc' = "receive"
  /\ UNCHANGED <<op, ret, faulty, served, bufVars, listVars, ifVars, radioVars,
                 tableVars>>

\* The request has been made all the same.
IfCallbackFails ==
  /\ pc = "callback" /\ May("callback")
  /\ ExitWith(-1) /\ faulty' = TRUE
  /\ UNCHANGED <<op, served, bufVars, listVars, radioVars, tableVars>>

\* Mutant: the error handler ends the loop as the handler of an ACK does.
IfReceive_ErrorIsAck ==
  /\ pc = "receive" /\ answer # "none"
  /\ ExitWith(0)
  /\ UNCHANGED <<op, faulty, served, bufVars, listVars, radioVars, tableVars>>

\* The loop ends when a handler has set ret.
IfReceive ==
  /\ pc = "receive" /\ answer # "none"
  /\ ExitWith(IF answer = "ack" THEN 0 ELSE -1)
  /\ UNCHANGED <<op, faulty, served, bufVars, listVars, radioVars, tableVars>>

(***************************************************************************)
(* The environment, and the specification                                  *)
(***************************************************************************)
ScanEnds  == scanning /\ scanning' = FALSE
          /\ UNCHANGED <<bss, callVars, tableVars>>
OtherScan == ~scanning /\ scanning' = TRUE
          /\ UNCHANGED <<bss, callVars, tableVars>>

Heard(a) == /\ ~Contains(bss, a) /\ bss' = Append(bss, a)
            /\ UNCHANGED <<scanning, callVars, tableVars>>
Lost(a)  == /\ \E k \in 1..Len(bss) : bss[k] = a /\ bss' = RemoveAt(bss, k)
            /\ UNCHANGED <<scanning, callVars, tableVars>>

Appear(n)    == /\ ifs[n] = 0 /\ nextIndex <= MaxIndex
                /\ ifs' = [ifs EXCEPT ![n] = nextIndex] /\ nextIndex' = nextIndex + 1
                /\ UNCHANGED <<callVars, radioVars>>
Disappear(n) == /\ ifs[n] # 0 /\ ifs' = [ifs EXCEPT ![n] = 0]
                /\ UNCHANGED <<nextIndex, callVars, radioVars>>

Init ==
  /\ pc = "idle" /\ op = "none" /\ ret = 0 /\ held = {} /\ faulty = FALSE
  /\ buflen = 0 /\ stream = <<>> /\ iwe = NoEvent /\ aps = <<>>
  /\ dumped = <<>> /\ peak = 0
  /\ name = NoName /\ ifidx = 0 /\ answer = "none" /\ served = FALSE
  /\ scanning = FALSE /\ bss = <<>>
  /\ ifs = [n \in Names |-> 0] /\ nextIndex = 1

Calls == \/ ScanInit \/ ScanStat \/ ScanColl \/ ScanCollFails
         \/ IfAdd \/ IfDel \/ IfRequestFails("add") \/ IfRequestFails("del")

Step == \/ Enlarge \/ EnlargeFails \/ CollectRefused \/ Collect
        \/ NextEvent \/ LastEvent \/ ExtractFails
        \/ IfMessage \/ IfMessageFails \/ IfSend \/ IfSendFails
        \/ IfCallback \/ IfCallbackFails \/ IfReceive

Environment == \/ ScanEnds \/ OtherScan \/ \E a \in Aps : Heard(a) \/ Lost(a)
               \/ \E n \in Names : Appear(n) \/ Disappear(n)

Next == Calls \/ Step \/ Environment

Spec     == Init /\ [][Next]_vars

\* The process goes on; nothing has to fail.
FairSpec == Spec /\ WF_vars(Step /\ (faulty' => faulty))

(***************************************************************************)
(* Properties                                                              *)
(***************************************************************************)
\* Every variable is of its type.
TypeOK ==
  /\ pc \in {"idle", "collect", "events", "message", "send", "callback", "receive"}
  /\ op \in {"none", "init", "stat", "coll", "add", "del"} /\ ret \in {-1, 0, 1}
  /\ held \subseteq {"buf", "sock", "msg", "cb"} /\ {faulty, served} \subseteq BOOLEAN
  /\ buflen \in 0..IntMod /\ stream \in Seq(Event) /\ iwe \in Event
  /\ ToSet(aps) \subseteq [ap : Aps, freq : Nat, mode : Nat, essid : Nat, rate : Nat]
  /\ name \in Names \cup {NoName} /\ ifidx \in Nat
  /\ answer \in {"none", "ack", "error"}
  /\ scanning \in BOOLEAN /\ bss \in Seq(Aps) /\ dumped \in Seq(Aps) /\ peak \in Nat
  /\ ifs \in [Names -> Nat] /\ nextIndex \in Nat

\* What the first n events of a report say of an access point: the last value
\* of each kind, of the bit rates the largest.
ValuesAt(a, k, n) == { i \in 1..n : Reported(a)[i].cmd = k }
LastAt(a, k, n)   == IF ValuesAt(a, k, n) = {} THEN 0
                     ELSE Reported(a)[Max(ValuesAt(a, k, n))].val
BestAt(a, n)      == Max({0} \cup { Reported(a)[i].val : i \in ValuesAt(a, "rate", n) })

CellAt(a, n) == [ap |-> a, freq |-> LastAt(a, "freq", n), mode |-> LastAt(a, "mode", n),
                 essid |-> LastAt(a, "essid", n), rate |-> BestAt(a, n)]
CellOf(a)    == CellAt(a, Len(Reported(a)))

\* The list of a whole result; an access point of which nothing but its
\* address is reported is listed twice if it comes last.
Cells(b) == Reverse([i \in 1..Len(b) |-> CellOf(b[i])])
WholeList(b) ==
  IF b # <<>> /\ Report[Last(b)] = <<>>
    THEN <<CellOf(Last(b))>> \o Cells(b)
    ELSE Cells(b)

\* wapi_scan_coll() mixes no two results and attributes no event to another
\* cell, whatever comes and goes while it enlarges the buffer: it returns 0
\* with the whole of one result; and when it is given up half-way every cell
\* but the newest is whole.
CollectsOneResult ==
  /\ op = "coll" /\ pc = "idle" /\ ret = 0 => aps = WholeList(dumped)
  /\ op = "coll" /\ aps # <<>> => IsSuffix(Tail(aps), Cells(dumped))

\* What the caller sees of the three scan functions: the last call, what it
\* returned and the list it left; and the result that is being processed.
SeenCall == IF op \notin {"init", "stat", "coll"} THEN "none"
            ELSE IF pc # "idle" THEN "collecting" ELSE op
SeenRet  == IF op \in {"init", "stat", "coll"} THEN ret ELSE 0
SeenList == IF op = "coll" /\ pc = "idle" THEN aps ELSE <<>>
NoResult == <<-1>>
InHand   == IF pc = "events" THEN dumped ELSE NoResult

\* A list that is given up half-way.
PartOf(l, b) == l = <<>> \/ IsSuffix(Tail(l), Cells(b))

\* The three scan functions are the calls of WapiScan: whatever is enlarged,
\* refused, extracted and given up inside wapi_scan_coll(), its caller sees one
\* call that takes one result and returns the list of it, or -1.
Scan == INSTANCE WapiScan WITH
  Results <- Seq(Aps), ListOf <- WholeList, Part <- PartOf, NoList <- <<>>,
  Lists <- Seq([ap : Aps, freq : Nat, mode : Nat, essid : Nat, rate : Nat]),
  call <- SeenCall, ret <- SeenRet, aps <- SeenList, taken <- InHand
ScanContract == Scan!Spec

\* No buffer and no libnl object outlives the call it was allocated for.
NothingHeld == pc = "idle" => held = {}

\* The largest buffer whose size fits into iw_point.length.
Doubled[k \in Nat] == IF k = 0 THEN ScanLen ELSE 2 * Doubled[k - 1]
Largest == Max({ n \in 1..(LengthMod - 1) : \E k \in 0..LengthMod : n = Doubled[k] })

\* wapi_scan_coll() gives up by itself only when a scan is under way or a
\* result was larger than 32768 bytes; the buffer then grows until its size is
\* no int any more.
GivesUpOnHugeOnly ==
  [][pc = "collect" /\ pc' = "idle" /\ ret' = -1 =>
       faulty' \/ scanning \/ peak' > Largest]_vars

\* wapi_if_add() and wapi_if_del() return 0 only when the kernel did it; and
\* when nothing failed on the way, always then.
AnsweredRight ==
  op \in {"add", "del"} /\ pc = "idle" =>
    /\ ret = 0 => served
    /\ served /\ ~faulty => ret = 0

\* Every call returns, but for a request whose answer was lost.
Unanswered == pc = "receive" /\ answer = "none"
Returns == (pc # "idle") ~> (pc = "idle" \/ Unanswered)
=============================================================================
