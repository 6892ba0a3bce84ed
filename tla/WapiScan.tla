------------------------------ MODULE WapiScan ------------------------------
(***************************************************************************)
(* What a caller of the scan functions may rely on: wapi_scan_init()       *)
(* returns 0 when it started a scan, wapi_scan_stat() tells whether one is *)
(* under way, and wapi_scan_coll() returns 0 with the list of one result   *)
(* that was complete while the call lasted.  Module Wireless implements    *)
(* it; WapiSample is a program that relies on it.                          *)
(***************************************************************************)
EXTENDS Integers

CONSTANTS
  Results,     \* the results of scans
  Lists,       \* the lists a caller may get
  ListOf(_),   \* the list of a whole result
  Part(_, _),  \* may a list be left behind by a call given up over a result?
  NoList,      \* the empty list
  NoResult     \* no result is being processed

VARIABLES
  call,      \* the last call: "none", "init", "stat" or "coll", or "collecting"
  ret,       \* what it returned
  aps,       \* the list it returned
  taken,     \* the result wapi_scan_coll() is processing
  scanning,  \* the kernel: is a scan under way?
  bss        \* the kernel: the result of the last scan

callVars == <<call, ret, aps, taken>>
vars     == <<callVars, scanning, bss>>

Returned(c, r, l) == call' = c /\ ret' = r /\ aps' = l /\ taken' = NoResult

Init == /\ call = "none" /\ ret = 0 /\ aps = NoList /\ taken = NoResult
        /\ scanning = FALSE /\ bss \in Results

\* Mutant: 0 although no scan was started.
ScanInit_Ignored ==
  /\ call # "collecting"
  /\ scanning' = scanning /\ Returned("init", 0, NoList)
  /\ UNCHANGED bss

ScanInit ==
  /\ call # "collecting"
  /\ \/ ~scanning /\ scanning' = TRUE /\ Returned("init", 0, NoList)
     \/ UNCHANGED scanning /\ Returned("init", -1, NoList)
  /\ UNCHANGED bss

ScanStat ==
  /\ call # "collecting"
  /\ \/ Returned("stat", IF scanning THEN 1 ELSE 0, NoList)
     \/ Returned("stat", -1, NoList)
  /\ UNCHANGED <<scanning, bss>>

ScanColl ==
  /\ call # "collecting"
  /\ Returned("collecting", 0, NoList) \/ Returned("coll", -1, NoList)
  /\ UNCHANGED <<scanning, bss>>

\* The kernel hands its result out, but not during a scan.
Take ==
  /\ call = "collecting" /\ taken = NoResult /\ ~scanning
  /\ taken' = bss
  /\ UNCHANGED <<call, ret, aps, scanning, bss>>

CollReturns ==
  /\ call = "collecting"
  /\ \/ taken # NoResult /\ Returned("coll", 0, ListOf(taken))
     \/ taken = NoResult /\ ~scanning /\ Returned("coll", 0, ListOf(bss))
     \/ taken # NoResult /\ aps' \in Lists /\ Part(aps', taken) /\ Returned("coll", -1, aps')
     \/ taken = NoResult /\ Returned("coll", -1, NoList)
  /\ UNCHANGED <<scanning, bss>>

\* The caller has freed the list.
Release ==
  /\ call # "collecting"
  /\ Returned("none", 0, NoList)
  /\ UNCHANGED <<scanning, bss>>

\* A scan begins or ends; the result of the last one is updated.
ScanEnds  == scanning /\ scanning' = FALSE /\ UNCHANGED <<callVars, bss>>
OtherScan == ~scanning /\ scanning' = TRUE /\ UNCHANGED <<callVars, bss>>
Update    == bss' \in Results /\ UNCHANGED <<callVars, scanning>>

Next == \/ ScanInit \/ ScanStat \/ ScanColl \/ Take \/ CollReturns \/ Release
        \/ ScanEnds \/ OtherScan \/ Update

Spec == Init /\ [][Next]_vars
=============================================================================
