----------------------------- MODULE WapiSample -----------------------------
(***************************************************************************)
(* main() of sample.c, the program sample-get or, built with ENABLE_SET,   *)
(* sample-set: the lists of interfaces and routes (WapiProc), the settings *)
(* of one interface (WapiConf), and a scan, by the calls of the library as *)
(* WapiScan promises them.  Other programs do what they like meanwhile.    *)
(***************************************************************************)
EXTENDS WapiProc, WapiAccessors

CONSTANTS
  Confs, Values, ClassMask, Channels, Garbage,   \* see WapiConf
  Results,    \* the results scans may have, sequences of access points
  MaxTries,   \* sleeptries: 5
  MaxOthers   \* bound: what other programs do

ASSUME TriesAssumption == MaxTries \in Nat \ {0}

VARIABLES
  pc,         \* where main() is
  stage, todo, value, chan, tmpfreq, enableSet, sock, conf, last, raced, lost,
  call, scanRet, aps, taken, scanning, bss,
  tries,      \* scan(): sleeptries
  began,      \* history: "no", or the scan this program began is "on" or "over"
  others      \* how much other programs have done

ListOf(r)   == Reverse(r)
Part(l, r)  == IsSuffix(l, ListOf(r))
Lists       == UNION { Suffixes(ListOf(r)) : r \in Results }
NoResult    == <<-1>>

Conf == INSTANCE WapiConf
Scan == INSTANCE WapiScan WITH ret <- scanRet, NoList <- <<>>

ASSUME ConfAssumption == Conf!SettingsAssumption

procVars  == <<faults, callVars, readVars, heapVars, kernel, history>>
confVars  == <<stage, todo, value, chan, tmpfreq, enableSet, sock, conf, last, raced, lost>>
scanVars  == <<call, scanRet, aps, taken, scanning, bss, tries, began>>
allVars   == <<pc, procVars, confVars, scanVars, others>>

To(l) == pc' = l

MainInit ==
  /\ pc = "lists" /\ Init /\ Conf!Init /\ Scan!Init
  /\ tries = 0 /\ began = "no" /\ others = 0

ReadLists ==
  /\ pc = "lists" /\ Step
  /\ To(IF file' = "none" THEN "conf" ELSE "lists")
  /\ UNCHANGED <<confVars, scanVars, others>>

Configure ==
  /\ pc = "conf" /\ todo # <<>> /\ Conf!Step
  /\ To(IF todo' = <<>> THEN "scan" ELSE "conf")
  /\ UNCHANGED <<procVars, scanVars, others>>

\* The result of wapi_scan_init() is printed, not looked at.
StartScan ==
  /\ pc = "scan" /\ To("stat")
  /\ Scan!ScanInit /\ (sock \/ scanRet' = -1)
  /\ tries' = MaxTries /\ began' = IF scanRet' = 0 THEN "on" ELSE "no"
  /\ UNCHANGED <<procVars, confVars, others>>

\* Mutant: the tries are counted anew when they are used up.
TriesLeft_Anew == IF tries = 1 THEN MaxTries ELSE tries - 1

\* --sleeptries
TriesLeft == tries - 1

\* The condition of the loop, and the return after it.
Polled(r) ==
  IF r < 0 THEN "close" ELSE IF r > 0 /\ TriesLeft > 0 THEN "stat" ELSE "coll"

PollScan ==
  /\ pc = "stat"
  /\ Scan!ScanStat /\ (sock \/ scanRet' = -1)
  /\ tries' = TriesLeft /\ To(Polled(scanRet'))
  /\ UNCHANGED <<procVars, confVars, began, others>>

CollectScan ==
  /\ pc = "coll"
  /\ \/ Scan!ScanColl /\ (sock \/ call' = "coll")
     \/ Scan!Take
     \/ Scan!CollReturns
  /\ To(IF call' = "coll" THEN "free" ELSE "coll")
  /\ UNCHANGED <<procVars, confVars, tries, began, others>>

FreeScan ==
  /\ pc = "free" /\ To("close")
  /\ Scan!Release
  /\ UNCHANGED <<procVars, confVars, tries, began, others>>

Close ==
  /\ pc = "close" /\ To("end")
  /\ Conf!CloseSocket
  /\ UNCHANGED <<procVars, scanVars, others>>

Main == \/ ReadLists \/ Configure \/ StartScan \/ PollScan \/ CollectScan
        \/ FreeScan \/ Close

ScanEnds ==
  /\ Scan!ScanEnds /\ began' = IF began = "on" THEN "over" ELSE began
  /\ UNCHANGED <<pc, procVars, confVars, tries, others>>

\* What others do to the files before main() comes to read them only changes
\* what they hold at first, and afterwards nothing; so with the rest.
Elsewhere ==
  /\ others < MaxOthers /\ others' = others + 1
  /\ \/ pc = "lists" /\ Others /\ UNCHANGED <<confVars, scanVars>>
     \/ pc = "conf" /\ Conf!Others /\ UNCHANGED <<procVars, scanVars>>
     \/ /\ pc \notin {"lists", "conf"}
        /\ Scan!OtherScan \/ Scan!Update
        /\ UNCHANGED <<procVars, confVars, tries, began>>
  /\ UNCHANGED pc

MainNext == Main \/ ScanEnds \/ Elsewhere

MainSpec == MainInit /\ [][MainNext]_allVars
FairSpec == MainSpec /\ WF_allVars(Main)

-----------------------------------------------------------------------------
MainTypeOK ==
  /\ TypeOK /\ pc \in {"lists", "conf", "scan", "stat", "coll", "free", "close", "end"}
  /\ sock \in BOOLEAN /\ tries \in 0..MaxTries
  /\ pc = "end" => ~sock /\ aps = <<>>

\* The parts, seen from the whole.
KeepsSettings == Conf!KeepsSettings
ChannelShown  == Conf!ChannelShown

(***************************************************************************)
(* When wapi_scan_init() began a scan and wapi_scan_coll() gave a list,    *)
(* the list is of that scan or a later one, however long the scan takes:   *)
(* the list of an earlier scan is never shown for it.                      *)
(* Behaviour: scan(), which gives up polling after sleeptries.             *)
(***************************************************************************)
FreshResult == (call = "coll" /\ scanRet = 0 /\ began # "no") => began = "over"

(***************************************************************************)
(* The program comes to its end, also when scans go on for ever.           *)
(* Behaviour: the loops over the files, and sleeptries.                    *)
(***************************************************************************)
Terminates == <>(pc = "end")
=============================================================================
