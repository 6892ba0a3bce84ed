-------------------------- MODULE InterfaceManager --------------------------
(***************************************************************************)
(* The start-up of the access point: main() calls Init() and then          *)
(* CreateInterfaces() of the InterfaceManagerNl80211 singleton, which      *)
(* turns the two interfaces the kernel gives the radios at boot into       *)
(* "sta0" and "ap0" on the built-in TI chip and "mon0" on the USB radio.   *)
(*                                                                         *)
(* The process is sequential.  What makes it hard is everything around it: *)
(* each netlink request and ioctl may fail, the process may die between    *)
(* two of them and be started again over whatever it left behind, and a    *)
(* radio may reset itself and come back under another wiphy index while    *)
(* the process works from the interface list it read before.               *)
(*                                                                         *)
(* One action is one call into the kernel (a netlink request, or a         *)
(* GetFlags/SetFlags pair), or the local computation between two of them.  *)
(***************************************************************************)
EXTENDS Integers, FiniteSets

CONSTANTS
  BaseNames,   \* the names the kernel gives a radio that appears: wlan0, wlan1
  Tails,       \* the values of the three bytes CreateInterfaces draws with rand()
  UniqueMac,   \* does the driver refuse two active interfaces with one address?
  FaultyRuns,  \* calls may fail and the process may die in this many first runs
  MaxRuns,     \* bound: how often main() is started
  MaxPhy,      \* bound: the largest wiphy index the kernel hands out
  MaxLost      \* bound: how many entries of a dump are lost at most

VARIABLES
  vif,      \* the kernel's table of virtual interfaces
  phy,      \* the wiphy index of each radio, NoPhy while it is gone
  nextPhy,  \* the wiphy index the kernel gives to the next radio that appears
  ouiRadios, \* the radios whose factory address begins with m_TiChipsetOui
  pc,       \* where in main() the process is, "off" when there is none
  list,     \* m_interfaces, as a set: gen tells which GetInterfaceList added it
  gen,      \* how many times GetInterfaceList has succeeded in this process
  tiPhy,    \* phyId (later: tiPhy), the wiphy index of the TI chip
  usbPhy,   \* phyId from line 292 on, the wiphy index of the USB radio
  tail,     \* the random bytes of mac[6]
  cur,      \* the interface being set up, or being deleted
  todo,     \* the list entries the current delete loop has still to visit
  runs      \* how many times main() has been started

kernelVars == <<vif, phy, nextPhy, ouiRadios>>
procVars   == <<pc, list, gen, tiPhy, usbPhy, tail, cur, todo>>
vars       == <<kernelVars, procVars, runs>>

Radios  == {"TI", "USB"}
Setup   == {"sta0", "ap0", "mon0"}
Names   == BaseNames \cup Setup
NoPhy   == -1
NoRadio == "none"
NoName  == "none"

ASSUME NamesAssumption   == BaseNames \cap (Setup \cup {NoName}) = {}
ASSUME BoundsAssumption  == FaultyRuns \in Nat /\ MaxRuns \in Nat /\ MaxPhy \in Nat
                            /\ MaxLost \in Nat
ASSUME UniqueAssumption  == UniqueMac \in BOOLEAN
ASSUME BaseAssumption    == \E b, c \in BaseNames : b # c
ASSUME TailsAssumption   == Tails # {} /\ "factory" \notin Tails

(***************************************************************************)
(* The kernel's side.  An address is what CreateInterfaces can tell of it: *)
(* does it begin with the TI chip's OUI, and how does it continue.         *)
(***************************************************************************)
Types  == {"station", "ap", "monitor"}
Absent == [radio |-> NoRadio, type |-> "none", up |-> FALSE,
           oui |-> FALSE, tail |-> "none"]
Vif    == [radio : Radios, type : Types, up : BOOLEAN,
           oui : BOOLEAN, tail : Tails \cup {"factory"}]

Exists(n) == vif[n].radio # NoRadio

NewVif(r, t, u) == [radio |-> r, type |-> t, up |-> u,
                    oui |-> r \in ouiRadios, tail |-> "factory"]

SetUp(n, b) == vif' = [vif EXCEPT ![n].up = b]

\* Another active interface of the same radio has n's address ("Name not
\* unique on network").  Monitor interfaces are exempt.
MacClash(n) ==
  /\ UniqueMac
  /\ vif[n].type # "monitor"
  /\ \E m \in Names \ {n} :
        /\ vif[m].radio = vif[n].radio /\ vif[m].up /\ vif[m].type # "monitor"
        /\ vif[m].oui = vif[n].oui /\ vif[m].tail = vif[n].tail

(***************************************************************************)
(* The process's side.                                                     *)
(***************************************************************************)
Entry == [gen : Nat, name : Names, phy : Nat, oui : BOOLEAN]

\* One GET_INTERFACE dump: an entry for every interface there is.
Dump(g) ==
  { [gen |-> g, name |-> n, phy |-> phy[vif[n].radio], oui |-> vif[n].oui] :
       n \in { m \in Names : Exists(m) } }

\* m_interfaces keeps the order of the dumps: a loop that takes the first
\* match takes an entry of the oldest dump that has one.
Oldest(S) == { e \in S : \A f \in S : e.gen <= f.gen }

MayFail == runs <= FaultyRuns

\* What a read with success brings: the dump, or the part of it that got through,
\* since GetInterfaceList() does not notice replies it lost (Nl80211Requests!Lose).
Reads(g) ==
  LET dump == Dump(g)
  IN  IF MayFail THEN { D \in SUBSET dump : Cardinality(dump \ D) <= MaxLost }
      ELSE {dump}

\* Mutant: ClearInterfaceList() is called before every read.
GotList_Cleared == list' \in Reads(gen + 1) /\ gen' = gen + 1

\* GetInterfaceList() appends to m_interfaces; it never empties it.
GotList ==
  /\ \E D \in Reads(gen + 1) : list' = list \cup D
  /\ gen' = gen + 1

PhysOf(entries) == { e.phy : e \in entries }

\* phys.size() == 2
TwoPhys(entries) ==
  \E p, q \in PhysOf(entries) : p # q /\ PhysOf(entries) = {p, q}

\* Mutant: the list is not searched, the interface is always created.
Known_Never(p, n) == FALSE

\* GetInterfaceByPhyAndName()
Known(p, n) == \E e \in list : e.phy = p /\ e.name = n

\* main() returns: the process and its list are gone.
Exit == /\ pc' = "off" /\ list' = {} /\ gen' = 0 /\ tiPhy' = NoPhy
        /\ usbPhy' = NoPhy /\ tail' = "none" /\ cur' = NoName /\ todo' = {}

Goto(l) == pc' = l

(***************************************************************************)
(* main() and Init()                                                       *)
(***************************************************************************)
Start ==
  /\ pc = "off" /\ runs < MaxRuns
  /\ runs' = runs + 1 /\ Goto("init")
  /\ UNCHANGED <<kernelVars, list, gen, tiPhy, usbPhy, tail, cur, todo>>

InitPasses ==
  /\ pc = "init"
  /\ GotList /\ TwoPhys(list')
  /\ Goto("select")
  /\ UNCHANGED <<kernelVars, tiPhy, usbPhy, tail, cur, todo, runs>>

InitFails ==
  /\ pc = "init"
  /\ MayFail \/ ~TwoPhys(list \cup Dump(gen + 1))
  /\ Exit /\ UNCHANGED <<kernelVars, runs>>

(***************************************************************************)
(* CreateInterfaces()                                                      *)
(***************************************************************************)
\* Mutant: with no TI address in the list, any interface will do.
TiEntries_Any == list

TiEntries == { e \in list : e.oui }

SelectTi ==
  /\ pc = "select"
  /\ \E e \in Oldest(TiEntries) : tiPhy' = e.phy
  /\ tail' \in Tails
  /\ cur' = "sta0" /\ Goto("create")
  /\ UNCHANGED <<kernelVars, list, gen, usbPhy, todo, runs>>

SelectFails ==
  /\ pc = "select" /\ TiEntries = {}
  /\ Exit /\ UNCHANGED <<kernelVars, runs>>

\* The phy and the type cur is created with, and what follows once it exists:
\* sta0 and ap0 are taken down and given the random address, mon0 is not.
TargetPhy == IF cur = "mon0" THEN usbPhy ELSE tiPhy
TypeOf    == [sta0 |-> "station", ap0 |-> "ap", mon0 |-> "monitor"]
Created   == Goto(IF cur = "mon0" THEN "up" ELSE "down")

\* Mutant: what exists is left alone, active or not.
AlreadyExists_LeftAlone ==
  /\ pc = "create" /\ Known(TargetPhy, cur)
  /\ \/ cur = "sta0" /\ cur' = "ap0"  /\ Goto("create")
     \/ cur = "ap0"  /\ cur' = NoName /\ Goto("reread")
     \/ cur = "mon0" /\ cur' = NoName /\ Goto("finalread")
  /\ UNCHANGED <<kernelVars, list, gen, tiPhy, usbPhy, tail, todo, runs>>

AlreadyExists ==
  /\ pc = "create" /\ Known(TargetPhy, cur)
  /\ Created
  /\ UNCHANGED <<kernelVars, list, gen, tiPhy, usbPhy, tail, cur, todo, runs>>

\* NL80211_CMD_NEW_INTERFACE as the kernel serves it.
KernelCreates ==
  \E r \in Radios : /\ phy[r] = TargetPhy /\ ~Exists(cur)
                    /\ vif' = [vif EXCEPT ![cur] = NewVif(r, TypeOf[cur], FALSE)]

CreateInterface ==
  /\ pc = "create" /\ ~Known(TargetPhy, cur)
  /\ KernelCreates /\ Created
  /\ UNCHANGED <<phy, nextPhy, ouiRadios, list, gen, tiPhy, usbPhy, tail, cur, todo, runs>>

\* The request is refused or never carried out; or it was carried out but
\* nl_wait_for_ack() reports an error all the same.
CreateFails ==
  /\ pc = "create" /\ ~Known(TargetPhy, cur)
  /\ \/ /\ MayFail \/ Exists(cur) \/ ~\E r \in Radios : phy[r] = TargetPhy
        /\ UNCHANGED vif
     \/ /\ MayFail
        /\ KernelCreates
  /\ Exit /\ UNCHANGED <<phy, nextPhy, ouiRadios, runs>>

BringDown ==
  /\ pc = "down" /\ Exists(cur)
  /\ SetUp(cur, FALSE) /\ Goto("setmac")
  /\ UNCHANGED <<phy, nextPhy, ouiRadios, list, gen, tiPhy, usbPhy, tail, cur, todo, runs>>

BringDownFails ==
  /\ pc = "down"
  /\ MayFail \/ ~Exists(cur)
  /\ Exit /\ UNCHANGED <<kernelVars, runs>>

\* Mutant: all six bytes are drawn at random, the OUI is not kept.
SetMacAddress_NoOui ==
  /\ pc = "setmac"
  /\ \/ /\ Exists(cur) /\ ~vif[cur].up
        /\ vif' = [vif EXCEPT ![cur].oui = FALSE, ![cur].tail = tail]
     \/ /\ MayFail \/ ~Exists(cur) \/ vif[cur].up
        /\ UNCHANGED vif
  /\ Goto("up")
  /\ UNCHANGED <<phy, nextPhy, ouiRadios, list, gen, tiPhy, usbPhy, tail, cur, todo, runs>>

\* A failure is logged and start-up goes on.
SetMacAddress ==
  /\ pc = "setmac"
  /\ \/ /\ Exists(cur) /\ ~vif[cur].up
        /\ vif' = [vif EXCEPT ![cur].oui = TRUE, ![cur].tail = tail]
     \/ /\ MayFail \/ ~Exists(cur) \/ vif[cur].up
        /\ UNCHANGED vif
  /\ Goto("up")
  /\ UNCHANGED <<phy, nextPhy, ouiRadios, list, gen, tiPhy, usbPhy, tail, cur, todo, runs>>

\* Mutants: mon0 is not spared; the loop looks at tiPhy instead of phyId.
UsbTodo_Mon0  == { e \in list : e.phy = usbPhy }
UsbTodo_TiPhy == { e \in list : e.phy = tiPhy /\ e.name \notin Setup }

\* The entries the second delete loop visits.
UsbTodo == { e \in list : e.phy = usbPhy /\ e.name # "mon0" }

BringUp ==
  /\ pc = "up" /\ Exists(cur) /\ ~MacClash(cur)
  /\ SetUp(cur, TRUE)
  /\ \/ cur = "sta0" /\ cur' = "ap0"  /\ Goto("create") /\ UNCHANGED todo
     \/ cur = "ap0"  /\ cur' = NoName /\ Goto("reread") /\ UNCHANGED todo
     \/ cur = "mon0" /\ cur' = NoName /\ Goto("delUsb") /\ todo' = UsbTodo
  /\ UNCHANGED <<phy, nextPhy, ouiRadios, list, gen, tiPhy, usbPhy, tail, runs>>

BringUpFails ==
  /\ pc = "up"
  /\ MayFail \/ ~Exists(cur) \/ MacClash(cur)
  /\ Exit /\ UNCHANGED <<kernelVars, runs>>

\* Mutant: the "original attempt", every interface of the TI chip is deleted.
TiTodo_All(entries) == { e \in entries : e.phy = tiPhy }

\* The entries the first delete loop visits.
TiTodo(entries) ==
  { e \in entries : e.phy = tiPhy /\ e.name \notin {"ap0", "sta0"} }

Reread ==
  /\ pc = "reread"
  /\ GotList
  /\ todo' = TiTodo(list')
  /\ Goto("delTi")
  /\ UNCHANGED <<kernelVars, tiPhy, usbPhy, tail, cur, runs>>

FinalRead ==
  /\ pc = "finalread"
  /\ GotList /\ Goto("ready")
  /\ UNCHANGED <<kernelVars, tiPhy, usbPhy, tail, cur, todo, runs>>

RereadFails ==
  /\ pc \in {"reread", "finalread"} /\ MayFail
  /\ Exit /\ UNCHANGED <<kernelVars, runs>>

\* The two delete loops.  Neither the result of BringInterfaceDown() nor that
\* of DeleteInterface() stops them.
Deleting == pc \in {"delTi", "delUsb"}

DownNext ==
  /\ Deleting /\ cur = NoName
  /\ \E e \in Oldest(todo) :
        /\ cur' = e.name /\ todo' = todo \ {e}
        /\ \/ Exists(e.name) /\ SetUp(e.name, FALSE)
           \/ (MayFail \/ ~Exists(e.name)) /\ UNCHANGED vif
  /\ UNCHANGED <<phy, nextPhy, ouiRadios, pc, list, gen, tiPhy, usbPhy, tail, runs>>

DeleteInterface ==
  /\ Deleting /\ cur # NoName
  /\ \/ Exists(cur) /\ vif' = [vif EXCEPT ![cur] = Absent]
     \/ (MayFail \/ ~Exists(cur)) /\ UNCHANGED vif
  /\ cur' = NoName
  /\ UNCHANGED <<phy, nextPhy, ouiRadios, pc, list, gen, tiPhy, usbPhy, tail, todo, runs>>

\* Mutant: without the break, the last entry on another phy gives phyId.
OtherPhy_Last ==
  LET others == { e \in list : e.phy # tiPhy }
      last   == { e \in others : \A f \in others : f.gen <= e.gen }
  IN  IF others = {} THEN {1} ELSE PhysOf(last)

\* The first entry on another phy gives phyId; with none it stays 1.
OtherPhy ==
  LET others == { e \in list : e.phy # tiPhy }
  IN  IF others = {} THEN {1} ELSE PhysOf(Oldest(others))

\* Mutant: the monitor interface is not named.
TiLoopEnds_NoName ==
  /\ pc = "delTi" /\ cur = NoName /\ todo = {}
  /\ usbPhy' \in OtherPhy /\ Goto("create")
  /\ UNCHANGED <<kernelVars, list, gen, tiPhy, tail, cur, todo, runs>>

TiLoopEnds ==
  /\ pc = "delTi" /\ cur = NoName /\ todo = {}
  /\ usbPhy' \in OtherPhy /\ cur' = "mon0" /\ Goto("create")
  /\ UNCHANGED <<kernelVars, list, gen, tiPhy, tail, todo, runs>>

UsbLoopEnds ==
  /\ pc = "delUsb" /\ cur = NoName /\ todo = {}
  /\ Goto("finalread")
  /\ UNCHANGED <<kernelVars, list, gen, tiPhy, usbPhy, tail, cur, todo, runs>>

(***************************************************************************)
(* The process's environment: it dies, and radios come and go.             *)
(***************************************************************************)
\* A successful start-up ends when the device is told to restart ShadowX; an
\* unfinished one may end anywhere.
Stop ==
  /\ \/ pc = "ready"
     \/ pc # "off" /\ MayFail
  /\ Exit /\ UNCHANGED <<kernelVars, runs>>

Unplug(r) ==
  /\ phy[r] # NoPhy
  /\ phy' = [phy EXCEPT ![r] = NoPhy]
  /\ vif' = [n \in Names |-> IF vif[n].radio = r THEN Absent ELSE vif[n]]
  /\ UNCHANGED <<nextPhy, ouiRadios, procVars, runs>>

Plug(r) ==
  /\ phy[r] = NoPhy /\ nextPhy <= MaxPhy
  /\ phy' = [phy EXCEPT ![r] = nextPhy] /\ nextPhy' = nextPhy + 1
  /\ \E b \in BaseNames : /\ ~Exists(b)
                          /\ vif' = [vif EXCEPT ![b] = NewVif(r, "station", FALSE)]
  /\ UNCHANGED <<ouiRadios, procVars, runs>>

(***************************************************************************)
(* Specifications                                                          *)
(***************************************************************************)
\* Power-on: each radio has one interface, active or not; the wiphy indexes
\* and the names come in either order.
Init ==
  /\ phy \in { p \in [Radios -> {0, 1}] : p["TI"] # p["USB"] }
  /\ nextPhy = 2
  /\ ouiRadios \in SUBSET {"TI"}
  /\ \E b, c \in BaseNames, u, v \in BOOLEAN :
        /\ b # c
        /\ vif = [n \in Names |->
                    IF n = b THEN NewVif("TI", "station", u)
                    ELSE IF n = c THEN NewVif("USB", "station", v)
                    ELSE Absent]
  /\ pc = "off" /\ list = {} /\ gen = 0 /\ tiPhy = NoPhy /\ usbPhy = NoPhy
  /\ tail = "none" /\ cur = NoName /\ todo = {} /\ runs = 0

Program ==
  \/ InitPasses \/ InitFails \/ SelectTi \/ SelectFails
  \/ AlreadyExists \/ CreateInterface \/ CreateFails
  \/ BringDown \/ BringDownFails \/ SetMacAddress \/ BringUp \/ BringUpFails
  \/ Reread \/ FinalRead \/ RereadFails
  \/ DownNext \/ DeleteInterface \/ TiLoopEnds \/ UsbLoopEnds

Hotplug == \E r \in Radios : Unplug(r) \/ Plug(r)

Next        == Program \/ Start \/ Stop
HotplugNext == Next \/ Hotplug

Spec        == Init /\ [][Next]_vars
HotplugSpec == Init /\ [][HotplugNext]_vars

\* The process is scheduled and the kernel answers its calls.
FairSpec    == Spec /\ WF_vars(Program)

(***************************************************************************)
(* Invariants                                                              *)
(***************************************************************************)
Phases == {"off", "init", "select", "create", "down", "setmac", "up", "reread",
           "delTi", "delUsb", "finalread", "ready"}

\* Every variable is of its type, and cur names what the phase works on.
TypeOK ==
  /\ vif \in [Names -> Vif \cup {Absent}]
  /\ phy \in [Radios -> Nat \cup {NoPhy}] /\ nextPhy \in Nat
  /\ ouiRadios \subseteq {"TI"}
  /\ pc \in Phases
  /\ list \in SUBSET Entry /\ todo \in SUBSET Entry /\ gen \in Nat
  /\ tiPhy \in Nat \cup {NoPhy} /\ usbPhy \in Nat \cup {NoPhy}
  /\ tail \in Tails \cup {"none"}
  /\ cur \in Names \cup {NoName}
  /\ pc \in {"create", "up"} => cur \in Setup
  /\ pc \in {"down", "setmac"} => cur \in {"sta0", "ap0"}
  /\ runs \in Nat

RadioOf(n) == IF n = "mon0" THEN "USB" ELSE "TI"

\* sta0 and ap0 are only ever on the TI chip, mon0 only on the USB radio
\* (CreateInterfaces' promise, lines 122-126), whatever fails, whenever the
\* process dies, and whichever radio comes back under another wiphy index
\* between two reads of the list.
SetupOnItsRadio == \A n \in Setup : Exists(n) => vif[n].radio = RadioOf(n)

\* When main() reports success all three interfaces are there, active, of the
\* right type and on the right radio: hostapd can be started on ap0.
ReadyForHostapd ==
  pc = "ready" => \A n \in Setup : /\ vif[n].radio = RadioOf(n)
                                  /\ vif[n].type = TypeOf[n] /\ vif[n].up

\* No step leaves a radio without an interface, so that GET_INTERFACE lists it
\* and the next Init() finds its two physical devices.
EveryRadioListed == \A r \in Radios : \E n \in Names : vif[n].radio = r

\* main.cpp:37, "del the 'base' interfaces (wlan0 and wlan1)": when a run in
\* which no call fails reports success, nothing but the three interfaces is
\* left, whatever the runs before it left undone.
OnlySetupRemains ==
  pc = "ready" /\ ~MayFail => \A n \in BaseNames : ~Exists(n)

\* InterfaceManagerNl80211.cpp:347, "Finally re-read the new interface list":
\* when main() reports success m_interfaces lists the interfaces there are.
ListCurrent == pc = "ready" => { e.name : e \in list } = { n \in Names : Exists(n) }

(***************************************************************************)
(* The inductive invariant behind SetupOnItsRadio and SetupNeverDeleted.   *)
(* The OUI stands for the radio: whatever is listed under a wiphy index    *)
(* has one OUI, indexes are never used twice, and the first read, which    *)
(* found exactly two of them, stays in front of the list.                  *)
(***************************************************************************)
Selected == pc \notin {"off", "init", "select"}
UsbKnown == pc \in {"delUsb", "finalread", "ready"} \/ cur = "mon0"

\* Wiphy indexes in use differ, and the next one is new.
WiphysDiffer ==
  /\ \A r \in Radios : phy[r] < nextPhy
  /\ phy["TI"] = phy["USB"] => phy["TI"] = NoPhy

\* An interface is on a radio that is there, and its address tells which.
VifsConsistent ==
  \A n \in Names : Exists(n) =>
     /\ vif[n].radio \in Radios /\ phy[vif[n].radio] # NoPhy
     /\ vif[n].oui <=> vif[n].radio \in ouiRadios

\* So does an entry, even when its wiphy index or its interface is no more.
EntriesConsistent ==
  \A e \in list :
     /\ e.phy < nextPhy
     /\ e.gen \in 1..gen
     /\ \A r \in Radios : e.phy = phy[r] => (e.oui <=> r \in ouiRadios)
     /\ \A f \in list : e.phy = f.phy => e.oui = f.oui
     /\ e.oui => "TI" \in ouiRadios
     /\ e.name \in {"sta0", "ap0"} => (e.oui <=> "TI" \in ouiRadios)
     /\ e.name = "mon0" => ~e.oui

\* The first read found two physical devices, one of them the TI chip.
FirstRead ==
  /\ pc \in {"off", "init"} => gen = 0 /\ list = {}
  /\ pc \notin {"off", "init"} =>
       /\ gen >= 1 /\ (pc = "select" => gen = 1)
       /\ \E e, f \in list : e.gen = 1 /\ f.gen = 1 /\ e.phy # f.phy
       /\ \A e, f \in list :
             e.gen = 1 /\ f.gen = 1 /\ e.phy # f.phy /\ "TI" \in ouiRadios
                => e.oui # f.oui

\* The phys the program works on are those of entries with the right address.
PhysSelected ==
  /\ Selected => /\ "TI" \in ouiRadios /\ tail \in Tails
                 /\ \E e \in list : e.phy = tiPhy /\ e.oui /\ e.gen = 1
  /\ UsbKnown => \E e \in list : e.phy = usbPhy /\ ~e.oui

\* The delete loops work on base interfaces only.
LoopsSpareSetup ==
  /\ \A e \in todo : e.name \in BaseNames
  /\ Deleting \/ pc = "reread" => cur \in BaseNames \cup {NoName}
  /\ cur \in Setup => Selected

IndInv ==
  /\ TypeOK /\ SetupOnItsRadio /\ WiphysDiffer /\ VifsConsistent
  /\ EntriesConsistent /\ FirstRead /\ PhysSelected /\ LoopsSpareSetup

(***************************************************************************)
(* What holds besides while no radio comes or goes (Spec): the inductive   *)
(* invariant behind EveryRadioListed, ReadyForHostapd, OnlySetupRemains    *)
(* and the action properties that run im_recovery checks.                  *)
(***************************************************************************)
Up(n) == Exists(n) /\ vif[n].up

TiSetUp  == pc \in {"reread", "delTi", "delUsb", "finalread", "ready"} \/ cur = "mon0"
UsbSetUp == pc \in {"delUsb", "finalread", "ready"}

\* The wiphy indexes are those of the power-on.
Attached == /\ phy["TI"] \in {0, 1} /\ phy["USB"] \in {0, 1} /\ phy["TI"] # phy["USB"]
            /\ nextPhy = 2

\* The list can be old, but is not wrong: what it lists is where it says, if it
\* is still there; and when no call fails nothing but what the program creates is
\* missing in it.
ListTrue ==
  /\ \A e \in list : Exists(e.name) => e.phy = phy[vif[e.name].radio]
  /\ \A e \in list : e.name \in Setup => Exists(e.name)
  /\ ~MayFail /\ pc \notin {"off", "init"} =>
       \A n \in BaseNames : Exists(n) => \E e \in list : e.name = n

\* What the run has set up stays that way.
Progress ==
  /\ \A n \in Setup : Exists(n) => vif[n].type = TypeOf[n]
  /\ pc \in {"down", "setmac", "up"} => Exists(cur)
  /\ cur = "ap0" \/ TiSetUp => Up("sta0")
  /\ TiSetUp => Up("ap0")
  /\ UsbSetUp => Up("mon0")

\* When no call fails what exists of the three is in the list, or the run itself
\* created it.
Finished(n) ==
  \/ n = "sta0" /\ (cur = "ap0" \/ TiSetUp)
  \/ n = "ap0" /\ TiSetUp
  \/ n = "mon0" /\ UsbSetUp
ListKnowsSetup ==
  ~MayFail /\ pc \notin {"off", "init"} =>
    \A n \in Setup :
      Exists(n) => \/ \E e \in list : e.name = n
                   \/ cur = n /\ pc # "create"
                   \/ Finished(n)

\* The delete loops work on one phy.
LoopPhy == IF pc = "delTi" THEN tiPhy ELSE usbPhy
LoopsOnPhy ==
  /\ pc = "reread" => cur = NoName
  /\ Deleting => /\ \A e \in todo : e \in list /\ e.phy = LoopPhy
                 /\ cur # NoName /\ Exists(cur) => phy[vif[cur].radio] = LoopPhy

\* In a run in which no call fails they leave out nothing on it.
Covered(r) == \A n \in BaseNames :
                 vif[n].radio = r => n = cur \/ \E e \in todo : e.name = n
Cleared(r) == \A n \in BaseNames : vif[n].radio # r
LoopsComplete ==
  ~MayFail => /\ pc = "delTi" => Covered("TI")
              /\ cur = "mon0" \/ UsbSetUp => Cleared("TI")
              /\ pc = "delUsb" => Covered("USB")
              /\ pc \in {"finalread", "ready"} => Cleared("USB")

\* The first run after the power-on finds no sta0, and creates it inactive.
FirstRun ==
  /\ runs = 0 => pc = "off" /\ ~Exists("sta0")
  /\ runs = 1 /\ (pc \in {"init", "select"} \/ (pc = "create" /\ cur = "sta0"))
       => ~Exists("sta0")
  /\ runs = 1 /\ pc = "down" /\ cur = "sta0" => ~vif["sta0"].up

SteadyInv ==
  /\ IndInv /\ Attached /\ ListTrue /\ ListKnowsSetup /\ Progress /\ EveryRadioListed
  /\ LoopsOnPhy /\ LoopsComplete /\ FirstRun

(***************************************************************************)
(* Action properties                                                       *)
(***************************************************************************)
TiActive == \E n \in Names : vif[n].radio = "TI" /\ vif[n].up

\* "Do *NOT* bring down all interfaces on the TI phy, it will never come back
\* to life!" (lines 162-163): the last active interface of the TI chip is
\* never taken down or deleted; it can only go with the chip itself.
NoTiBlackout == [][TiActive /\ ~TiActive' => phy' # phy]_vars

\* There is one step that breaks this rule: a restarted run takes sta0 down
\* when what the run before it left is inactive otherwise.  The run after the
\* power-on never does, nor does any delete loop.
BlackoutOnlyAtRestart ==
  [][TiActive /\ ~TiActive' => runs > 1 /\ pc = "down" /\ cur = "sta0"]_vars

\* The interfaces the program sets up are never deleted by it: they go only
\* with their radio.
SetupNeverDeleted ==
  [][\A n \in Setup : Exists(n) /\ phy' = phy => Exists(n)']_vars

\* "Delete all interfaces associated with this phy Id" (line 268): a delete
\* loop deletes interfaces of the radio it is cleaning only, as long as no
\* radio appears under a name the loop has read earlier (Spec, not
\* HotplugSpec): the loop tests the phy of an entry but deletes by name.
DeletesOnlyItsPhy ==
  [][\A n \in Names : Deleting /\ Exists(n) /\ ~Exists(n)' /\ phy' = phy =>
        phy[vif[n].radio] = IF pc = "delTi" THEN tiPhy ELSE usbPhy]_vars

\* On a board where no address begins with the TI OUI the program changes
\* nothing, however often it is started.
TouchesNothing == [][ouiRadios = {} => vif' = vif]_vars

\* Whatever the runs before it left behind, and wherever they failed or were
\* killed, a run goes on to the end of CreateInterfaces() unless one of its own
\* calls fails, no address begins with the TI OUI, or the driver refuses a
\* second active interface with the same address.
GivesUpForCause ==
  [][pc \notin {"off", "ready"} /\ pc' = "off" =>
       MayFail \/ ouiRadios = {} \/ (pc = "up" /\ MacClash(cur))]_vars

(***************************************************************************)
(* Liveness                                                                *)
(***************************************************************************)
\* Whatever interfaces the runs before it left behind when they failed or were
\* killed, a run in which no call fails sets everything up.
Recovers == (runs = MaxRuns /\ pc = "init" /\ ouiRadios # {}) ~> (pc = "ready")

\* main.cpp:34-36: the first run after a power-on, in which no call fails but
\* for what the driver does not allow, sets everything up.
FirstRunSucceeds == (runs = 1 /\ pc = "init" /\ ouiRadios # {}) ~> (pc = "ready")
=============================================================================
