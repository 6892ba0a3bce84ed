----------------------- MODULE InterfaceManagerProofs -----------------------
(***************************************************************************)
(* Proofs, for every set of base names and addresses and every number of   *)
(* runs, faults and reconnections, that the program's three interfaces are *)
(* only ever on their own radio and that the program never deletes them.   *)
(***************************************************************************)
EXTENDS InterfaceManager, TLAPS

USE DEF Radios, Setup, Names, NoPhy, NoRadio, NoName

\* A new interface is of its type.
LEMMA NewVifType ==
  ASSUME NEW r \in Radios, NEW t \in Types, NEW u \in BOOLEAN
  PROVE  NewVif(r, t, u) \in Vif
<1> DEFINE o == r \in ouiRadios
<1>1. o \in BOOLEAN
  OBVIOUS
<1>2. NewVif(r, t, u) = [radio |-> r, type |-> t, up |-> u, oui |-> o, tail |-> "factory"]
  BY DEF NewVif
<1> HIDE DEF o
<1> QED
  BY <1>1, <1>2 DEF Vif

LEMMA NewVifFields ==
  ASSUME NEW r \in Radios, NEW t, NEW u
  PROVE  NewVif(r, t, u).radio = r /\ (NewVif(r, t, u).oui <=> r \in ouiRadios)
  BY DEF NewVif

\* Power-on: no run yet, one interface on each radio.
LEMMA InitEstablishes == Init => IndInv
<1> SUFFICES ASSUME Init PROVE IndInv
  OBVIOUS
<1> USE NamesAssumption DEF Init
<1>1. PICK b \in BaseNames, c \in BaseNames, u \in BOOLEAN, v \in BOOLEAN :
         /\ b # c
         /\ vif = [n \in Names |-> IF n = b THEN NewVif("TI", "station", u)
                                   ELSE IF n = c THEN NewVif("USB", "station", v)
                                   ELSE Absent]
  OBVIOUS
<1>2. \A n \in Names :
         vif[n] = IF n = b THEN [radio |-> "TI", type |-> "station", up |-> u,
                                 oui |-> "TI" \in ouiRadios, tail |-> "factory"]
                  ELSE IF n = c THEN [radio |-> "USB", type |-> "station", up |-> v,
                                      oui |-> "USB" \in ouiRadios, tail |-> "factory"]
                  ELSE Absent
  BY <1>1 DEF NewVif
<1>a. \A n \in Setup : vif[n] = Absent
  <2> HIDE DEF Init
  <2> QED BY <1>2
<1>3. vif \in [Names -> Vif \cup {Absent}]
  BY <1>1, NewVifType DEF Types
<1>4. TypeOK
  BY <1>3 DEF TypeOK, Phases
<1>5. WiphysDiffer
  BY DEF WiphysDiffer
<1>6. SetupOnItsRadio
  <2> HIDE DEF Init
  <2> QED BY <1>a DEF SetupOnItsRadio, Exists, Absent
<1>7. VifsConsistent
  <2>1. phy["TI"] \in {0, 1} /\ phy["USB"] \in {0, 1}
    OBVIOUS
  <2> HIDE DEF Init
  <2>2. vif[b].radio = "TI" /\ (vif[b].oui <=> "TI" \in ouiRadios)
    <3>1. vif[b] = NewVif("TI", "station", u)
      BY <1>1
    <3> QED BY <3>1, NewVifFields
  <2>3. vif[c].radio = "USB" /\ (vif[c].oui <=> "USB" \in ouiRadios)
    <3>1. vif[c] = NewVif("USB", "station", v)
      BY <1>1
    <3> QED BY <3>1, NewVifFields
  <2>4. \A n \in Names : Exists(n) => n \in {b, c}
    BY <1>2 DEF Exists, Absent
  <2> QED BY <2>1, <2>2, <2>3, <2>4 DEF VifsConsistent
<1>8. EntriesConsistent /\ FirstRead /\ PhysSelected /\ LoopsSpareSetup
  BY DEF EntriesConsistent, FirstRead, PhysSelected, LoopsSpareSetup, Selected,
         UsbKnown, Deleting
<1> QED
  BY <1>4, <1>5, <1>6, <1>7, <1>8 DEF IndInv

(***************************************************************************)
(* What the steps have in common.                                          *)
(***************************************************************************)
KernelInv == SetupOnItsRadio /\ WiphysDiffer /\ VifsConsistent
ListInv   == EntriesConsistent /\ FirstRead
ProcInv   == PhysSelected /\ LoopsSpareSetup

LEMMA Parts ==
  /\ IndInv <=> TypeOK /\ KernelInv /\ ListInv /\ ProcInv
  /\ IndInv' <=> TypeOK' /\ KernelInv' /\ ListInv' /\ ProcInv'
  BY DEF IndInv, KernelInv, ListInv, ProcInv

\* A step that leaves the kernel's state alone keeps what is said of it.
LEMMA KernelIdle ==
  ASSUME KernelInv, UNCHANGED kernelVars
  PROVE  KernelInv'
  BY DEF KernelInv, kernelVars, SetupOnItsRadio, WiphysDiffer, VifsConsistent, Exists

\* main() returning leaves nothing in the process to go wrong.
LEMMA ExitResets ==
  ASSUME TypeOK, Exit, vif' \in [Names -> Vif \cup {Absent}],
         UNCHANGED <<phy, nextPhy, ouiRadios, runs>>
  PROVE  TypeOK' /\ ListInv' /\ ProcInv'
<1> USE NamesAssumption DEF Exit
<1>1. TypeOK'
  BY DEF TypeOK, Phases
<1>2. ListInv'
  BY DEF ListInv, EntriesConsistent, FirstRead
<1>3. ProcInv'
  BY DEF ProcInv, PhysSelected, LoopsSpareSetup, Selected, UsbKnown, Deleting
<1> QED
  BY <1>1, <1>2, <1>3

\* The wiphy indexes the program works on are those of their radios, or of
\* none: only the TI chip ever had the one, only the USB radio the other.
LEMMA PhyTellsRadio ==
  ASSUME IndInv, NEW r \in Radios
  PROVE  /\ Selected /\ phy[r] = tiPhy => r = "TI"
         /\ Selected /\ UsbKnown /\ phy[r] = usbPhy => r = "USB"
<1> USE DEF IndInv
<1>1. ASSUME Selected, phy[r] = tiPhy PROVE r = "TI"
  <2>1. PICK e \in list : e.phy = tiPhy /\ e.oui
    BY <1>1 DEF PhysSelected
  <2>2. r \in ouiRadios
    BY <1>1, <2>1 DEF EntriesConsistent
  <2> QED
    BY <2>2 DEF TypeOK
<1>2. ASSUME Selected, UsbKnown, phy[r] = usbPhy PROVE r = "USB"
  <2>1. PICK e \in list : e.phy = usbPhy /\ ~e.oui
    BY <1>2 DEF PhysSelected
  <2>2. r \notin ouiRadios
    BY <1>2, <2>1 DEF EntriesConsistent
  <2>3. "TI" \in ouiRadios
    BY <1>2 DEF PhysSelected
  <2> QED
    BY <2>2, <2>3
<1> QED
  BY <1>1, <1>2

\* The kernel's table after NEW_INTERFACE: the new interface is on its radio.
LEMMA CreateKeeps ==
  ASSUME IndInv, pc = "create", KernelCreates, UNCHANGED <<phy, nextPhy, ouiRadios>>
  PROVE  vif' \in [Names -> Vif \cup {Absent}] /\ KernelInv'
<1>1. PICK r \in Radios : /\ phy[r] = TargetPhy /\ ~Exists(cur)
                          /\ vif' = [vif EXCEPT ![cur] = NewVif(r, TypeOf[cur], FALSE)]
  BY DEF KernelCreates
<1>2. cur \in Setup /\ Selected
  BY DEF IndInv, TypeOK, LoopsSpareSetup
<1>3. r = RadioOf(cur)
  BY <1>1, <1>2, PhyTellsRadio DEF TargetPhy, UsbKnown, RadioOf
<1>4. TargetPhy # NoPhy
  <2>1. \A e \in list : e.phy \in Nat
    BY DEF IndInv, TypeOK, Entry
  <2> QED
    BY <1>2, <2>1 DEF IndInv, TargetPhy, PhysSelected, UsbKnown
<1>5. NewVif(r, TypeOf[cur], FALSE) \in Vif
  <2>1. TypeOf[cur] \in Types
    BY <1>2 DEF TypeOf, Types
  <2> QED
    BY <2>1, NewVifType
<1>6. vif' \in [Names -> Vif \cup {Absent}]
  BY <1>1, <1>2, <1>5 DEF IndInv, TypeOK
<1>7. \A n \in Names : n # cur => vif'[n] = vif[n]
  BY <1>1 DEF IndInv, TypeOK
<1>8. vif'[cur].radio = r /\ (vif'[cur].oui <=> r \in ouiRadios)
  BY <1>1, <1>2 DEF IndInv, TypeOK, NewVif
<1>9. SetupOnItsRadio'
  BY <1>2, <1>3, <1>7, <1>8 DEF IndInv, SetupOnItsRadio, Exists
<1>10. VifsConsistent'
  <2>1. ASSUME NEW n \in Names, Exists(n)'
        PROVE  /\ vif'[n].radio \in Radios /\ phy[vif'[n].radio] # NoPhy
               /\ vif'[n].oui <=> vif'[n].radio \in ouiRadios
    BY <1>1, <1>4, <1>7, <1>8, <2>1 DEF IndInv, VifsConsistent, Exists
  <2> QED
    BY <2>1 DEF VifsConsistent
<1>11. WiphysDiffer'
  BY DEF IndInv, WiphysDiffer
<1> QED
  BY <1>6, <1>9, <1>10, <1>11 DEF KernelInv

\* An entry of a dump describes an interface there is.
LEMMA DumpFacts ==
  ASSUME IndInv, NEW e \in Dump(gen + 1)
  PROVE  /\ e \in Entry /\ e.gen = gen + 1
         /\ \E r \in Radios : e.phy = phy[r] /\ (e.oui <=> r \in ouiRadios)
         /\ e.phy < nextPhy
         /\ e.name \in Setup => e.phy = phy[RadioOf(e.name)]
                                /\ (e.oui <=> RadioOf(e.name) \in ouiRadios)
<1>1. PICK n \in Names : /\ Exists(n)
                         /\ e = [gen |-> gen + 1, name |-> n,
                                 phy |-> phy[vif[n].radio], oui |-> vif[n].oui]
  BY DEF Dump
<1>2. /\ vif[n].radio \in Radios /\ phy[vif[n].radio] # NoPhy
      /\ vif[n].oui <=> vif[n].radio \in ouiRadios
  BY <1>1 DEF IndInv, VifsConsistent
<1>3. phy[vif[n].radio] \in Nat /\ phy[vif[n].radio] < nextPhy
  BY <1>2 DEF IndInv, TypeOK, WiphysDiffer
<1>4. vif[n].oui \in BOOLEAN
  BY <1>1, <1>2 DEF IndInv, TypeOK, Vif, Absent
<1>5. gen + 1 \in Nat
  BY DEF IndInv, TypeOK
<1>6. e \in Entry
  BY <1>1, <1>3, <1>4, <1>5 DEF Entry
<1>7. n \in Setup => vif[n].radio = RadioOf(n)
  BY <1>1 DEF IndInv, SetupOnItsRadio
<1>8. e.gen = gen + 1 /\ e.name = n /\ e.phy = phy[vif[n].radio] /\ e.oui = vif[n].oui
  BY <1>1
<1> QED
  BY <1>2, <1>3, <1>6, <1>7, <1>8

\* GetInterfaceList() adds a part of the dump; all of it when no call fails.
LEMMA GotListAdds ==
  ASSUME GotList
  PROVE  /\ gen' = gen + 1
         /\ \E D \in SUBSET Dump(gen + 1) :
               list' = list \cup D /\ (~MayFail => D = Dump(gen + 1))
BY DEF GotList, Reads

\* GetInterfaceList() keeps what is said of the list, and never loses the
\* entries of the first read.
LEMMA GotListKeeps ==
  ASSUME IndInv, GotList, UNCHANGED kernelVars
  PROVE  /\ list' \in SUBSET Entry /\ gen' \in Nat /\ list \subseteq list'
         /\ EntriesConsistent'
         /\ gen >= 1 => \A e \in list' : e.gen = 1 => e \in list
<1>1. /\ gen' = gen + 1 /\ gen \in Nat /\ list \subseteq list'
      /\ \A e \in list' : e \in list \/ e \in Dump(gen + 1)
  BY GotListAdds DEF IndInv, TypeOK
<1>2. \A e \in list : e \in Entry
  BY DEF IndInv, TypeOK
<1>3. list' \in SUBSET Entry
  BY <1>1, <1>2, DumpFacts
<1>4. UNCHANGED <<phy, nextPhy, ouiRadios>>
  BY DEF kernelVars
<1>5. ASSUME NEW e \in list'
      PROVE  /\ e.phy < nextPhy /\ e.gen \in 1..gen'
             /\ \A r \in Radios : e.phy = phy[r] => (e.oui <=> r \in ouiRadios)
             /\ e.oui => "TI" \in ouiRadios
             /\ e.name \in {"sta0", "ap0"} => (e.oui <=> "TI" \in ouiRadios)
             /\ e.name = "mon0" => ~e.oui
  <2>1. CASE e \in list
    BY <1>1, <2>1 DEF IndInv, EntriesConsistent
  <2>2. CASE e \in Dump(gen + 1)
    <3>1. PICK r \in Radios : e.phy = phy[r] /\ (e.oui <=> r \in ouiRadios)
      BY <2>2, DumpFacts
    <3>2. e \in Entry /\ e.gen = gen + 1 /\ e.phy < nextPhy
      BY <2>2, DumpFacts
    <3>3. phy["TI"] # phy["USB"] \/ e.phy # phy["TI"]
      BY <3>2 DEF IndInv, WiphysDiffer, Entry
    <3>4. \A q \in Radios : e.phy = phy[q] => (e.oui <=> q \in ouiRadios)
      BY <3>1, <3>3
    <3>5. e.name \in Setup => (e.oui <=> RadioOf(e.name) \in ouiRadios)
      BY <2>2, DumpFacts
    <3> QED
      BY <1>1, <3>1, <3>2, <3>4, <3>5 DEF IndInv, TypeOK, RadioOf
  <2> QED
    BY <1>1, <2>1, <2>2
<1>6. ASSUME NEW e \in list', NEW f \in list', e.phy = f.phy
      PROVE  e.oui = f.oui
  <2>0. e.oui \in BOOLEAN /\ f.oui \in BOOLEAN
    BY <1>3 DEF Entry
  <2>1. CASE e \in list /\ f \in list
    BY <1>6, <2>1 DEF IndInv, EntriesConsistent
  <2>2. ASSUME NEW g \in Dump(gen + 1), NEW h \in list', g.phy = h.phy, g \in list'
        PROVE  g.oui <=> h.oui
    <3>1. PICK r \in Radios : g.phy = phy[r] /\ (g.oui <=> r \in ouiRadios)
      BY DumpFacts
    <3> QED
      BY <1>5, <2>2, <3>1
  <2> QED
    BY <1>1, <1>6, <2>0, <2>1, <2>2
<1>7. EntriesConsistent'
  BY <1>4, <1>5, <1>6 DEF EntriesConsistent
<1>8. ASSUME gen >= 1, NEW e \in list', e.gen = 1 PROVE e \in list
  BY <1>1, <1>8, DumpFacts
<1> QED
  BY <1>1, <1>3, <1>7, <1>8

LEMMA InitPassesKeeps == IndInv /\ InitPasses => IndInv'
<1> SUFFICES ASSUME IndInv, InitPasses PROVE IndInv'
  OBVIOUS
<1> USE NamesAssumption
<1>0. /\ pc = "init" /\ pc' = "select" /\ GotList /\ TwoPhys(list')
      /\ UNCHANGED <<kernelVars, tiPhy, usbPhy, tail, cur, todo, runs>>
  BY DEF InitPasses, Goto
<1>1. /\ list' \in SUBSET Entry /\ gen' \in Nat /\ EntriesConsistent'
      /\ list = {} /\ gen = 0 /\ list' \subseteq Dump(gen + 1) /\ gen' = 1
  BY <1>0, GotListKeeps, GotListAdds DEF IndInv, FirstRead
<1>2. TypeOK'
  BY <1>0, <1>1 DEF IndInv, TypeOK, Phases, kernelVars
<1>3. KernelInv'
  BY <1>0, KernelIdle, Parts
<1>4. \A e \in list' : e.gen = 1
  BY <1>1, DumpFacts
<1>5. \E e, f \in list' : e.phy # f.phy
  BY <1>0 DEF TwoPhys, PhysOf
<1>6. ASSUME NEW e \in list', NEW f \in list', e.phy # f.phy, "TI" \in ouiRadios
      PROVE  e.oui # f.oui
  <2>1. PICK r \in Radios : e.phy = phy[r] /\ (e.oui <=> r \in ouiRadios)
    BY <1>1, DumpFacts
  <2>2. PICK q \in Radios : f.phy = phy[q] /\ (f.oui <=> q \in ouiRadios)
    BY <1>1, DumpFacts
  <2> QED
    BY <1>6, <2>1, <2>2 DEF IndInv, TypeOK
<1>7. FirstRead'
  BY <1>0, <1>1, <1>4, <1>5, <1>6 DEF FirstRead, kernelVars
<1>8. ProcInv'
  BY <1>0 DEF IndInv, ProcInv, PhysSelected, LoopsSpareSetup, Selected, UsbKnown, Deleting
<1> QED
  BY <1>1, <1>2, <1>3, <1>7, <1>8, Parts DEF IndInv, KernelInv, ProcInv, ListInv

(***************************************************************************)
(* One lemma per action.                                                   *)
(***************************************************************************)
LEMMA GivingUpKeeps ==
  IndInv /\ (InitFails \/ SelectFails \/ BringDownFails \/ BringUpFails
              \/ RereadFails \/ Stop) => IndInv'
<1> SUFFICES ASSUME IndInv, Exit, UNCHANGED <<kernelVars, runs>> PROVE IndInv'
  BY DEF InitFails, SelectFails, BringDownFails, BringUpFails, RereadFails, Stop
<1>1. KernelInv'
  BY KernelIdle, Parts
<1>2. TypeOK' /\ ListInv' /\ ProcInv'
  <2>1. TypeOK
    BY DEF IndInv
  <2>2. vif' \in [Names -> Vif \cup {Absent}]
    BY <2>1 DEF TypeOK, kernelVars
  <2> QED
    BY <2>1, <2>2, ExitResets DEF kernelVars
<1> QED
  BY <1>1, <1>2, Parts

LEMMA CreateFailsKeeps == IndInv /\ CreateFails => IndInv'
<1> SUFFICES ASSUME IndInv, CreateFails PROVE IndInv'
  OBVIOUS
<1>0. pc = "create" /\ Exit /\ UNCHANGED <<phy, nextPhy, ouiRadios, runs>>
      /\ (UNCHANGED vif \/ KernelCreates)
  BY DEF CreateFails
<1>1. vif' \in [Names -> Vif \cup {Absent}] /\ KernelInv'
  <2>1. CASE UNCHANGED vif
    BY <1>0, <2>1, KernelIdle, Parts DEF kernelVars, TypeOK
  <2>2. CASE KernelCreates
    BY <1>0, <2>2, CreateKeeps
  <2> QED
    BY <1>0, <2>1, <2>2
<1>2. TypeOK
  BY DEF IndInv
<1> QED
  BY <1>0, <1>1, <1>2, ExitResets, Parts

LEMMA StartKeeps == IndInv /\ Start => IndInv'
<1> SUFFICES ASSUME IndInv, Start PROVE IndInv'
  OBVIOUS
<1>0. /\ pc = "off" /\ pc' = "init" /\ runs' = runs + 1
      /\ UNCHANGED <<kernelVars, list, gen, tiPhy, usbPhy, tail, cur, todo>>
  BY DEF Start, Goto
<1>1. KernelInv'
  BY <1>0, KernelIdle, Parts
<1>2. TypeOK'
  BY <1>0 DEF IndInv, TypeOK, Phases, kernelVars
<1>3. ListInv'
  BY <1>0 DEF IndInv, ListInv, EntriesConsistent, FirstRead, kernelVars
<1>4. ProcInv'
  BY <1>0, NamesAssumption
     DEF IndInv, ProcInv, PhysSelected, LoopsSpareSetup, Selected, UsbKnown, Deleting
<1> QED
  BY <1>1, <1>2, <1>3, <1>4, Parts

\* Once the list has been read, a step that leaves it alone keeps its part.
LEMMA ListIdle ==
  ASSUME IndInv, UNCHANGED <<phy, nextPhy, ouiRadios, list, gen>>,
         pc \notin {"off", "init"}, pc' \notin {"off", "init", "select"}
  PROVE  ListInv'
  BY DEF IndInv, ListInv, EntriesConsistent, FirstRead

LEMMA SelectTiKeeps == IndInv /\ SelectTi => IndInv'
<1> SUFFICES ASSUME IndInv, SelectTi PROVE IndInv'
  OBVIOUS
<1>0. /\ pc = "select" /\ pc' = "create" /\ cur' = "sta0" /\ tail' \in Tails
      /\ \E e \in Oldest(TiEntries) : tiPhy' = e.phy
      /\ UNCHANGED <<kernelVars, list, gen, usbPhy, todo, runs>>
  BY DEF SelectTi, Goto
<1>1. PICK e \in list : e.oui /\ tiPhy' = e.phy /\ e.gen = 1
  <2>1. PICK e \in list : e.oui /\ tiPhy' = e.phy
    BY <1>0 DEF Oldest, TiEntries
  <2>2. gen = 1 /\ e.gen \in 1..gen
    BY <1>0 DEF IndInv, FirstRead, EntriesConsistent
  <2> QED
    BY <2>1, <2>2
<1>2. KernelInv' /\ ListInv'
  BY <1>0, KernelIdle, ListIdle, Parts DEF kernelVars
<1>3. TypeOK'
  BY <1>0, <1>1 DEF IndInv, TypeOK, Phases, kernelVars, Entry
<1>4. "TI" \in ouiRadios
  BY <1>1 DEF IndInv, EntriesConsistent
<1>5. ProcInv'
  BY <1>0, <1>1, <1>4, NamesAssumption
     DEF IndInv, ProcInv, PhysSelected, LoopsSpareSetup, Selected, UsbKnown, Deleting,
         kernelVars
<1> QED
  BY <1>2, <1>3, <1>5, Parts

LEMMA AlreadyExistsKeeps == IndInv /\ AlreadyExists => IndInv'
<1> SUFFICES ASSUME IndInv, AlreadyExists PROVE IndInv'
  OBVIOUS
<1>0. /\ pc = "create" /\ pc' = (IF cur = "mon0" THEN "up" ELSE "down")
      /\ UNCHANGED <<kernelVars, list, gen, tiPhy, usbPhy, tail, cur, todo, runs>>
  BY DEF AlreadyExists, Created, Goto
<1>1. cur \in Setup
  BY <1>0 DEF IndInv, TypeOK
<1>2. KernelInv' /\ ListInv'
  BY <1>0, KernelIdle, ListIdle, Parts DEF kernelVars
<1>3. TypeOK'
  BY <1>0, <1>1 DEF IndInv, TypeOK, Phases, kernelVars
<1>4. ProcInv'
  BY <1>0, <1>1
     DEF IndInv, ProcInv, PhysSelected, LoopsSpareSetup, Selected, UsbKnown, Deleting,
         kernelVars
<1> QED
  BY <1>2, <1>3, <1>4, Parts

LEMMA CreateInterfaceKeeps == IndInv /\ CreateInterface => IndInv'
<1> SUFFICES ASSUME IndInv, CreateInterface PROVE IndInv'
  OBVIOUS
<1>0. /\ pc = "create" /\ pc' = (IF cur = "mon0" THEN "up" ELSE "down")
      /\ KernelCreates
      /\ UNCHANGED <<phy, nextPhy, ouiRadios, list, gen, tiPhy, usbPhy, tail, cur,
                     todo, runs>>
  BY DEF CreateInterface, Created, Goto
<1>1. cur \in Setup
  BY <1>0 DEF IndInv, TypeOK
<1>2. vif' \in [Names -> Vif \cup {Absent}] /\ KernelInv'
  BY <1>0, CreateKeeps
<1>3. ListInv'
  BY <1>0, ListIdle
<1>4. TypeOK'
  BY <1>0, <1>1, <1>2 DEF IndInv, TypeOK, Phases
<1>5. ProcInv'
  BY <1>0, <1>1
     DEF IndInv, ProcInv, PhysSelected, LoopsSpareSetup, Selected, UsbKnown, Deleting
<1> QED
  BY <1>2, <1>3, <1>4, <1>5, Parts

\* Changing anything but the radio and the OUI of an interface keeps what is
\* said of the kernel; so does giving an interface of the TI chip its OUI.
LEMMA UpdateKeeps ==
  ASSUME IndInv, NEW n \in Names, Exists(n), UNCHANGED <<phy, nextPhy, ouiRadios>>,
         vif' \in [Names -> Vif \cup {Absent}],
         \A m \in Names : m # n => vif'[m] = vif[m],
         vif'[n].radio = vif[n].radio,
         vif'[n].oui <=> vif[n].radio \in ouiRadios
  PROVE  KernelInv'
  BY DEF IndInv, KernelInv, SetupOnItsRadio, WiphysDiffer, VifsConsistent, Exists

LEMMA SetUpKeeps ==
  ASSUME IndInv, NEW n \in Names, Exists(n), NEW b \in BOOLEAN, SetUp(n, b),
         UNCHANGED <<phy, nextPhy, ouiRadios>>
  PROVE  vif' \in [Names -> Vif \cup {Absent}] /\ KernelInv'
<1>1. vif[n] \in Vif /\ vif \in [Names -> Vif \cup {Absent}]
  BY DEF IndInv, TypeOK, Exists, Absent
<1>2. vif' = [vif EXCEPT ![n].up = b]
  BY DEF SetUp
<1>3. [vif[n] EXCEPT !.up = b] \in Vif
  BY <1>1 DEF Vif
<1>4. vif' = [vif EXCEPT ![n] = [vif[n] EXCEPT !.up = b]]
  BY <1>1, <1>2
<1>5. vif' \in [Names -> Vif \cup {Absent}]
  BY <1>1, <1>3, <1>4
<1>6. \A m \in Names : m # n => vif'[m] = vif[m]
  BY <1>1, <1>2
<1>7. vif'[n].radio = vif[n].radio /\ vif'[n].oui = vif[n].oui
  BY <1>1, <1>2 DEF Vif
<1>8. vif[n].oui <=> vif[n].radio \in ouiRadios
  BY DEF IndInv, VifsConsistent
<1> QED
  BY <1>5, <1>6, <1>7, <1>8, UpdateKeeps

LEMMA BringDownKeeps == IndInv /\ BringDown => IndInv'
<1> SUFFICES ASSUME IndInv, BringDown PROVE IndInv'
  OBVIOUS
<1>0. /\ pc = "down" /\ pc' = "setmac" /\ Exists(cur) /\ SetUp(cur, FALSE)
      /\ UNCHANGED <<phy, nextPhy, ouiRadios, list, gen, tiPhy, usbPhy, tail, cur,
                     todo, runs>>
  BY DEF BringDown, Goto
<1>1. cur \in {"sta0", "ap0"}
  BY <1>0 DEF IndInv, TypeOK
<1>2. vif' \in [Names -> Vif \cup {Absent}] /\ KernelInv'
  BY <1>0, <1>1, SetUpKeeps
<1>3. ListInv'
  BY <1>0, ListIdle
<1>4. TypeOK'
  BY <1>0, <1>1, <1>2 DEF IndInv, TypeOK, Phases
<1>5. ProcInv'
  BY <1>0, <1>1
     DEF IndInv, ProcInv, PhysSelected, LoopsSpareSetup, Selected, UsbKnown, Deleting
<1> QED
  BY <1>2, <1>3, <1>4, <1>5, Parts

LEMMA SetMacAddressKeeps == IndInv /\ SetMacAddress => IndInv'
<1> SUFFICES ASSUME IndInv, SetMacAddress PROVE IndInv'
  OBVIOUS
<1>0. /\ pc = "setmac" /\ pc' = "up"
      /\ \/ Exists(cur) /\ vif' = [vif EXCEPT ![cur].oui = TRUE, ![cur].tail = tail]
         \/ UNCHANGED vif
      /\ UNCHANGED <<phy, nextPhy, ouiRadios, list, gen, tiPhy, usbPhy, tail, cur,
                     todo, runs>>
  BY DEF SetMacAddress, Goto
<1>1. cur \in {"sta0", "ap0"} /\ Selected
  BY <1>0 DEF IndInv, TypeOK, Selected
<1>2. vif' \in [Names -> Vif \cup {Absent}] /\ KernelInv'
  <2>1. CASE UNCHANGED vif
    BY <1>0, <2>1, KernelIdle, Parts DEF kernelVars, TypeOK
  <2>2. CASE Exists(cur) /\ vif' = [vif EXCEPT ![cur].oui = TRUE, ![cur].tail = tail]
    <3>1. vif[cur] \in Vif /\ vif \in [Names -> Vif \cup {Absent}]
      BY <1>1, <2>2 DEF IndInv, TypeOK, Exists, Absent
    <3>2. vif[cur].radio = "TI" /\ "TI" \in ouiRadios
      BY <1>1, <2>2 DEF IndInv, SetupOnItsRadio, RadioOf, PhysSelected
    <3>3. tail \in Tails
      BY <1>1 DEF IndInv, PhysSelected
    <3>4. [vif[cur] EXCEPT !.oui = TRUE, !.tail = tail] \in Vif
      BY <3>1, <3>3 DEF Vif
    <3>5. vif' = [vif EXCEPT ![cur] = [vif[cur] EXCEPT !.oui = TRUE, !.tail = tail]]
      BY <1>1, <2>2, <3>1
    <3>6. vif' \in [Names -> Vif \cup {Absent}]
      BY <3>1, <3>4, <3>5
    <3>7. \A m \in Names : m # cur => vif'[m] = vif[m]
      BY <3>1, <3>5
    <3>8. vif'[cur].radio = vif[cur].radio /\ vif'[cur].oui = TRUE
      BY <1>1, <3>1, <3>5 DEF Vif
    <3> QED
      BY <1>0, <1>1, <2>2, <3>2, <3>6, <3>7, <3>8, UpdateKeeps
  <2> QED
    BY <1>0, <2>1, <2>2
<1>3. ListInv'
  BY <1>0, ListIdle
<1>4. TypeOK'
  BY <1>0, <1>1, <1>2 DEF IndInv, TypeOK, Phases
<1>5. ProcInv'
  BY <1>0, <1>1
     DEF IndInv, ProcInv, PhysSelected, LoopsSpareSetup, Selected, UsbKnown, Deleting
<1> QED
  BY <1>2, <1>3, <1>4, <1>5, Parts

LEMMA BringUpKeeps == IndInv /\ BringUp => IndInv'
<1> SUFFICES ASSUME IndInv, BringUp PROVE IndInv'
  OBVIOUS
<1>0. /\ pc = "up" /\ Exists(cur) /\ SetUp(cur, TRUE)
      /\ UNCHANGED <<phy, nextPhy, ouiRadios, list, gen, tiPhy, usbPhy, tail, runs>>
      /\ \/ cur = "sta0" /\ cur' = "ap0"  /\ pc' = "create" /\ UNCHANGED todo
         \/ cur = "ap0"  /\ cur' = NoName /\ pc' = "reread" /\ UNCHANGED todo
         \/ cur = "mon0" /\ cur' = NoName /\ pc' = "delUsb" /\ todo' = UsbTodo
  BY DEF BringUp, Goto
<1>1. cur \in Setup /\ Selected
  BY <1>0 DEF IndInv, TypeOK, Selected
<1>2. vif' \in [Names -> Vif \cup {Absent}] /\ KernelInv'
  BY <1>0, <1>1, SetUpKeeps
<1>3. ListInv'
  BY <1>0, ListIdle
<1>4. UsbTodo \in SUBSET Entry
  BY DEF UsbTodo, IndInv, TypeOK
<1>5. TypeOK'
  BY <1>0, <1>1, <1>2, <1>4 DEF IndInv, TypeOK, Phases
<1>6. PhysSelected'
  BY <1>0, <1>1, NamesAssumption DEF IndInv, PhysSelected, Selected, UsbKnown
<1>7. ASSUME cur = "mon0", NEW e \in UsbTodo PROVE e.name \in BaseNames
  <2>1. e \in list /\ e.phy = usbPhy /\ e.name # "mon0" /\ e.name \in Names
    BY <1>4, <1>7 DEF UsbTodo, Entry
  <2>2. PICK f \in list : f.phy = usbPhy /\ ~f.oui
    BY <1>7 DEF IndInv, PhysSelected, UsbKnown
  <2>3. ~e.oui /\ "TI" \in ouiRadios
    BY <1>1, <2>1, <2>2 DEF IndInv, EntriesConsistent, PhysSelected
  <2> QED
    BY <2>1, <2>3 DEF IndInv, EntriesConsistent
<1>8. LoopsSpareSetup'
  BY <1>0, <1>1, <1>7, NamesAssumption DEF IndInv, LoopsSpareSetup, Selected, Deleting
<1> QED
  BY <1>2, <1>3, <1>5, <1>6, <1>8, Parts DEF ProcInv

LEMMA RereadKeeps == IndInv /\ Reread => IndInv'
<1> SUFFICES ASSUME IndInv, Reread PROVE IndInv'
  OBVIOUS
<1>0. /\ pc = "reread" /\ pc' = "delTi" /\ GotList /\ todo' = TiTodo(list')
      /\ UNCHANGED <<kernelVars, tiPhy, usbPhy, tail, cur, runs>>
  BY DEF Reread, Goto
<1>1. KernelInv'
  BY <1>0, KernelIdle, Parts
<1>2. /\ list' \in SUBSET Entry /\ gen' \in Nat /\ list \subseteq list'
      /\ EntriesConsistent' /\ (gen >= 1 => \A e \in list' : e.gen = 1 => e \in list)
  BY <1>0, GotListKeeps
<1>3. cur \notin Setup
  BY <1>0, NamesAssumption DEF IndInv, LoopsSpareSetup
<1>4. TypeOK'
  BY <1>0, <1>2 DEF IndInv, TypeOK, Phases, kernelVars, TiTodo
<1>5. FirstRead'
  BY <1>0, <1>2, GotListAdds DEF IndInv, FirstRead, TypeOK, kernelVars
<1>6. PhysSelected'
  BY <1>0, <1>2 DEF IndInv, PhysSelected, Selected, UsbKnown, kernelVars
<1>7. ASSUME NEW e \in TiTodo(list') PROVE e.name \in BaseNames
  <2>1. e \in list' /\ e.phy = tiPhy /\ e.name \notin {"ap0", "sta0"} /\ e.name \in Names
    BY <1>0, <1>2, <1>7 DEF TiTodo, Entry
  <2>2. PICK f \in list' : f.phy = tiPhy /\ f.oui
    BY <1>0, <1>2 DEF IndInv, PhysSelected, Selected
  <2>3. e.oui
    BY <1>2, <2>1, <2>2 DEF EntriesConsistent
  <2> QED
    BY <1>2, <2>1, <2>3 DEF EntriesConsistent
<1>8. LoopsSpareSetup'
  BY <1>0, <1>3, <1>7, NamesAssumption DEF IndInv, LoopsSpareSetup, Selected, Deleting, TypeOK
<1> QED
  BY <1>1, <1>2, <1>4, <1>5, <1>6, <1>8, Parts DEF ProcInv, ListInv

LEMMA FinalReadKeeps == IndInv /\ FinalRead => IndInv'
<1> SUFFICES ASSUME IndInv, FinalRead PROVE IndInv'
  OBVIOUS
<1>0. /\ pc = "finalread" /\ pc' = "ready" /\ GotList
      /\ UNCHANGED <<kernelVars, tiPhy, usbPhy, tail, cur, todo, runs>>
  BY DEF FinalRead, Goto
<1>1. KernelInv'
  BY <1>0, KernelIdle, Parts
<1>2. /\ list' \in SUBSET Entry /\ gen' \in Nat /\ list \subseteq list'
      /\ EntriesConsistent' /\ (gen >= 1 => \A e \in list' : e.gen = 1 => e \in list)
  BY <1>0, GotListKeeps
<1>3. TypeOK'
  BY <1>0, <1>2 DEF IndInv, TypeOK, Phases, kernelVars
<1>4. FirstRead'
  BY <1>0, <1>2, GotListAdds DEF IndInv, FirstRead, TypeOK, kernelVars
<1>5. ProcInv'
  BY <1>0, <1>2
     DEF IndInv, ProcInv, PhysSelected, LoopsSpareSetup, Selected, UsbKnown, Deleting,
         kernelVars
<1> QED
  BY <1>1, <1>2, <1>3, <1>4, <1>5, Parts DEF ListInv

LEMMA DownNextKeeps == IndInv /\ DownNext => IndInv'
<1> SUFFICES ASSUME IndInv, DownNext PROVE IndInv'
  OBVIOUS
<1>0. /\ Deleting /\ cur = NoName
      /\ UNCHANGED <<phy, nextPhy, ouiRadios, pc, list, gen, tiPhy, usbPhy, tail, runs>>
  BY DEF DownNext
<1>1. PICK e \in todo : /\ cur' = e.name /\ todo' = todo \ {e}
                        /\ \/ Exists(e.name) /\ SetUp(e.name, FALSE)
                           \/ UNCHANGED vif
  BY DEF DownNext, Oldest
<1>2. e.name \in BaseNames
  BY DEF IndInv, LoopsSpareSetup
<1>3. vif' \in [Names -> Vif \cup {Absent}] /\ KernelInv'
  <2>1. CASE UNCHANGED vif
    BY <1>0, <2>1, KernelIdle, Parts DEF kernelVars, TypeOK
  <2>2. CASE Exists(e.name) /\ SetUp(e.name, FALSE)
    BY <1>0, <1>2, <2>2, SetUpKeeps
  <2> QED
    BY <1>1, <2>1, <2>2
<1>4. ListInv'
  BY <1>0, ListIdle DEF Deleting
<1>5. TypeOK'
  BY <1>0, <1>1, <1>2, <1>3 DEF IndInv, TypeOK, Deleting
<1>6. ProcInv'
  BY <1>0, <1>1, <1>2, NamesAssumption
     DEF IndInv, ProcInv, PhysSelected, LoopsSpareSetup, Selected, UsbKnown, Deleting
<1> QED
  BY <1>3, <1>4, <1>5, <1>6, Parts

LEMMA DeleteInterfaceKeeps == IndInv /\ DeleteInterface => IndInv'
<1> SUFFICES ASSUME IndInv, DeleteInterface PROVE IndInv'
  OBVIOUS
<1>0. /\ Deleting /\ cur # NoName /\ cur' = NoName
      /\ vif' = [vif EXCEPT ![cur] = Absent] \/ UNCHANGED vif
      /\ UNCHANGED <<phy, nextPhy, ouiRadios, pc, list, gen, tiPhy, usbPhy, tail,
                     todo, runs>>
  BY DEF DeleteInterface
<1>1. cur \in BaseNames
  BY <1>0 DEF IndInv, LoopsSpareSetup
<1>2. vif \in [Names -> Vif \cup {Absent}]
  BY DEF IndInv, TypeOK
<1>3. vif' \in [Names -> Vif \cup {Absent}]
  BY <1>0, <1>2
<1>4. \A n \in Names : vif'[n] = vif[n] \/ vif'[n] = Absent
  BY <1>0, <1>2
<1>5. KernelInv'
  BY <1>0, <1>4 DEF IndInv, KernelInv, SetupOnItsRadio, WiphysDiffer, VifsConsistent,
                    Exists, Absent
<1>6. ListInv'
  BY <1>0, ListIdle DEF Deleting
<1>7. TypeOK'
  BY <1>0, <1>3 DEF IndInv, TypeOK, Deleting
<1>8. ProcInv'
  BY <1>0, <1>1, NamesAssumption
     DEF IndInv, ProcInv, PhysSelected, LoopsSpareSetup, Selected, UsbKnown, Deleting
<1> QED
  BY <1>3, <1>5, <1>6, <1>7, <1>8, Parts

\* The other phy the program finds is the one of an entry without the OUI: the
\* first read found two physical devices and is still in front of the list.
LEMMA OtherPhyIsUsb ==
  ASSUME IndInv, Selected, NEW p \in OtherPhy
  PROVE  \E e \in list : e.phy = p /\ ~e.oui
<1> DEFINE others == { e \in list : e.phy # tiPhy }
<1>1. PICK a \in list, b \in list : a.gen = 1 /\ b.gen = 1 /\ a.phy # b.phy
  BY DEF IndInv, FirstRead, Selected
<1>2. PICK o \in others : o.gen = 1
  BY <1>1
<1>3. PICK e \in others : e.phy = p /\ \A f \in others : e.gen <= f.gen
  BY <1>2 DEF OtherPhy, PhysOf, Oldest
<1>4. e.gen = 1
  <2>1. e.gen \in Nat /\ e.gen >= 1
    BY DEF IndInv, EntriesConsistent, TypeOK, Entry
  <2> QED
    BY <1>2, <1>3, <2>1
<1>5. PICK t \in list : t.phy = tiPhy /\ t.oui /\ t.gen = 1
  BY DEF IndInv, PhysSelected
<1>6. e.oui # t.oui
  BY <1>4, <1>5 DEF IndInv, FirstRead, PhysSelected, Selected
<1>7. e.oui \in BOOLEAN /\ t.oui \in BOOLEAN
  BY DEF IndInv, TypeOK, Entry
<1> QED
  BY <1>3, <1>5, <1>6, <1>7

LEMMA TiLoopEndsKeeps == IndInv /\ TiLoopEnds => IndInv'
<1> SUFFICES ASSUME IndInv, TiLoopEnds PROVE IndInv'
  OBVIOUS
<1>0. /\ pc = "delTi" /\ pc' = "create" /\ cur' = "mon0" /\ usbPhy' \in OtherPhy
      /\ UNCHANGED <<kernelVars, list, gen, tiPhy, tail, todo, runs>>
  BY DEF TiLoopEnds, Goto
<1>1. KernelInv' /\ ListInv'
  BY <1>0, KernelIdle, ListIdle, Parts DEF kernelVars
<1>2. PICK e \in list : e.phy = usbPhy' /\ ~e.oui
  BY <1>0, OtherPhyIsUsb DEF Selected
<1>3. TypeOK'
  BY <1>0, <1>2 DEF IndInv, TypeOK, Phases, kernelVars, Entry
<1>4. ProcInv'
  BY <1>0, <1>2, NamesAssumption
     DEF IndInv, ProcInv, PhysSelected, LoopsSpareSetup, Selected, UsbKnown, Deleting,
         kernelVars
<1> QED
  BY <1>1, <1>3, <1>4, Parts

LEMMA UsbLoopEndsKeeps == IndInv /\ UsbLoopEnds => IndInv'
<1> SUFFICES ASSUME IndInv, UsbLoopEnds PROVE IndInv'
  OBVIOUS
<1>0. /\ pc = "delUsb" /\ pc' = "finalread"
      /\ UNCHANGED <<kernelVars, list, gen, tiPhy, usbPhy, tail, cur, todo, runs>>
  BY DEF UsbLoopEnds, Goto
<1>1. KernelInv' /\ ListInv'
  BY <1>0, KernelIdle, ListIdle, Parts DEF kernelVars
<1>2. TypeOK'
  BY <1>0 DEF IndInv, TypeOK, Phases, kernelVars
<1>3. ProcInv'
  BY <1>0
     DEF IndInv, ProcInv, PhysSelected, LoopsSpareSetup, Selected, UsbKnown, Deleting,
         kernelVars
<1> QED
  BY <1>1, <1>2, <1>3, Parts

\* A radio that goes takes its interfaces with it; the entries stay.
LEMMA UnplugKeeps == ASSUME NEW r \in Radios PROVE IndInv /\ Unplug(r) => IndInv'
<1> SUFFICES ASSUME IndInv, Unplug(r) PROVE IndInv'
  OBVIOUS
<1>0. /\ phy' = [phy EXCEPT ![r] = NoPhy]
      /\ vif' = [n \in Names |-> IF vif[n].radio = r THEN Absent ELSE vif[n]]
      /\ UNCHANGED <<nextPhy, ouiRadios, procVars, runs>>
  BY DEF Unplug
<1>1. vif \in [Names -> Vif \cup {Absent}] /\ phy \in [Radios -> Nat \cup {NoPhy}]
      /\ nextPhy \in Nat
  BY DEF IndInv, TypeOK
<1>2. vif' \in [Names -> Vif \cup {Absent}] /\ phy' \in [Radios -> Nat \cup {NoPhy}]
  BY <1>0, <1>1
<1>3. TypeOK'
  BY <1>0, <1>2 DEF IndInv, TypeOK, procVars
<1>4. \A n \in Names : (vif'[n] = vif[n] /\ vif[n].radio # r) \/ vif'[n] = Absent
  BY <1>0
<1>5. \A q \in Radios : phy'[q] = IF q = r THEN NoPhy ELSE phy[q]
  BY <1>0, <1>1
<1>6. KernelInv'
  BY <1>0, <1>1, <1>4, <1>5
     DEF IndInv, KernelInv, SetupOnItsRadio, WiphysDiffer, VifsConsistent, Exists, Absent
<1>7. \A e \in list : e.phy # NoPhy
  BY DEF IndInv, TypeOK, Entry
<1>8. ListInv'
  BY <1>0, <1>5, <1>7 DEF IndInv, ListInv, EntriesConsistent, FirstRead, procVars
<1>9. ProcInv'
  BY <1>0
     DEF IndInv, ProcInv, PhysSelected, LoopsSpareSetup, Selected, UsbKnown, Deleting,
         procVars
<1> QED
  BY <1>3, <1>6, <1>8, <1>9, Parts

\* A radio that comes back gets a wiphy index no entry has.
LEMMA PlugKeeps == ASSUME NEW r \in Radios PROVE IndInv /\ Plug(r) => IndInv'
<1> SUFFICES ASSUME IndInv, Plug(r) PROVE IndInv'
  OBVIOUS
<1>0. PICK b \in BaseNames :
         /\ phy[r] = NoPhy /\ ~Exists(b)
         /\ phy' = [phy EXCEPT ![r] = nextPhy] /\ nextPhy' = nextPhy + 1
         /\ vif' = [vif EXCEPT ![b] = NewVif(r, "station", FALSE)]
         /\ UNCHANGED <<ouiRadios, procVars, runs>>
  BY DEF Plug
<1>1. vif \in [Names -> Vif \cup {Absent}] /\ phy \in [Radios -> Nat \cup {NoPhy}]
      /\ nextPhy \in Nat
  BY DEF IndInv, TypeOK
<1> DEFINE new == NewVif(r, "station", FALSE)
<1>2. new \in Vif /\ new.radio = r /\ (new.oui <=> r \in ouiRadios)
  BY NewVifType, NewVifFields DEF Types
<1>3. vif' = [vif EXCEPT ![b] = new]
  BY <1>0
<1> HIDE DEF new
<1>4. vif' \in [Names -> Vif \cup {Absent}] /\ phy' \in [Radios -> Nat \cup {NoPhy}]
      /\ nextPhy' \in Nat
  <2>1. vif' \in [Names -> Vif \cup {Absent}]
    BY <1>1, <1>2, <1>3
  <2>2. phy' \in [Radios -> Nat \cup {NoPhy}] /\ nextPhy' \in Nat
    BY <1>0, <1>1
  <2> QED
    BY <2>1, <2>2
<1>5. TypeOK'
  BY <1>0, <1>4 DEF IndInv, TypeOK, procVars
<1>6. /\ \A n \in Names : n # b => vif'[n] = vif[n]
      /\ vif'[b].radio = r /\ (vif'[b].oui <=> r \in ouiRadios)
  BY <1>1, <1>2, <1>3
<1>7. \A q \in Radios : phy'[q] = IF q = r THEN nextPhy ELSE phy[q]
  BY <1>0, <1>1
<1>8. \A q \in Radios : phy[q] < nextPhy
  BY DEF IndInv, WiphysDiffer
<1>9. SetupOnItsRadio'
  BY <1>6, NamesAssumption DEF IndInv, SetupOnItsRadio, Exists
<1>10. VifsConsistent'
  <2>1. ASSUME NEW n \in Names, Exists(n)'
        PROVE  /\ vif'[n].radio \in Radios /\ phy'[vif'[n].radio] # NoPhy
               /\ vif'[n].oui <=> vif'[n].radio \in ouiRadios
    BY <1>1, <1>6, <1>7, <2>1 DEF IndInv, VifsConsistent, Exists
  <2> QED
    BY <1>0, <2>1 DEF VifsConsistent
<1>11. WiphysDiffer'
  BY <1>0, <1>1, <1>7, <1>8 DEF IndInv, WiphysDiffer
<1>12. \A e \in list : e.phy < nextPhy /\ e.phy \in Nat
  BY DEF IndInv, EntriesConsistent, TypeOK, Entry
<1>13. ListInv'
  BY <1>0, <1>1, <1>7, <1>12 DEF IndInv, ListInv, EntriesConsistent, FirstRead, procVars
<1>14. ProcInv'
  BY <1>0
     DEF IndInv, ProcInv, PhysSelected, LoopsSpareSetup, Selected, UsbKnown, Deleting,
         procVars
<1> QED
  BY <1>5, <1>9, <1>10, <1>11, <1>13, <1>14, Parts DEF KernelInv

LEMMA StutterKeeps == IndInv /\ UNCHANGED vars => IndInv'
  BY DEF vars, kernelVars, procVars, IndInv, TypeOK, SetupOnItsRadio, WiphysDiffer,
         VifsConsistent, EntriesConsistent, FirstRead, PhysSelected, LoopsSpareSetup,
         Exists, Selected, UsbKnown, Deleting

(***************************************************************************)
(* The theorems.                                                           *)
(***************************************************************************)
LEMMA StepKeeps == IndInv /\ [HotplugNext]_vars => IndInv'
<1> SUFFICES ASSUME IndInv, [HotplugNext]_vars PROVE IndInv'
  OBVIOUS
<1>1. CASE Program
  BY <1>1, InitPassesKeeps, GivingUpKeeps, SelectTiKeeps, AlreadyExistsKeeps,
     CreateInterfaceKeeps, CreateFailsKeeps, BringDownKeeps, SetMacAddressKeeps,
     BringUpKeeps, RereadKeeps, FinalReadKeeps, DownNextKeeps, DeleteInterfaceKeeps,
     TiLoopEndsKeeps, UsbLoopEndsKeeps DEF Program
<1>2. CASE Start \/ Stop
  BY <1>2, StartKeeps, GivingUpKeeps
<1>3. CASE Hotplug
  BY <1>3, UnplugKeeps, PlugKeeps DEF Hotplug
<1>4. CASE UNCHANGED vars
  BY <1>4, StutterKeeps
<1> QED
  BY <1>1, <1>2, <1>3, <1>4 DEF HotplugNext, Next

\* The invariant holds throughout, for any base names, any number of runs and
\* any pattern of failures, deaths and reconnections.
THEOREM Invariance == HotplugSpec => []IndInv
  BY InitEstablishes, StepKeeps, PTL DEF HotplugSpec

\* Every variable of the set-up is of its type, throughout.
THEOREM TypeCorrectness == HotplugSpec => []TypeOK
<1>1. IndInv => TypeOK
  BY DEF IndInv
<1> QED
  BY <1>1, Invariance, PTL

\* sta0 and ap0 are only ever on the TI chip, mon0 only on the USB radio: the
\* wiphy index CreateInterfaces() passes to NEW_INTERFACE never names the other
\* radio, however old the list entry is that it was read from.
THEOREM SetupStaysOnItsRadio == HotplugSpec => []SetupOnItsRadio
<1>1. IndInv => SetupOnItsRadio
  BY DEF IndInv
<1> QED
  BY <1>1, Invariance, PTL

\* SIOCSIFFLAGS moves no interface and deletes none.
LEMMA SetUpKeepsRadio ==
  ASSUME TypeOK, NEW n \in Names, Exists(n), NEW b \in BOOLEAN, SetUp(n, b)
  PROVE  \A m \in Names : Exists(m) => Exists(m)'
<1>1. vif[n] \in Vif /\ vif \in [Names -> Vif \cup {Absent}]
  BY DEF TypeOK, Exists, Absent
<1>2. \A m \in Names : vif'[m].radio = vif[m].radio
  BY <1>1 DEF SetUp, Vif
<1> QED
  BY <1>2 DEF Exists

\* A step of the program takes away a base interface at most.
LEMMA StepSpares ==
  ASSUME IndInv, HotplugNext, phy' = phy
  PROVE  \A n \in Setup : Exists(n) => Exists(n)'
<1>1. TypeOK
  BY DEF IndInv
<1>2. CASE UNCHANGED vif
  BY <1>2 DEF Exists
<1>3. CASE KernelCreates
  BY <1>1, <1>3 DEF KernelCreates, Exists, TypeOK
<1>4. CASE BringDown \/ BringUp
  <2>1. Exists(cur) /\ \E b \in BOOLEAN : SetUp(cur, b)
    BY <1>4 DEF BringDown, BringUp
  <2>2. cur \in Names
    BY <1>1, <1>4 DEF TypeOK, BringDown, BringUp
  <2> QED
    BY <1>1, <2>1, <2>2, SetUpKeepsRadio
<1>5. CASE SetMacAddress
  <2>1. CASE Exists(cur) /\ vif' = [vif EXCEPT ![cur].oui = TRUE, ![cur].tail = tail]
    <3>1. cur \in Names /\ vif[cur] \in Vif /\ vif \in [Names -> Vif \cup {Absent}]
      BY <1>1, <1>5, <2>1 DEF TypeOK, SetMacAddress, Exists, Absent
    <3>2. \A m \in Names : vif'[m].radio = vif[m].radio
      BY <2>1, <3>1 DEF Vif
    <3> QED
      BY <3>2 DEF Exists
  <2> QED
    BY <1>2, <1>5, <2>1 DEF SetMacAddress
<1>6. CASE DownNext
  <2>1. PICK e \in todo : (Exists(e.name) /\ SetUp(e.name, FALSE)) \/ UNCHANGED vif
    BY <1>6 DEF DownNext, Oldest
  <2>2. e.name \in Names
    BY DEF IndInv, LoopsSpareSetup
  <2> QED
    BY <1>1, <1>2, <2>1, <2>2, SetUpKeepsRadio
<1>7. CASE DeleteInterface
  <2>1. cur \notin Setup
    BY <1>7, NamesAssumption DEF IndInv, LoopsSpareSetup, DeleteInterface
  <2> QED
    BY <1>1, <1>7, <2>1 DEF DeleteInterface, Exists, TypeOK
<1>8. CASE Hotplug
  <2>1. PICK r \in Radios : Unplug(r) \/ Plug(r)
    BY <1>8 DEF Hotplug
  <2>2. phy \in [Radios -> Nat \cup {NoPhy}] /\ nextPhy \in Nat
    BY <1>1 DEF TypeOK
  <2>3. \/ phy[r] # NoPhy /\ phy' = [phy EXCEPT ![r] = NoPhy]
        \/ phy[r] = NoPhy /\ phy' = [phy EXCEPT ![r] = nextPhy]
    BY <2>1 DEF Unplug, Plug
  <2>4. phy'[r] # phy[r]
    BY <2>2, <2>3
  <2> QED
    BY <2>4
<1>9. CASE Program /\ ~(BringDown \/ BringUp \/ SetMacAddress \/ DownNext \/ DeleteInterface)
  BY <1>2, <1>3, <1>9
     DEF Program, InitPasses, InitFails, SelectTi, SelectFails, AlreadyExists,
         CreateInterface, CreateFails, BringDownFails, BringUpFails, Reread, FinalRead,
         RereadFails, TiLoopEnds, UsbLoopEnds, kernelVars
<1>10. CASE Start \/ Stop
  BY <1>2, <1>10 DEF Start, Stop, kernelVars
<1> QED
  BY <1>4, <1>5, <1>6, <1>7, <1>8, <1>9, <1>10 DEF HotplugNext, Next

\* The delete loops never delete sta0, ap0 or mon0, whatever entries of
\* interfaces and radios long gone the list still holds.
THEOREM SetupIsNeverDeleted == HotplugSpec => SetupNeverDeleted
<1>1. IndInv /\ [HotplugNext]_vars =>
        [\A n \in Setup : Exists(n) /\ phy' = phy => Exists(n)']_vars
  BY StepSpares
<1> QED
  BY <1>1, Invariance, PTL DEF HotplugSpec, SetupNeverDeleted

\* On a board whose addresses all begin with another OUI no step of the program
\* gets past the choice of the TI chip, and nothing is changed.
LEMMA NoTiNoChange ==
  ASSUME IndInv, Next, ouiRadios = {}
  PROVE  vif' = vif
<1>1. pc \in {"off", "init", "select"}
  BY DEF IndInv, PhysSelected, Selected
<1>2. CASE Start \/ Stop
  BY <1>2 DEF Start, Stop, kernelVars
<1>3. CASE InitPasses \/ InitFails \/ SelectTi \/ SelectFails
  BY <1>3 DEF InitPasses, InitFails, SelectTi, SelectFails, kernelVars
<1>4. CASE AlreadyExists \/ CreateInterface \/ CreateFails
  BY <1>1, <1>4 DEF AlreadyExists, CreateInterface, CreateFails
<1>5. CASE BringDown \/ BringDownFails \/ SetMacAddress \/ BringUp \/ BringUpFails
  BY <1>1, <1>5 DEF BringDown, BringDownFails, SetMacAddress, BringUp, BringUpFails
<1>6. CASE Reread \/ FinalRead \/ RereadFails
  BY <1>1, <1>6 DEF Reread, FinalRead, RereadFails
<1>7. CASE DownNext \/ DeleteInterface \/ TiLoopEnds \/ UsbLoopEnds
  BY <1>1, <1>7 DEF DownNext, DeleteInterface, TiLoopEnds, UsbLoopEnds, Deleting
<1> QED
  BY <1>2, <1>3, <1>4, <1>5, <1>6, <1>7 DEF Next, Program

\* Without a TI address in the list Init() and CreateInterfaces() change nothing.
THEOREM NothingIsTouched == Spec => TouchesNothing
<1>1. Spec => HotplugSpec
  <2>1. [Next]_vars => [HotplugNext]_vars
    BY DEF HotplugNext
  <2> QED
    BY <2>1, PTL DEF Spec, HotplugSpec
<1>2. IndInv /\ [Next]_vars => [ouiRadios = {} => vif' = vif]_vars
  BY NoTiNoChange
<1> QED
  BY <1>1, <1>2, Invariance, PTL DEF Spec, TouchesNothing
=============================================================================
