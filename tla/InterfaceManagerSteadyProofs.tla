-------------------- MODULE InterfaceManagerSteadyProofs --------------------
(***************************************************************************)
(* Proofs of what start-up achieves while no radio comes or goes, for all  *)
(* base names and addresses, any number of runs and whichever calls fail   *)
(* or runs die: no radio is ever left without an interface, success means  *)
(* that all three interfaces are there, active, and that nothing else is   *)
(* left if no call failed.                                                 *)
(***************************************************************************)
EXTENDS InterfaceManagerProofs

USE DEF Radios, Setup, Names, NoPhy, NoRadio, NoName

(***************************************************************************)
(* What a step does to the table of interfaces.                            *)
(***************************************************************************)
\* SIOCSIFFLAGS changes one flag of one interface.
LEMMA SetUpFields ==
  ASSUME TypeOK, NEW n \in Names, Exists(n), NEW b \in BOOLEAN, SetUp(n, b)
  PROVE  /\ \A m \in Names : /\ vif'[m].radio = vif[m].radio /\ vif'[m].type = vif[m].type
                             /\ m # n => vif'[m] = vif[m]
         /\ vif'[n].up = b
<1>1. vif[n] \in Vif /\ vif \in [Names -> Vif \cup {Absent}]
  BY DEF TypeOK, Exists, Absent
<1> QED
  BY <1>1 DEF SetUp, Vif

Remains(n) == vif'[n].radio # NoRadio

Kept(n) == /\ Remains(n) <=> Exists(n)
           /\ vif'[n].radio = vif[n].radio /\ vif'[n].type = vif[n].type

Calm(n) == Kept(n) /\ vif'[n].up = vif[n].up

LEMMA SameIsCalm ==
  ASSUME NEW n, vif'[n] = vif[n] PROVE Calm(n)
  BY DEF Calm, Kept, Exists, Remains

LEMMA CreateEffect ==
  ASSUME TypeOK, KernelCreates, cur \in Setup
  PROVE  /\ \A n \in Names \ {cur} : Calm(n)
         /\ ~Exists(cur) /\ Remains(cur)
         /\ vif'[cur].type = TypeOf[cur] /\ ~vif'[cur].up
<1>1. PICK r \in Radios : vif' = [vif EXCEPT ![cur] = NewVif(r, TypeOf[cur], FALSE)]
  BY DEF KernelCreates
<1>2. vif \in [Names -> Vif \cup {Absent}]
  BY DEF TypeOK
<1>3. vif'[cur] = NewVif(r, TypeOf[cur], FALSE) /\ \A n \in Names \ {cur} : vif'[n] = vif[n]
  BY <1>1, <1>2
<1>4. /\ NewVif(r, TypeOf[cur], FALSE).radio = r
      /\ NewVif(r, TypeOf[cur], FALSE).type = TypeOf[cur]
      /\ NewVif(r, TypeOf[cur], FALSE).up = FALSE
  BY DEF NewVif
<1>5. \A n \in Names \ {cur} : Calm(n)
  BY <1>3, SameIsCalm
<1>6. ~Exists(cur)
  BY DEF KernelCreates
<1>7. Remains(cur)
  BY <1>3, <1>4 DEF Exists, Remains
<1> QED
  BY <1>3, <1>4, <1>5, <1>6, <1>7

LEMMA SetMacEffect ==
  ASSUME IndInv, SetMacAddress
  PROVE  \A n \in Names : Calm(n)
<1>1. CASE UNCHANGED vif
  BY <1>1 DEF Calm, Kept, Exists, Remains
<1>2. CASE Exists(cur) /\ vif' = [vif EXCEPT ![cur].oui = TRUE, ![cur].tail = tail]
  <2>1. cur \in Names /\ vif[cur] \in Vif /\ vif \in [Names -> Vif \cup {Absent}]
    BY <1>2 DEF IndInv, TypeOK, SetMacAddress, Exists, Absent
  <2>2. \A m \in Names : /\ vif'[m].radio = vif[m].radio /\ vif'[m].type = vif[m].type
                         /\ vif'[m].up = vif[m].up
    BY <1>2, <2>1 DEF Vif
  <2> QED
    BY <2>2 DEF Calm, Kept, Exists, Remains
<1> QED
  BY <1>1, <1>2 DEF SetMacAddress

LEMMA BringEffect ==
  ASSUME IndInv, BringDown \/ BringUp
  PROVE  /\ cur \in Setup /\ Exists(cur) /\ \A n \in Names : Kept(n)
         /\ \A n \in Names \ {cur} : Calm(n)
         /\ BringDown => cur \in {"sta0", "ap0"} /\ ~vif'[cur].up
         /\ BringUp => vif'[cur].up
<1>1. TypeOK /\ cur \in Setup /\ Exists(cur)
  BY DEF IndInv, TypeOK, BringDown, BringUp
<1>2. CASE BringDown
  BY <1>1, <1>2, SetUpFields DEF BringDown, BringUp, Calm, Kept, Exists, Remains, TypeOK
<1>3. CASE BringUp
  BY <1>1, <1>3, SetUpFields DEF BringDown, BringUp, Calm, Kept, Exists, Remains, TypeOK
<1> QED
  BY <1>2, <1>3

LEMMA DownNextEffect ==
  ASSUME IndInv, DownNext
  PROVE  /\ \A n \in Names : Kept(n)
         /\ \A n \in Setup : Calm(n)
<1>0. TypeOK
  BY DEF IndInv
<1>1. PICK e \in todo : (Exists(e.name) /\ SetUp(e.name, FALSE)) \/ UNCHANGED vif
  BY DEF DownNext, Oldest
<1>2. e.name \in BaseNames /\ e.name \notin Setup
  BY NamesAssumption DEF IndInv, LoopsSpareSetup
<1>3. CASE UNCHANGED vif
  BY <1>3 DEF Calm, Kept, Exists, Remains
<1>4. CASE Exists(e.name) /\ SetUp(e.name, FALSE)
  <2>1. \A m \in Names : /\ vif'[m].radio = vif[m].radio /\ vif'[m].type = vif[m].type
                         /\ m # e.name => vif'[m] = vif[m]
    BY <1>0, <1>2, <1>4, SetUpFields
  <2> QED
    BY <1>2, <2>1 DEF Calm, Kept, Exists, Remains
<1> QED
  BY <1>1, <1>3, <1>4

LEMMA DeleteEffect ==
  ASSUME IndInv, DeleteInterface
  PROVE  /\ cur \in BaseNames /\ cur \notin Setup
         /\ \A n \in Names \ {cur} : vif'[n] = vif[n] /\ Calm(n)
         /\ vif'[cur] = vif[cur] \/ ~Remains(cur)
         /\ ~MayFail => ~Remains(cur)
<1>1. cur \in BaseNames /\ cur \notin Setup
  BY NamesAssumption DEF IndInv, LoopsSpareSetup, DeleteInterface
<1>2. vif \in [Names -> Vif \cup {Absent}]
  BY DEF IndInv, TypeOK
<1>3. CASE UNCHANGED vif /\ (MayFail \/ ~Exists(cur))
  <2>1. ~Exists(cur) => ~Remains(cur)
    BY <1>3 DEF Exists, Remains
  <2> QED
    BY <1>1, <1>3, <2>1, SameIsCalm
<1>4. CASE Exists(cur) /\ vif' = [vif EXCEPT ![cur] = Absent]
  <2>1. vif'[cur] = Absent /\ \A n \in Names \ {cur} : vif'[n] = vif[n]
    BY <1>1, <1>2, <1>4
  <2>2. ~Remains(cur)
    BY <2>1 DEF Exists, Remains, Absent
  <2>3. \A n \in Names \ {cur} : Calm(n)
    BY <2>1, SameIsCalm
  <2> QED
    BY <1>1, <2>1, <2>2, <2>3
<1> QED
  BY <1>3, <1>4 DEF DeleteInterface

\* All other steps leave the table alone.
Acts == \/ CreateInterface \/ CreateFails \/ BringDown \/ BringUp \/ SetMacAddress
        \/ DownNext \/ DeleteInterface

LEMMA OthersIdle ==
  ASSUME [Next]_vars, ~Acts
  PROVE  vif' = vif
  BY DEF Next, Program, Acts, InitPasses, InitFails, SelectTi, SelectFails, AlreadyExists,
         BringDownFails, BringUpFails, Reread, FinalRead, RereadFails, TiLoopEnds,
         UsbLoopEnds, Start, Stop, vars, kernelVars

LEMMA WiphysStay ==
  ASSUME [Next]_vars PROVE UNCHANGED <<phy, nextPhy, ouiRadios>>
  BY DEF Next, Program, InitPasses, InitFails, SelectTi, SelectFails, AlreadyExists,
         CreateInterface, CreateFails, BringDown, SetMacAddress, BringUp, DownNext,
         DeleteInterface,
         BringDownFails, BringUpFails, Reread, FinalRead, RereadFails, TiLoopEnds,
         UsbLoopEnds, Start, Stop, vars, kernelVars

\* Interfaces keep their radio and their type as long as they exist, those of
\* the program exist for good, and base interfaces are not made.
LEMMA TableStep ==
  ASSUME IndInv, [Next]_vars
  PROVE  /\ \A n \in Names : Exists(n) /\ Remains(n) =>
               vif'[n].radio = vif[n].radio /\ vif'[n].type = vif[n].type
         /\ \A n \in Setup : Exists(n) => Remains(n)
         /\ \A n \in Setup : ~Exists(n) /\ Remains(n) =>
               /\ pc = "create" /\ n = cur /\ vif'[n].type = TypeOf[n] /\ ~vif'[n].up
               /\ CreateInterface \/ CreateFails
         /\ \A n \in BaseNames : Remains(n) => Exists(n)
<1> USE NamesAssumption
<1>1. CASE ~Acts
  BY <1>1, OthersIdle DEF Exists, Remains
<1>2. CASE CreateInterface \/ CreateFails
  <2>1. TypeOK /\ pc = "create" /\ cur \in Setup
    BY <1>2 DEF IndInv, TypeOK, CreateInterface, CreateFails
  <2>2. CASE UNCHANGED vif
    BY <2>2 DEF Exists, Remains
  <2>3. CASE KernelCreates
    BY <1>2, <2>1, <2>3, CreateEffect DEF Calm, Kept, Exists, Remains
  <2> QED
    BY <1>2, <2>2, <2>3 DEF CreateInterface, CreateFails
<1>3. CASE BringDown \/ BringUp \/ DownNext \/ SetMacAddress
  <2>1. \A n \in Names : Kept(n)
    BY <1>3, BringEffect, DownNextEffect, SetMacEffect DEF Calm
  <2> QED
    BY <2>1 DEF Kept
<1>4. CASE DeleteInterface
  BY <1>4, DeleteEffect DEF Calm, Kept, Exists, Remains
<1> QED
  BY <1>1, <1>2, <1>3, <1>4 DEF Acts

\* Only BringDown takes an interface of the program down.
LEMMA UpStep ==
  ASSUME IndInv, [Next]_vars, NEW n \in Setup, Up(n)
  PROVE  Up(n)' \/ (BringDown /\ n = cur)
<1> USE NamesAssumption DEF Up
<1>1. CASE ~Acts
  BY <1>1, OthersIdle DEF Exists, Remains
<1>2. CASE CreateInterface \/ CreateFails
  <2>1. TypeOK /\ cur \in Setup
    BY <1>2 DEF IndInv, TypeOK, CreateInterface, CreateFails
  <2>2. CASE UNCHANGED vif
    BY <2>2 DEF Exists, Remains
  <2>3. CASE KernelCreates
    BY <2>1, <2>3, CreateEffect DEF Calm, Kept, Exists, Remains
  <2> QED
    BY <1>2, <2>2, <2>3 DEF CreateInterface, CreateFails
<1>3. CASE BringDown \/ BringUp
  BY <1>3, BringEffect DEF Calm, Kept, Exists, Remains
<1>4. CASE DownNext \/ SetMacAddress
  BY <1>4, DownNextEffect, SetMacEffect DEF Calm, Kept, Exists, Remains
<1>5. CASE DeleteInterface
  BY <1>5, DeleteEffect DEF Calm, Kept, Exists, Remains
<1> QED
  BY <1>1, <1>2, <1>3, <1>4, <1>5 DEF Acts

\* Only a delete loop takes an interface away.
LEMMA GoneStep ==
  ASSUME IndInv, [Next]_vars, NEW n \in Names, Exists(n), ~Remains(n)
  PROVE  DeleteInterface /\ n = cur
<1>1. CASE ~Acts
  BY <1>1, OthersIdle DEF Exists, Remains
<1>2. CASE CreateInterface \/ CreateFails
  <2>1. TypeOK /\ cur \in Setup
    BY <1>2 DEF IndInv, TypeOK, CreateInterface, CreateFails
  <2>2. CASE UNCHANGED vif
    BY <2>2 DEF Exists, Remains
  <2>3. CASE KernelCreates
    BY <2>1, <2>3, CreateEffect DEF Calm, Kept
  <2> QED
    BY <1>2, <2>2, <2>3 DEF CreateInterface, CreateFails
<1>3. CASE BringDown \/ BringUp \/ DownNext \/ SetMacAddress
  BY <1>3, BringEffect, DownNextEffect, SetMacEffect DEF Calm, Kept
<1>4. CASE DeleteInterface
  BY <1>4, DeleteEffect DEF Calm, Kept
<1> QED
  BY <1>1, <1>2, <1>3, <1>4 DEF Acts

\* What takes an interface down.
LEMMA DownStep ==
  ASSUME IndInv, [Next]_vars, ~Deleting, NEW n \in Names, Exists(n), vif[n].up
  PROVE  \/ vif'[n].up /\ vif'[n].radio = vif[n].radio
         \/ BringDown /\ n = cur
<1>1. CASE ~Acts
  BY <1>1, OthersIdle
<1>2. CASE CreateInterface \/ CreateFails
  <2>1. TypeOK /\ cur \in Setup
    BY <1>2 DEF IndInv, TypeOK, CreateInterface, CreateFails
  <2>2. CASE UNCHANGED vif
    BY <2>2
  <2>3. CASE KernelCreates
    BY <2>1, <2>3, CreateEffect DEF Calm, Kept
  <2> QED
    BY <1>2, <2>2, <2>3 DEF CreateInterface, CreateFails
<1>3. CASE BringDown \/ BringUp
  BY <1>3, BringEffect DEF Calm, Kept
<1>4. CASE SetMacAddress
  BY <1>4, SetMacEffect DEF Calm, Kept
<1>5. ~DownNext /\ ~DeleteInterface
  BY DEF DownNext, DeleteInterface
<1> QED
  BY <1>1, <1>2, <1>3, <1>4, <1>5 DEF Acts

(***************************************************************************)
(* What a step does to the list and to the phase.                          *)
(***************************************************************************)
Listless == /\ list' = list /\ (pc \in {"off", "init"} => pc' \in {"off", "init"})
            /\ pc # "off" => runs' = runs

LEMMA ListCases ==
  ASSUME [Next]_vars
  PROVE  Exit \/ (GotList /\ UNCHANGED <<kernelVars, runs>>) \/ Listless
<1>1. CASE Program
  BY <1>1
     DEF Program, InitPasses, InitFails, SelectTi, SelectFails, AlreadyExists, CreateInterface,
         CreateFails, BringDown, BringDownFails, SetMacAddress, BringUp, BringUpFails, Reread,
         FinalRead, RereadFails, DownNext, DeleteInterface, TiLoopEnds, UsbLoopEnds, Listless,
         Deleting
<1>2. CASE Start \/ Stop \/ UNCHANGED vars
  BY <1>2 DEF Start, Stop, vars, procVars, Listless, Goto
<1> QED
  BY <1>1, <1>2 DEF Next

\* How far a run has come changes when BringUp has done its work.
LEMMA PhaseStep ==
  ASSUME IndInv, [Next]_vars
  PROVE  /\ cur' = "ap0" \/ TiSetUp' => cur = "ap0" \/ TiSetUp \/ (BringUp /\ cur = "sta0")
         /\ TiSetUp' => TiSetUp \/ (BringUp /\ cur = "ap0")
         /\ UsbSetUp' => UsbSetUp \/ (BringUp /\ cur = "mon0")
<1> USE NamesAssumption DEF TiSetUp, UsbSetUp, Goto
<1>1. CASE Exit
  BY <1>1 DEF Exit
<1>2. CASE BringUp
  <2>1. cur \in Setup
    BY <1>2 DEF IndInv, TypeOK, BringUp
  <2> QED
    BY <1>2, <2>1 DEF BringUp
<1>3. CASE InitPasses \/ SelectTi
  BY <1>3 DEF InitPasses, SelectTi, IndInv, LoopsSpareSetup, Selected
<1>4. CASE AlreadyExists \/ CreateInterface \/ BringDown \/ SetMacAddress
  BY <1>4 DEF AlreadyExists, CreateInterface, BringDown, SetMacAddress, Created
<1>5. CASE Reread \/ FinalRead \/ TiLoopEnds \/ UsbLoopEnds
  BY <1>5 DEF Reread, FinalRead, TiLoopEnds, UsbLoopEnds
<1>6. CASE DownNext \/ DeleteInterface
  BY <1>6 DEF DownNext, DeleteInterface, Deleting
<1>7. CASE Start
  BY <1>7 DEF Start
<1>8. CASE UNCHANGED vars
  BY <1>8 DEF vars, procVars
<1> QED
  BY <1>1, <1>2, <1>3, <1>4, <1>5, <1>6, <1>7, <1>8
     DEF Next, Program, InitFails, SelectFails, CreateFails, BringDownFails, BringUpFails,
         RereadFails, Stop

(***************************************************************************)
(* The wiphy indexes the process works on are those of the radios.         *)
(***************************************************************************)
LEMMA PhysAreRadios ==
  ASSUME IndInv, Attached
  PROVE  /\ Selected => tiPhy = phy["TI"]
         /\ Selected /\ UsbKnown => usbPhy = phy["USB"]
<1>1. \A e \in list : \E r \in Radios : e.phy = phy[r]
  <2> TAKE e \in list
  <2>1. e.phy \in Nat /\ e.phy < 2
    BY DEF IndInv, TypeOK, Entry, EntriesConsistent, Attached
  <2> QED
    BY <2>1 DEF Attached
<1>2. ASSUME Selected PROVE tiPhy = phy["TI"]
  <2>1. \E r \in Radios : tiPhy = phy[r]
    BY <1>1, <1>2 DEF IndInv, PhysSelected
  <2> QED
    BY <1>2, <2>1, PhyTellsRadio
<1>3. ASSUME Selected, UsbKnown PROVE usbPhy = phy["USB"]
  <2>1. \E r \in Radios : usbPhy = phy[r]
    BY <1>1, <1>3 DEF IndInv, PhysSelected
  <2> QED
    BY <1>3, <2>1, PhyTellsRadio
<1> QED
  BY <1>2, <1>3

(***************************************************************************)
(* One lemma per part of SteadyInv.                                        *)
(***************************************************************************)
LEMMA IndStep == IndInv /\ [Next]_vars => IndInv'
<1>1. [Next]_vars => [HotplugNext]_vars
  BY DEF HotplugNext
<1> QED
  BY <1>1, StepKeeps

LEMMA ListTrueStep == SteadyInv /\ [Next]_vars => ListTrue'
<1> SUFFICES ASSUME SteadyInv, [Next]_vars PROVE ListTrue'
  OBVIOUS
<1> USE NamesAssumption
<1>0. /\ IndInv /\ ListTrue /\ UNCHANGED <<phy, ouiRadios>>
      /\ \A e \in list : e.name \in Names
  BY WiphysStay DEF SteadyInv, IndInv, TypeOK, Entry
<1>1. CASE Exit
  BY <1>1 DEF Exit, ListTrue
<1>2. CASE GotList /\ UNCHANGED <<kernelVars, runs>>
  <2>0. vif' = vif /\ runs' = runs
    BY <1>2 DEF kernelVars
  <2>1. PICK D \in SUBSET Dump(gen + 1) :
             list' = list \cup D /\ (~MayFail => D = Dump(gen + 1))
    BY <1>2, GotListAdds
  <2>2. \A e \in Dump(gen + 1) : Exists(e.name) /\ e.phy = phy[vif[e.name].radio]
    BY DEF Dump
  <2>3. ASSUME NEW n \in Names, Exists(n) PROVE \E e \in Dump(gen + 1) : e.name = n
    <3> DEFINE e == [gen |-> gen + 1, name |-> n, phy |-> phy[vif[n].radio],
                     oui |-> vif[n].oui]
    <3>1. e \in Dump(gen + 1)
      BY <2>3 DEF Dump
    <3>2. e.name = n
      OBVIOUS
    <3> QED
      BY <3>1, <3>2
  <2> QED
    BY <1>0, <2>0, <2>1, <2>2, <2>3 DEF ListTrue, Exists, MayFail
<1>3. CASE Listless
  <2>1. list' = list
    BY <1>3 DEF Listless
  <2>2. ASSUME NEW e \in list, Remains(e.name) PROVE e.phy = phy[vif'[e.name].radio]
    <3>1. e.name \in Names
      BY <1>0
    <3>2. Exists(e.name)
      BY <1>0, <2>2, <3>1, TableStep DEF ListTrue
    <3>3. vif'[e.name].radio = vif[e.name].radio
      BY <1>0, <2>2, <3>1, <3>2, TableStep
    <3> QED
      BY <1>0, <3>2, <3>3 DEF ListTrue
  <2>3. \A e \in list : e.name \in Setup => Remains(e.name)
    BY <1>0, TableStep DEF ListTrue
  <2>4. ~MayFail' /\ pc' \notin {"off", "init"} =>
          \A n \in BaseNames : Remains(n) => \E e \in list : e.name = n
    BY <1>0, <1>3, TableStep DEF ListTrue, Listless, MayFail
  <2> QED
    BY <1>0, <2>1, <2>2, <2>3, <2>4 DEF ListTrue, Exists, Remains
<1> QED
  BY <1>1, <1>2, <1>3, ListCases

Listed(n) == \E e \in list : e.name = n
Behind(n) == (cur = n /\ pc # "create") \/ Finished(n)

\* What the run has created it does not come to again.
LEMMA BehindStays ==
  ASSUME IndInv, [Next]_vars, pc \notin {"off", "init"}, NEW n \in Setup, Behind(n)
  PROVE  Behind(n)' \/ pc' = "off"
<1> USE NamesAssumption DEF Behind, Finished, TiSetUp, UsbSetUp, Goto
<1>1. CASE Exit
  BY <1>1 DEF Exit
<1>2. CASE BringUp
  <2>1. cur \in Setup
    BY <1>2 DEF IndInv, TypeOK, BringUp
  <2> QED
    BY <1>2, <2>1 DEF BringUp
<1>3. CASE SelectTi
  BY <1>3 DEF SelectTi, IndInv, LoopsSpareSetup, Selected
<1>4. CASE AlreadyExists \/ CreateInterface \/ BringDown \/ SetMacAddress
  BY <1>4 DEF AlreadyExists, CreateInterface, BringDown, SetMacAddress, Created
<1>5. CASE Reread \/ FinalRead \/ TiLoopEnds \/ UsbLoopEnds
  BY <1>5 DEF Reread, FinalRead, TiLoopEnds, UsbLoopEnds, IndInv, LoopsSpareSetup
<1>6. CASE DownNext \/ DeleteInterface
  BY <1>6 DEF DownNext, DeleteInterface, Deleting, IndInv, LoopsSpareSetup
<1>7. CASE UNCHANGED vars
  BY <1>7 DEF vars, procVars
<1> QED
  BY <1>1, <1>2, <1>3, <1>4, <1>5, <1>6, <1>7
     DEF Next, Program, InitPasses, InitFails, SelectFails, CreateFails, BringDownFails,
         BringUpFails, RereadFails, Start, Stop

\* No step takes sta0, ap0 or mon0 out of the list's sight.
LEMMA ListKnowsSetupStep == SteadyInv /\ [Next]_vars => ListKnowsSetup'
<1> SUFFICES ASSUME SteadyInv, [Next]_vars, ~MayFail', pc' \notin {"off", "init"},
                    NEW n \in Setup, Remains(n)
             PROVE  Listed(n)' \/ Behind(n)'
  BY DEF ListKnowsSetup, Listed, Behind, Exists, Remains
<1> USE NamesAssumption
<1>0. IndInv /\ ListKnowsSetup
  BY DEF SteadyInv
<1>1. ~Exit
  BY DEF Exit
<1>2. CASE GotList /\ UNCHANGED <<kernelVars, runs>>
  <2> DEFINE e == [gen |-> gen + 1, name |-> n, phy |-> phy[vif[n].radio],
                   oui |-> vif[n].oui]
  <2>1. e \in Dump(gen + 1) /\ e.name = n
    BY <1>2 DEF Dump, Exists, Remains, kernelVars
  <2>2. ~MayFail
    BY <1>2 DEF MayFail
  <2> QED
    BY <1>2, <2>1, <2>2, GotListAdds DEF Listed
<1>3. CASE Listless
  <2>1. list' = list /\ pc \notin {"off", "init"} /\ ~MayFail
    BY <1>3 DEF Listless, MayFail
  <2>2. CASE Exists(n)
    <3>1. Listed(n) \/ Behind(n)
      BY <1>0, <2>1, <2>2 DEF ListKnowsSetup, Listed, Behind
    <3> QED
      BY <1>0, <2>1, <3>1, BehindStays DEF Listed
  <2>3. CASE ~Exists(n)
    <3>1. pc = "create" /\ n = cur /\ CreateInterface
      BY <1>0, <1>1, <2>3, TableStep DEF CreateFails
    <3> QED
      BY <3>1 DEF CreateInterface, Created, Goto, Behind
  <2> QED
    BY <2>2, <2>3
<1> QED
  BY <1>1, <1>2, <1>3, ListCases

\* What is known to exist exists.
LEMMA KnownExists ==
  ASSUME ListTrue, cur \in Setup, NEW p, Known(p, cur) PROVE Exists(cur)
  BY DEF ListTrue, Known

LEMMA WorksOnWhatExists ==
  ASSUME SteadyInv, [Next]_vars, pc' \in {"down", "setmac", "up"}
  PROVE  Exists(cur)'
<1>0. IndInv /\ ListTrue /\ Progress
  BY DEF SteadyInv
<1>1. CASE AlreadyExists
  <2>1. cur \in Setup /\ cur' = cur /\ vif' = vif
    BY <1>0, <1>1 DEF IndInv, TypeOK, AlreadyExists, kernelVars
  <2> QED
    BY <1>0, <1>1, <2>1, KnownExists DEF AlreadyExists, Exists
<1>2. CASE CreateInterface
  <2>1. TypeOK /\ cur \in Setup /\ cur' = cur
    BY <1>0, <1>2 DEF IndInv, TypeOK, CreateInterface
  <2>2. Remains(cur)
    BY <1>2, <2>1, CreateEffect DEF CreateInterface
  <2> QED
    BY <2>1, <2>2 DEF Exists, Remains
<1>3. CASE BringDown \/ SetMacAddress
  <2>1. cur \in Setup /\ cur' = cur /\ Exists(cur)
    BY <1>0, <1>3 DEF IndInv, TypeOK, BringDown, SetMacAddress, Progress
  <2>2. Kept(cur)
    BY <1>0, <1>3, <2>1, BringEffect, SetMacEffect DEF Calm
  <2> QED
    BY <2>1, <2>2 DEF Exists, Kept, Remains
<1>4. CASE UNCHANGED vars
  BY <1>0, <1>4 DEF vars, kernelVars, procVars, Progress, Exists
<1>5. ~Exit
  BY DEF Exit
<1>6. ~BringUp
  BY <1>0 DEF BringUp, Goto, IndInv, TypeOK
<1>7. ~DownNext /\ ~DeleteInterface
  BY DEF DownNext, DeleteInterface, Deleting
<1>8. ~(InitPasses \/ SelectTi \/ Reread \/ FinalRead \/ TiLoopEnds \/ UsbLoopEnds \/ Start)
  BY DEF InitPasses, SelectTi, Reread, FinalRead, TiLoopEnds, UsbLoopEnds, Start, Goto
<1> QED
  BY <1>1, <1>2, <1>3, <1>4, <1>5, <1>6, <1>7, <1>8
     DEF Next, Program, InitFails, SelectFails, CreateFails, BringDownFails, BringUpFails,
         RereadFails, Stop

LEMMA ProgressStep == SteadyInv /\ [Next]_vars => Progress'
<1> SUFFICES ASSUME SteadyInv, [Next]_vars PROVE Progress'
  OBVIOUS
<1>0. IndInv /\ Progress
  BY DEF SteadyInv
<1>1. \A n \in Setup : Remains(n) => vif'[n].type = TypeOf[n]
  BY <1>0, TableStep DEF Progress
<1>2. BringUp => vif'[cur].up /\ Remains(cur)
  BY <1>0, BringEffect DEF Kept
<1>3. BringUp /\ cur = "sta0" => Up("sta0")'
  BY <1>2 DEF Up, Exists, Remains
<1>4. BringUp /\ cur = "ap0" => Up("ap0")'
  BY <1>2 DEF Up, Exists, Remains
<1>5. BringUp /\ cur = "mon0" => Up("mon0")'
  BY <1>2 DEF Up, Exists, Remains
<1>6. BringDown => pc = "down" /\ cur \in {"sta0", "ap0"}
  BY <1>0, BringEffect DEF BringDown
<1>7. cur' = "ap0" \/ TiSetUp' => Up("sta0")'
  <2>1. ASSUME cur = "ap0" \/ TiSetUp PROVE Up("sta0")'
    <3>1. Up("sta0") /\ ~(BringDown /\ cur = "sta0")
      BY <1>0, <1>6, <2>1 DEF Progress, TiSetUp
    <3> QED
      BY <1>0, <3>1, UpStep
  <2> QED
    BY <1>0, <1>3, <2>1, PhaseStep
<1>8. TiSetUp' => Up("ap0")'
  <2>1. ASSUME TiSetUp PROVE Up("ap0")'
    <3>1. Up("ap0") /\ ~(BringDown /\ cur = "ap0")
      BY <1>0, <1>6, <2>1 DEF Progress, TiSetUp
    <3> QED
      BY <1>0, <3>1, UpStep
  <2> QED
    BY <1>0, <1>4, <2>1, PhaseStep
<1>9. UsbSetUp' => Up("mon0")'
  <2>1. ASSUME UsbSetUp PROVE Up("mon0")'
    <3>1. Up("mon0") /\ ~BringDown
      BY <1>0, <1>6, <2>1 DEF Progress, UsbSetUp
    <3> QED
      BY <1>0, <3>1, UpStep
  <2> QED
    BY <1>0, <1>5, <2>1, PhaseStep
<1> QED
  BY <1>1, <1>7, <1>8, <1>9, WorksOnWhatExists DEF Progress, Exists, Remains

\* While a delete loop runs, sta0 and, later, mon0 are there.
LEMMA LoopsRunLate ==
  ASSUME SteadyInv, Deleting
  PROVE  /\ vif["sta0"].radio = "TI" /\ Up("sta0")
         /\ pc = "delTi" => tiPhy = phy["TI"]
         /\ pc = "delUsb" => vif["mon0"].radio = "USB" /\ usbPhy = phy["USB"]
  BY PhysAreRadios
     DEF SteadyInv, IndInv, Deleting, Progress, TiSetUp, UsbSetUp, Up, SetupOnItsRadio,
         RadioOf, Selected, UsbKnown

LEMMA EveryRadioListedStep == SteadyInv /\ [Next]_vars => EveryRadioListed'
<1> SUFFICES ASSUME SteadyInv, [Next]_vars, NEW r \in Radios
             PROVE  \E n \in Names : vif'[n].radio = r
  BY DEF EveryRadioListed
<1>0. IndInv /\ EveryRadioListed /\ Attached /\ LoopsOnPhy
  BY DEF SteadyInv
<1>1. PICK n \in Names : vif[n].radio = r
  BY <1>0 DEF EveryRadioListed
<1>2. Exists(n)
  BY <1>1 DEF Exists
<1>3. CASE Remains(n)
  BY <1>0, <1>1, <1>2, <1>3, TableStep
<1>4. CASE ~Remains(n)
  <2>1. DeleteInterface /\ n = cur
    BY <1>0, <1>2, <1>4, GoneStep
  <2>2. Deleting /\ cur # NoName /\ cur \notin Setup
    BY <1>0, <2>1, DeleteEffect DEF DeleteInterface
  <2>3. phy[r] = LoopPhy
    BY <1>0, <1>1, <1>2, <2>1, <2>2 DEF LoopsOnPhy
  <2>4. \A m \in Setup : vif'[m] = vif[m]
    BY <1>0, <2>1, <2>2, DeleteEffect
  <2>5. CASE r = "TI"
    BY <2>2, <2>4, <2>5, LoopsRunLate
  <2>6. CASE r = "USB"
    <3>1. pc = "delUsb"
      BY <1>0, <2>2, <2>3, <2>6, LoopsRunLate DEF LoopPhy, Attached, Deleting
    <3> QED
      BY <2>2, <2>4, <2>6, <3>1, LoopsRunLate
  <2> QED
    BY <2>5, <2>6
<1> QED
  BY <1>3, <1>4

\* Where a delete loop comes from.
LEMMA LoopCases ==
  ASSUME IndInv, [Next]_vars, pc' \in {"delTi", "delUsb"}
  PROVE  \/ Reread \/ (BringUp /\ cur = "mon0") \/ DownNext \/ DeleteInterface
         \/ UNCHANGED vars
<1>1. BringUp => cur = "mon0"
  BY DEF IndInv, TypeOK, BringUp, Goto
<1>2. ~(\/ InitPasses \/ SelectTi \/ AlreadyExists \/ CreateInterface \/ BringDown
        \/ SetMacAddress \/ FinalRead \/ TiLoopEnds \/ UsbLoopEnds \/ Start \/ Exit)
  BY DEF InitPasses, SelectTi, AlreadyExists, CreateInterface, Created, BringDown,
         SetMacAddress, FinalRead, TiLoopEnds, UsbLoopEnds, Start, Exit, Goto
<1> QED
  BY <1>1, <1>2
     DEF Next, Program, InitFails, SelectFails, CreateFails, BringDownFails, BringUpFails,
         RereadFails, Stop

LEMMA RereadFacts ==
  ASSUME SteadyInv, Reread
  PROVE  /\ pc' = "delTi" /\ cur' = NoName /\ todo' = TiTodo(list') /\ tiPhy' = tiPhy
         /\ vif' = vif /\ phy' = phy /\ tiPhy = phy["TI"] /\ runs' = runs
  BY PhysAreRadios DEF SteadyInv, Reread, Goto, LoopsOnPhy, kernelVars, Selected

LEMMA MonUpFacts ==
  ASSUME SteadyInv, BringUp, cur = "mon0"
  PROVE  /\ pc' = "delUsb" /\ cur' = NoName /\ todo' = UsbTodo /\ usbPhy' = usbPhy
         /\ list' = list /\ phy' = phy /\ usbPhy = phy["USB"] /\ runs' = runs
  BY PhysAreRadios DEF SteadyInv, BringUp, Goto, Selected, UsbKnown

LEMMA LoopsOnPhyStep == SteadyInv /\ [Next]_vars => LoopsOnPhy'
<1> SUFFICES ASSUME SteadyInv, [Next]_vars PROVE LoopsOnPhy'
  OBVIOUS
<1> USE NamesAssumption
<1>0. IndInv /\ LoopsOnPhy /\ ListTrue /\ phy' = phy
  BY WiphysStay DEF SteadyInv
<1>1. ASSUME pc' = "reread" PROVE cur' = NoName
  <2>1. CASE BringUp
    BY <1>1, <2>1 DEF BringUp, Goto
  <2>2. CASE UNCHANGED vars
    BY <1>0, <1>1, <2>2 DEF LoopsOnPhy, vars, procVars
  <2>3. ~(\/ InitPasses \/ SelectTi \/ AlreadyExists \/ CreateInterface \/ BringDown
          \/ SetMacAddress \/ Reread \/ FinalRead \/ TiLoopEnds \/ UsbLoopEnds \/ Start
          \/ Exit \/ DownNext \/ DeleteInterface)
    BY <1>1 DEF InitPasses, SelectTi, AlreadyExists, CreateInterface, Created, BringDown,
         SetMacAddress, Reread, FinalRead, TiLoopEnds, UsbLoopEnds, Start, Exit, Goto,
         DownNext, DeleteInterface, Deleting
  <2> QED
    BY <2>1, <2>2, <2>3
       DEF Next, Program, InitFails, SelectFails, CreateFails, BringDownFails, BringUpFails,
           RereadFails, Stop
<1>2. ASSUME Deleting'
      PROVE  /\ \A e \in todo' : e \in list' /\ e.phy = LoopPhy'
             /\ cur' # NoName /\ Exists(cur)' => phy'[vif'[cur'].radio] = LoopPhy'
  <2>1. CASE Reread
    BY <2>1, RereadFacts DEF TiTodo, LoopPhy
  <2>2. CASE BringUp /\ cur = "mon0"
    BY <2>2, MonUpFacts DEF UsbTodo, LoopPhy
  <2>3. CASE DownNext
    <3>1. PICK e \in todo : cur' = e.name /\ todo' = todo \ {e}
      BY <2>3 DEF DownNext, Oldest
    <3>2. Deleting /\ UNCHANGED <<pc, list, tiPhy, usbPhy>>
      BY <2>3 DEF DownNext
    <3>3. LoopPhy' = LoopPhy /\ e \in list /\ e.phy = LoopPhy /\ e.name \in Names
      BY <1>0, <3>2 DEF LoopPhy, LoopsOnPhy, IndInv, TypeOK, Entry
    <3>4. Kept(e.name)
      BY <1>0, <2>3, <3>3, DownNextEffect
    <3>5. Exists(cur)' => phy'[vif'[cur'].radio] = LoopPhy'
      BY <1>0, <3>1, <3>3, <3>4 DEF Kept, Remains, Exists, ListTrue
    <3> QED
      BY <1>0, <3>1, <3>2, <3>3, <3>5 DEF LoopsOnPhy
  <2>4. CASE DeleteInterface
    BY <1>0, <2>4 DEF DeleteInterface, LoopsOnPhy, LoopPhy
  <2>5. CASE UNCHANGED vars
    BY <1>0, <1>2, <2>5 DEF vars, procVars, kernelVars, LoopsOnPhy, LoopPhy, Deleting, Exists
  <2> QED
    BY <1>0, <1>2, <2>1, <2>2, <2>3, <2>4, <2>5, LoopCases DEF Deleting
<1> QED
  BY <1>1, <1>2 DEF LoopsOnPhy

\* A base interface that is on a radio has been there before.
LEMMA BaseStays ==
  ASSUME IndInv, [Next]_vars, NEW n \in BaseNames, NEW r \in Radios, vif'[n].radio = r
  PROVE  vif[n].radio = r
<1>1. Remains(n) /\ n \in Names
  BY DEF Remains
<1>2. Exists(n)
  BY <1>1, TableStep
<1> QED
  BY <1>1, <1>2, TableStep

LEMMA ClearedStays ==
  ASSUME IndInv, [Next]_vars, NEW r \in Radios, Cleared(r) PROVE Cleared(r)'
  BY BaseStays DEF Cleared

\* A pass through the body of a loop keeps what the loop has still to do.
LEMMA CoveredStays ==
  ASSUME IndInv, [Next]_vars, DownNext \/ (DeleteInterface /\ ~MayFail),
         NEW r \in Radios, Covered(r)
  PROVE  Covered(r)'
<1> SUFFICES ASSUME NEW n \in BaseNames, vif'[n].radio = r
             PROVE  n = cur' \/ \E e \in todo' : e.name = n
  BY DEF Covered
<1> USE NamesAssumption
<1>1. vif[n].radio = r /\ n # NoName
  BY BaseStays
<1>2. n = cur \/ \E e \in todo : e.name = n
  BY <1>1 DEF Covered
<1>3. CASE DownNext
  <2>1. PICK e \in todo : cur = NoName /\ cur' = e.name /\ todo' = todo \ {e}
    BY <1>3 DEF DownNext, Oldest
  <2> QED
    BY <1>1, <1>2, <2>1
<1>4. CASE DeleteInterface /\ ~MayFail
  <2>1. n # cur
    BY <1>4, DeleteEffect DEF Remains
  <2>2. todo' = todo
    BY <1>4 DEF DeleteInterface
  <2> QED
    BY <1>2, <2>1, <2>2
<1> QED
  BY <1>3, <1>4

\* When the body has nothing left to visit, it has visited everything.
LEMMA CoveredIsCleared ==
  ASSUME NEW r \in Radios, Covered(r), cur = NoName, todo = {} PROVE Cleared(r)
  BY NamesAssumption DEF Covered, Cleared

\* Whether calls may fail is settled when a run starts.
LEMMA RunStays ==
  ASSUME [Next]_vars
  PROVE  runs' = runs \/ (Start /\ runs' = runs + 1)
  BY DEF Next, Program, InitPasses, InitFails, SelectTi, SelectFails, AlreadyExists,
         CreateInterface, CreateFails, BringDown, SetMacAddress, BringUp, DownNext,
         DeleteInterface, BringDownFails, BringUpFails, Reread, FinalRead, RereadFails,
         TiLoopEnds, UsbLoopEnds, Start, Stop, vars

LEMMA LoopsCompleteStep == SteadyInv /\ [Next]_vars => LoopsComplete'
<1> SUFFICES ASSUME SteadyInv, [Next]_vars, ~MayFail' PROVE
        /\ pc' = "delTi" => Covered("TI")'
        /\ cur' = "mon0" \/ UsbSetUp' => Cleared("TI")'
        /\ pc' = "delUsb" => Covered("USB")'
        /\ pc' \in {"finalread", "ready"} => Cleared("USB")'
  BY DEF LoopsComplete
<1> USE NamesAssumption
<1>0. IndInv /\ LoopsOnPhy /\ ListTrue /\ LoopsComplete /\ phy' = phy
  BY WiphysStay DEF SteadyInv
<1>1. CASE Start
  <2>1. pc = "off" /\ pc' = "init" /\ cur' = cur
    BY <1>1 DEF Start, Goto
  <2>2. cur # "mon0"
    BY <1>0, <2>1 DEF IndInv, LoopsSpareSetup, Selected
  <2> QED
    BY <2>1, <2>2 DEF UsbSetUp
<1>2. CASE runs' = runs
  <2>0. ~MayFail
    BY <1>2 DEF MayFail
  <2>1. ASSUME pc' = "delTi" PROVE Covered("TI")'
    <3>1. CASE Reread
      <4> SUFFICES ASSUME NEW n \in BaseNames, vif'[n].radio = "TI"
                   PROVE  \E e \in todo' : e.name = n
        BY DEF Covered
      <4>1. ListTrue' /\ Exists(n)'
        BY ListTrueStep DEF Exists
      <4>2. PICK e \in list' : e.name = n
        BY <4>1, <2>1 DEF ListTrue
      <4>3. e.phy = phy'["TI"]
        BY <4>1, <4>2 DEF ListTrue
      <4>4. todo' = { d \in list' : d.phy = phy["TI"] /\ d.name \notin {"ap0", "sta0"} }
        BY <3>1, RereadFacts DEF TiTodo
      <4> QED
        BY <1>0, <4>2, <4>3, <4>4
    <3>2. CASE DownNext \/ DeleteInterface
      <4>1. pc = "delTi"
        BY <2>1, <3>2 DEF DownNext, DeleteInterface
      <4> QED
        BY <1>0, <2>0, <3>2, <4>1, CoveredStays DEF LoopsComplete
    <3>3. CASE UNCHANGED vars
      BY <1>0, <2>0, <2>1, <3>3 DEF vars, procVars, kernelVars, LoopsComplete, Covered
    <3>4. ~BringUp \/ cur # "mon0"
      BY <2>1, MonUpFacts
    <3> QED
      BY <1>0, <2>1, <3>1, <3>2, <3>3, <3>4, LoopCases
  <2>2. ASSUME pc' = "delUsb" PROVE Covered("USB")'
    <3>1. CASE BringUp /\ cur = "mon0"
      <4> SUFFICES ASSUME NEW n \in BaseNames, vif'[n].radio = "USB"
                   PROVE  \E e \in todo' : e.name = n
        BY DEF Covered
      <4>1. ListTrue' /\ Exists(n)' /\ list' = list
        BY <3>1, ListTrueStep, MonUpFacts DEF Exists
      <4>2. PICK e \in list : e.name = n
        BY <2>2, <4>1 DEF ListTrue
      <4>3. e.phy = phy["USB"]
        BY <1>0, <4>1, <4>2 DEF ListTrue
      <4>4. todo' = { d \in list : d.phy = phy["USB"] /\ d.name # "mon0" }
        BY <3>1, MonUpFacts DEF UsbTodo
      <4> QED
        BY <4>2, <4>3, <4>4
    <3>2. CASE DownNext \/ DeleteInterface
      <4>1. pc = "delUsb"
        BY <2>2, <3>2 DEF DownNext, DeleteInterface
      <4> QED
        BY <1>0, <2>0, <3>2, <4>1, CoveredStays DEF LoopsComplete
    <3>3. CASE UNCHANGED vars
      BY <1>0, <2>0, <2>2, <3>3 DEF vars, procVars, kernelVars, LoopsComplete, Covered
    <3>4. ~Reread
      BY <2>2, RereadFacts
    <3> QED
      BY <1>0, <2>2, <3>1, <3>2, <3>3, <3>4, LoopCases
  <2>3. ASSUME cur' = "mon0" \/ UsbSetUp' PROVE Cleared("TI")'
    <3>1. CASE cur = "mon0" \/ UsbSetUp
      BY <1>0, <2>0, <3>1, ClearedStays DEF LoopsComplete
    <3>2. CASE TiLoopEnds
      BY <1>0, <2>0, <3>2, CoveredIsCleared, ClearedStays DEF TiLoopEnds, LoopsComplete
    <3>3. CASE ~(cur = "mon0" \/ UsbSetUp) /\ ~TiLoopEnds
      <4>1. ~UsbSetUp'
        BY <1>0, <3>3, PhaseStep
      <4>2. cur' # "mon0"
        <5>1. CASE Exit
          BY <5>1 DEF Exit
        <5>2. CASE BringUp \/ SelectTi \/ DeleteInterface
          BY <5>2 DEF BringUp, SelectTi, DeleteInterface
        <5>3. CASE DownNext
          BY <1>0, <5>3 DEF DownNext, Oldest, IndInv, LoopsSpareSetup
        <5> QED
          BY <3>3, <5>1, <5>2, <5>3
             DEF Next, Program, InitPasses, InitFails, SelectFails, AlreadyExists,
                 CreateInterface, CreateFails, BringDown, SetMacAddress, BringDownFails,
                 BringUpFails, Reread, FinalRead, RereadFails, UsbLoopEnds, Start, Stop,
                 vars, procVars
      <4> QED
        BY <2>3, <4>1, <4>2
    <3> QED
      BY <3>1, <3>2, <3>3
  <2>4. ASSUME pc' \in {"finalread", "ready"} PROVE Cleared("USB")'
    <3>1. CASE pc \in {"finalread", "ready"}
      BY <1>0, <2>0, <3>1, ClearedStays DEF LoopsComplete
    <3>2. CASE UsbLoopEnds
      BY <1>0, <2>0, <3>2, CoveredIsCleared, ClearedStays DEF UsbLoopEnds, LoopsComplete
    <3>3. pc \in {"finalread", "ready"} \/ UsbLoopEnds
      <4>1. ~(\/ InitPasses \/ SelectTi \/ AlreadyExists \/ CreateInterface \/ BringDown
              \/ SetMacAddress \/ Reread \/ TiLoopEnds \/ Start \/ Exit)
        BY <2>4 DEF InitPasses, SelectTi, AlreadyExists, CreateInterface, Created, BringDown,
             SetMacAddress, Reread, TiLoopEnds, Start, Exit, Goto
      <4>2. ~BringUp
        BY <1>0, <2>4 DEF BringUp, Goto, IndInv, TypeOK
      <4>3. DownNext \/ DeleteInterface \/ UNCHANGED vars => pc' = pc
        BY DEF DownNext, DeleteInterface, vars, procVars
      <4>4. FinalRead => pc = "finalread"
        BY DEF FinalRead
      <4> QED
        BY <2>4, <4>1, <4>2, <4>3, <4>4
           DEF Next, Program, InitFails, SelectFails, CreateFails, BringDownFails,
               BringUpFails, RereadFails, Stop
    <3> QED
      BY <3>1, <3>2, <3>3
  <2> QED
    BY <2>1, <2>2, <2>3, <2>4
<1> QED
  BY <1>1, <1>2, RunStays

LEMMA FirstRunStep == SteadyInv /\ [Next]_vars => FirstRun'
<1> SUFFICES ASSUME SteadyInv, [Next]_vars PROVE FirstRun'
  OBVIOUS
<1>0. IndInv /\ ListTrue /\ FirstRun /\ runs \in Nat
  BY DEF SteadyInv, IndInv, TypeOK
<1>1. CASE UNCHANGED vars
  BY <1>0, <1>1 DEF vars, kernelVars, procVars, FirstRun, Exists
<1>2. CASE Start
  BY <1>0, <1>2 DEF Start, FirstRun, Goto, kernelVars, Exists
<1>3. CASE Exit
  <2>1. pc # "off" \/ UNCHANGED vars
    BY <1>3 DEF Next, Program, InitPasses, InitFails, SelectTi, SelectFails, AlreadyExists,
         CreateInterface, CreateFails, BringDown, SetMacAddress, BringUp, DownNext,
         DeleteInterface, BringDownFails, BringUpFails, Reread, FinalRead, RereadFails,
         TiLoopEnds, UsbLoopEnds, Start, Stop, Deleting, Goto, Exit
  <2>2. CASE pc # "off"
    BY <1>0, <1>3, <2>2, RunStays DEF Exit, FirstRun, Start
  <2> QED
    BY <1>1, <2>1, <2>2
<1>4. CASE InitPasses \/ SelectTi
  BY <1>0, <1>4 DEF InitPasses, SelectTi, FirstRun, Goto, kernelVars, Exists
<1>5. CASE AlreadyExists
  <2>1. cur \in Setup /\ pc = "create" /\ runs' = runs /\ cur' = cur /\ vif' = vif
        /\ pc' \in {"up", "down"}
    BY <1>0, <1>5 DEF AlreadyExists, IndInv, TypeOK, Created, Goto, kernelVars
  <2>2. Exists(cur)
    BY <1>0, <1>5, <2>1, KnownExists DEF AlreadyExists
  <2> QED
    BY <1>0, <2>1, <2>2 DEF FirstRun
<1>6. CASE CreateInterface
  <2>1. cur \in Setup /\ pc = "create" /\ runs' = runs /\ cur' = cur /\ TypeOK
        /\ pc' \in {"up", "down"}
    BY <1>0, <1>6 DEF CreateInterface, IndInv, TypeOK, Created, Goto
  <2>2. ~vif'[cur].up
    BY <1>6, <2>1, CreateEffect DEF CreateInterface
  <2> QED
    BY <1>0, <2>1, <2>2 DEF FirstRun
<1>7. CASE BringDown \/ SetMacAddress \/ Reread \/ FinalRead \/ UsbLoopEnds \/ TiLoopEnds
  BY <1>0, <1>7 DEF BringDown, SetMacAddress, Reread, FinalRead, UsbLoopEnds, TiLoopEnds,
                    FirstRun, Goto
<1>8. CASE BringUp
  BY <1>0, <1>8 DEF BringUp, FirstRun, Goto
<1>9. CASE DownNext \/ DeleteInterface
  BY <1>0, <1>9 DEF DownNext, DeleteInterface, Deleting, FirstRun
<1> QED
  BY <1>1, <1>2, <1>3, <1>4, <1>5, <1>6, <1>7, <1>8, <1>9
     DEF Next, Program, InitFails, SelectFails, CreateFails, BringDownFails, BringUpFails,
         RereadFails, Stop

LEMMA InitSteady == Init => SteadyInv
<1> SUFFICES ASSUME Init PROVE SteadyInv
  OBVIOUS
<1> USE NamesAssumption
<1>1. PICK b \in BaseNames, c \in BaseNames, u \in BOOLEAN, v \in BOOLEAN :
         /\ b # c
         /\ vif = [n \in Names |-> IF n = b THEN NewVif("TI", "station", u)
                                   ELSE IF n = c THEN NewVif("USB", "station", v)
                                   ELSE Absent]
  BY DEF Init
<1>2. vif[b].radio = "TI" /\ vif[c].radio = "USB"
  BY <1>1, NewVifFields
<1>3. \A n \in Setup : vif[n] = Absent
  BY <1>1
<1>4. \A n \in Setup : ~Exists(n)
  BY <1>3 DEF Exists, Absent
<1>5. /\ pc = "off" /\ list = {} /\ todo = {} /\ cur = NoName /\ runs = 0 /\ nextPhy = 2
      /\ phy["TI"] \in {0, 1} /\ phy["USB"] \in {0, 1} /\ phy["TI"] # phy["USB"]
  BY DEF Init
<1>6. EveryRadioListed
  BY <1>1, <1>2 DEF EveryRadioListed
<1>7. Attached /\ ListTrue /\ ListKnowsSetup /\ LoopsOnPhy /\ LoopsComplete /\ FirstRun
  BY <1>4, <1>5 DEF Attached, ListTrue, ListKnowsSetup, LoopsOnPhy, LoopsComplete, FirstRun, Deleting, UsbSetUp
<1>8. Progress
  BY <1>4, <1>5 DEF Progress, TiSetUp, UsbSetUp
<1> QED
  BY <1>6, <1>7, <1>8, InitEstablishes DEF SteadyInv

LEMMA SteadyStep == SteadyInv /\ [Next]_vars => SteadyInv'
<1>1. SteadyInv /\ [Next]_vars => Attached'
  BY WiphysStay DEF SteadyInv, Attached
<1> QED
  BY <1>1, IndStep, ListTrueStep, ListKnowsSetupStep, ProgressStep, EveryRadioListedStep,
     LoopsOnPhyStep, LoopsCompleteStep, FirstRunStep DEF SteadyInv

(***************************************************************************)
(* The theorems.                                                           *)
(***************************************************************************)
\* The whole invariant, for any number of runs, failures and deaths.
THEOREM SteadyInvariance == Spec => []SteadyInv
  BY InitSteady, SteadyStep, PTL DEF Spec

\* However start-up fails, is killed and begins again, each radio keeps an
\* interface, so that the next Init() finds both physical devices.
THEOREM RadiosStayListed == Spec => []EveryRadioListed
<1>1. SteadyInv => EveryRadioListed
  BY DEF SteadyInv
<1> QED
  BY <1>1, SteadyInvariance, PTL

\* When main() reports success, sta0, ap0 and mon0 are there, active, of their
\* types and on their radios, whichever of them an earlier run had left.
THEOREM SuccessMeansReady == Spec => []ReadyForHostapd
<1>1. SteadyInv => ReadyForHostapd
  <2> SUFFICES ASSUME SteadyInv, pc = "ready"
               PROVE  \A n \in Setup : /\ vif[n].radio = RadioOf(n)
                                       /\ vif[n].type = TypeOf[n] /\ vif[n].up
    BY DEF ReadyForHostapd
  <2>1. \A n \in Setup : Up(n)
    BY DEF SteadyInv, Progress, TiSetUp, UsbSetUp
  <2> QED
    BY <2>1 DEF SteadyInv, IndInv, SetupOnItsRadio, Progress, Up
<1> QED
  BY <1>1, SteadyInvariance, PTL

\* A run in which no call failed leaves only the three, whatever base interfaces
\* the runs before it left.
THEOREM NothingElseRemains == Spec => []OnlySetupRemains
<1>1. SteadyInv => OnlySetupRemains
  <2> SUFFICES ASSUME SteadyInv, pc = "ready", ~MayFail, NEW n \in BaseNames PROVE ~Exists(n)
    BY DEF OnlySetupRemains
  <2>1. vif[n].radio \notin {"TI", "USB"}
    BY DEF SteadyInv, LoopsComplete, UsbSetUp, Cleared
  <2> QED
    BY <2>1 DEF SteadyInv, IndInv, VifsConsistent
<1> QED
  BY <1>1, SteadyInvariance, PTL

\* A delete loop deletes interfaces of the radio it is cleaning only.
THEOREM LoopsDeleteTheirOwn == Spec => DeletesOnlyItsPhy
<1>1. SteadyInv /\ [Next]_vars =>
        [\A n \in Names : Deleting /\ Exists(n) /\ ~Exists(n)' /\ phy' = phy =>
            phy[vif[n].radio] = IF pc = "delTi" THEN tiPhy ELSE usbPhy]_vars
  <2> SUFFICES ASSUME SteadyInv, [Next]_vars, NEW n \in Names,
                      Deleting, Exists(n), ~Exists(n)'
               PROVE  phy[vif[n].radio] = IF pc = "delTi" THEN tiPhy ELSE usbPhy
    OBVIOUS
  <2>1. ~Remains(n)
    BY DEF Exists, Remains
  <2>2. DeleteInterface /\ n = cur
    BY <2>1, GoneStep DEF SteadyInv
  <2> QED
    BY <2>2 DEF SteadyInv, LoopsOnPhy, LoopPhy, DeleteInterface
<1> QED
  BY <1>1, SteadyInvariance, PTL DEF Spec, DeletesOnlyItsPhy

\* The first read of a run finds the two radios, whatever was deleted before.
LEMMA BothRadiosFound ==
  ASSUME SteadyInv, pc = "init" PROVE TwoPhys(list \cup Dump(gen + 1))
<1>1. IndInv /\ Attached /\ EveryRadioListed /\ list = {}
  BY DEF SteadyInv, IndInv, FirstRead
<1>2. \A r \in Radios : phy[r] \in PhysOf(Dump(gen + 1))
  <2> TAKE r \in Radios
  <2>1. PICK n \in Names : vif[n].radio = r
    BY <1>1 DEF EveryRadioListed
  <2> DEFINE e == [gen |-> gen + 1, name |-> n, phy |-> phy[vif[n].radio],
                   oui |-> vif[n].oui]
  <2>2. e \in Dump(gen + 1) /\ e.phy = phy[r]
    BY <2>1 DEF Dump, Exists
  <2> QED
    BY <2>2 DEF PhysOf
<1>3. \A p \in PhysOf(Dump(gen + 1)) : \E r \in Radios : p = phy[r]
  BY <1>1, DumpFacts DEF PhysOf
<1>4. PhysOf(Dump(gen + 1)) = {phy["TI"], phy["USB"]}
  BY <1>2, <1>3
<1> QED
  BY <1>1, <1>4 DEF TwoPhys, Attached

\* When no call fails an interface of an earlier run is found in the list, and its
\* radio is there.
LEMMA CreationPossible ==
  ASSUME SteadyInv, ~MayFail, pc = "create", ~Known(TargetPhy, cur)
  PROVE  ~Exists(cur) /\ \E r \in Radios : phy[r] = TargetPhy
<1>1. /\ IndInv /\ Attached /\ ListTrue /\ ListKnowsSetup
      /\ cur \in Setup /\ Selected /\ (cur = "mon0" => UsbKnown)
  BY DEF SteadyInv, IndInv, TypeOK, Selected, UsbKnown
<1>2. TargetPhy = phy[RadioOf(cur)]
  BY <1>1, PhysAreRadios DEF TargetPhy, RadioOf
<1>3. ASSUME Exists(cur) PROVE FALSE
  <2>1. ~Finished(cur)
    BY <1>1 DEF Finished, TiSetUp, UsbSetUp
  <2>2. PICK e \in list : e.name = cur
    BY <1>1, <1>3, <2>1 DEF ListKnowsSetup
  <2>3. e.phy = phy[vif[cur].radio]
    BY <1>1, <1>3, <2>2 DEF ListTrue
  <2>4. vif[cur].radio = RadioOf(cur)
    BY <1>1, <1>3 DEF IndInv, SetupOnItsRadio
  <2> QED
    BY <1>2, <2>2, <2>3, <2>4 DEF Known
<1> QED
  BY <1>2, <1>3 DEF RadioOf

\* A run gives up only when a call of its own fails, without a TI address, or
\* when the driver refuses an address: not because of what it finds.
THEOREM RunsGiveUpForCause == Spec => GivesUpForCause
<1>1. SteadyInv /\ [Next]_vars =>
        [pc \notin {"off", "ready"} /\ pc' = "off" =>
            MayFail \/ ouiRadios = {} \/ (pc = "up" /\ MacClash(cur))]_vars
  <2> SUFFICES ASSUME SteadyInv, [Next]_vars, pc \notin {"off", "ready"}, pc' = "off",
                      ~MayFail, ouiRadios # {}
               PROVE  pc = "up" /\ MacClash(cur)
    OBVIOUS
  <2>0. IndInv /\ Progress /\ ouiRadios = {"TI"}
    BY DEF SteadyInv, IndInv, TypeOK
  <2>1. ~InitFails
    BY BothRadiosFound DEF InitFails
  <2>2. ~SelectFails
    <3> SUFFICES ASSUME pc = "select" PROVE TiEntries # {}
      BY DEF SelectFails
    <3>1. PICK e \in list, f \in list : e.gen = 1 /\ f.gen = 1 /\ e.phy # f.phy
      BY <2>0 DEF IndInv, FirstRead
    <3>2. e.oui # f.oui /\ e.oui \in BOOLEAN /\ f.oui \in BOOLEAN
      BY <2>0, <3>1 DEF IndInv, FirstRead, TypeOK, Entry
    <3> QED
      BY <3>2 DEF TiEntries
  <2>3. ~CreateFails
    BY CreationPossible DEF CreateFails
  <2>4. ~BringDownFails /\ ~RereadFails /\ ~Stop
    BY <2>0 DEF BringDownFails, RereadFails, Stop, Progress
  <2>5. BringUpFails => pc = "up" /\ MacClash(cur)
    BY <2>0 DEF BringUpFails, Progress
  <2>6. BringUpFails
    BY <2>1, <2>2, <2>3, <2>4
       DEF Next, Program, InitPasses, SelectTi, AlreadyExists, CreateInterface, BringDown,
           SetMacAddress, BringUp, Reread, FinalRead, DownNext, DeleteInterface, TiLoopEnds,
           UsbLoopEnds, Start, Created, Deleting, Goto, vars, procVars
  <2> QED
    BY <2>5, <2>6
<1> QED
  BY <1>1, SteadyInvariance, PTL DEF Spec, GivesUpForCause

\* The last active interface of the TI chip is taken down in one case only: a
\* run that finds an sta0 of an earlier one, and nothing else active.
THEOREM BlackoutIsAtRestart == Spec => BlackoutOnlyAtRestart
<1>1. SteadyInv /\ [Next]_vars =>
        [TiActive /\ ~TiActive' => runs > 1 /\ pc = "down" /\ cur = "sta0"]_vars
  <2> SUFFICES ASSUME SteadyInv, [Next]_vars, TiActive, ~TiActive'
               PROVE  runs > 1 /\ pc = "down" /\ cur = "sta0"
    OBVIOUS
  <2>0. IndInv /\ IndInv' /\ Progress /\ FirstRun /\ runs \in Nat
    BY IndStep DEF SteadyInv, IndInv, TypeOK
  <2>1. ~Up("sta0")'
    BY <2>0 DEF Up, TiActive, IndInv, SetupOnItsRadio, RadioOf
  <2>2. ~(cur = "ap0" \/ TiSetUp)
    <3>1. ASSUME cur = "ap0" \/ TiSetUp PROVE FALSE
      <4>1. Up("sta0") /\ ~(BringDown /\ cur = "sta0")
        BY <2>0, <3>1 DEF Progress, BringDown, TiSetUp
      <4> QED
        BY <2>0, <2>1, <4>1, UpStep
    <3> QED
      BY <3>1
  <2>3. PICK n \in Names : vif[n].radio = "TI" /\ vif[n].up
    BY DEF TiActive
  <2>4. Exists(n) /\ ~(vif'[n].up /\ vif'[n].radio = vif[n].radio)
    BY <2>3 DEF Exists, TiActive
  <2>5. ~Deleting
    BY <2>2 DEF Deleting, TiSetUp
  <2>6. BringDown /\ n = cur
    BY <2>0, <2>3, <2>4, <2>5, DownStep
  <2>7. pc = "down" /\ cur = "sta0"
    BY <2>0, <2>2, <2>6, BringEffect DEF BringDown
  <2> QED
    BY <2>0, <2>3, <2>6, <2>7 DEF FirstRun
<1> QED
  BY <1>1, SteadyInvariance, PTL DEF Spec, BlackoutOnlyAtRestart
=============================================================================
