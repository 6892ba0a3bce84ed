-------------------------- MODULE Nl80211Requests --------------------------
(***************************************************************************)
(* What a caller of Nl80211InterfaceAdmin may rely on: a call reaches the  *)
(* kernel at most once, true means that the kernel carried it out as       *)
(* asked, and false means that the caller cannot know.  A list can lack    *)
(* interfaces, also when it was read with success.  InterfaceManager       *)
(* takes GetInterfaceList(), CreateXxxInterface() and DeleteInterface() to *)
(* be such calls.                                                          *)
(***************************************************************************)
EXTENDS Integers, Sequences

CONSTANTS
  Names,    \* interface names
  AnyName,  \* the name of a call that is about no interface in particular
  NoCall,   \* no call is being made
  MayLose   \* can replies of a dump be lost?

VARIABLES
  ifaces,     \* the kernel's interfaces: the ifindex of each name, 0 if none
  nextIndex,  \* the ifindex of the next interface
  call,       \* the call being made: [cmd, name], or NoCall
  target,     \* the ifindex a delete is about
  served,     \* has the kernel carried the current call out?
  missing,    \* the interfaces the dump being read has still to report
  lost,       \* those it had to report and no longer will
  list,       \* m_interfaces, as the sequence of the names appended
  result      \* what the last call returned

vars == <<ifaces, nextIndex, call, target, served, missing, lost, list, result>>

Calls == [cmd : {"get", "new", "del"}, name : Names \cup {AnyName}]

Init ==
  /\ ifaces \in [Names -> Nat] /\ nextIndex \in Nat
  /\ \A n \in Names : ifaces[n] < nextIndex
  /\ call = NoCall /\ target = 0 /\ served = FALSE
  /\ missing = {} /\ lost = {}
  /\ list = <<>> /\ result = TRUE

Begin ==
  /\ call = NoCall
  /\ call' \in Calls
  /\ target' = IF call'.cmd = "del" THEN ifaces[call'.name] ELSE 0
  /\ UNCHANGED <<ifaces, nextIndex, served, missing, lost, list, result>>

\* A call may be turned down before it is made.
Reject ==
  /\ call = NoCall
  /\ result' = FALSE
  /\ UNCHANGED <<ifaces, nextIndex, call, target, served, missing, lost, list>>

\* The kernel carries the call out, once.
Serve ==
  /\ call # NoCall /\ ~served
  /\ served' = TRUE
  /\ \/ /\ call.cmd = "get"
        /\ missing' = { n \in Names : ifaces[n] # 0 }
        /\ UNCHANGED <<ifaces, nextIndex>>
     \/ /\ call.cmd = "new" /\ ifaces[call.name] = 0
        /\ ifaces' = [ifaces EXCEPT ![call.name] = nextIndex]
        /\ nextIndex' = nextIndex + 1
        /\ UNCHANGED missing
     \/ /\ call.cmd = "del"
        /\ \E n \in Names : /\ ifaces[n] = target /\ target # 0
                            /\ ifaces' = [ifaces EXCEPT ![n] = 0]
        /\ UNCHANGED <<nextIndex, missing>>
  /\ UNCHANGED <<call, target, lost, list, result>>

\* An interface of the dump is appended to the list, each once.
Report ==
  /\ \E n \in missing : list' = Append(list, n) /\ missing' = missing \ {n}
  /\ UNCHANGED <<ifaces, nextIndex, call, target, served, lost, result>>

\* An interface of the dump never gets into the list, and nobody is told.
Lose ==
  /\ MayLose
  /\ \E n \in missing : lost' = lost \cup {n} /\ missing' = missing \ {n}
  /\ UNCHANGED <<ifaces, nextIndex, call, target, served, list, result>>

\* True: the call was carried out, and a dump was read to its end: but for what
\* was lost the list has every interface of it.
Return ==
  /\ call # NoCall
  /\ \/ served /\ missing = {} /\ result' = TRUE
     \/ result' = FALSE
  /\ call' = NoCall /\ target' = 0 /\ served' = FALSE
  /\ missing' = {} /\ lost' = {}
  /\ UNCHANGED <<ifaces, nextIndex, list>>

\* Radios come and go: an interface appears or disappears on its own.
Others ==
  /\ \E n \in Names :
        \/ /\ ifaces[n] # 0 /\ ifaces' = [ifaces EXCEPT ![n] = 0]
           /\ UNCHANGED nextIndex
        \/ /\ ifaces[n] = 0 /\ ifaces' = [ifaces EXCEPT ![n] = nextIndex]
           /\ nextIndex' = nextIndex + 1
  /\ UNCHANGED <<call, target, served, missing, lost, list, result>>

Next == Begin \/ Reject \/ Serve \/ Report \/ Lose \/ Return \/ Others

Spec == Init /\ [][Next]_vars
=============================================================================
