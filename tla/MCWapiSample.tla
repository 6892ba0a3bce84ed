---------------------------- MODULE MCWapiSample ----------------------------
(***************************************************************************)
(* The instance of WapiSample that TLC explores.  Frequencies have up to   *)
(* six digits and lose those after the third when they have more than four;*)
(* the interface is on a frequency of four digits, written in two ways, on *)
(* one of six digits that ends in zeros, as real ones do, or on one that   *)
(* does not.                                                               *)
(***************************************************************************)
EXTENDS WapiSample

MCTables == { [wireless |-> <<"wlan0", "mon0">>, route |-> <<"r1", "r2">>] }

MCFaultSets == { {"fopen", "read"}, {"malloc"}, {"socket", "ioctl"} }

MCPow == [e \in 0..6 |-> 10^e]

Q(m, e) == [m |-> m, e |-> e]

MCChannels == << [freq |-> Q(241, 1), i |-> 1], [freq |-> Q(5180, 2), i |-> 36] >>

MCConf(q, flags, mode, off) ==
  [ip |-> 1, netmask |-> 1, ap |-> 1, mode |-> mode,
   freq    |-> [q |-> q, flags |-> flags],
   essid   |-> [name |-> 1, junk |-> FALSE, flags |-> {"on"}],
   bitrate |-> [value |-> 1, fixed |-> TRUE, disabled |-> off],
   txpower |-> [value |-> 1, flags |-> {"mwatt"}, disabled |-> FALSE]]

MCConfs == { MCConf(Q(2410, 0), {"fixed"}, 2, FALSE), MCConf(Q(518, 3), {}, 7, TRUE),
             MCConf(Q(518123, 0), {"fixed"}, 2, FALSE) }

MCValues == [ip |-> {2}, netmask |-> {2},
             essid |-> {[name |-> 2, junk |-> FALSE, flags |-> {}]}]

MCResults == { <<>>, <<1, 2>> }
=============================================================================
