----------------------------- MODULE MCWireless -----------------------------
(***************************************************************************)
(* The instance of Wireless that TLC explores: three access points, one    *)
(* that reports its frequency twice and its bit rates in falling order, as *)
(* cfg80211 may, one of a mode wireless.c does not know, and one of which  *)
(* the address alone is reported.                                          *)
(***************************************************************************)
EXTENDS Wireless

E(k, v) == [cmd |-> k, val |-> v]

MCReport ==
  [a \in Aps |->
     CASE a = 1 -> <<E("freq", 1), E("freq", 2), E("mode", 2), E("rate", 2), E("rate", 1)>>
       [] a = 2 -> <<E("essid", 1), E("other", 1), E("mode", 7)>>
       [] OTHER -> <<>>]
=============================================================================
