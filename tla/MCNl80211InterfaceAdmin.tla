---------------------- MODULE MCNl80211InterfaceAdmin ----------------------
(***************************************************************************)
(* The instances of Nl80211InterfaceAdmin that TLC explores; the .cfg      *)
(* files NL_*.cfg give the constants their values.                         *)
(***************************************************************************)
EXTENDS Nl80211InterfaceAdmin
=============================================================================
