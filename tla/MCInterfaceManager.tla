------------------------- MODULE MCInterfaceManager -------------------------
(***************************************************************************)
(* The instances of InterfaceManager that TLC explores; the .cfg files     *)
(* IM_*.cfg give the constants their values.                               *)
(***************************************************************************)
EXTENDS InterfaceManager
=============================================================================
