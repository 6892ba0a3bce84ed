----------------------------- MODULE MCIfIoctls -----------------------------
(***************************************************************************)
(* The instances of IfIoctls that TLC explores; the .cfg files IO_*.cfg    *)
(* give the constants their values.                                        *)
(***************************************************************************)
EXTENDS IfIoctls
=============================================================================
