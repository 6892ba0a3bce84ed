----------------------- MODULE MCChannelSetterNl80211 -----------------------
(***************************************************************************)
(* The instances of ChannelSetterNl80211 that TLC explores; the .cfg files *)
(* CS_*.cfg give the constants their values.                               *)
(***************************************************************************)
EXTENDS ChannelSetterNl80211
=============================================================================
