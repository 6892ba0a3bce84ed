--------------------------- MODULE WapiAccessors ---------------------------
(***************************************************************************)
(* The getters and setters of wireless.c and network.c: what a getter may  *)
(* make of a setting of the interface, and what a setter may make of a     *)
(* value.  Each is one ioctl on a structure of the caller's stack, of      *)
(* which a setter fills only some fields.                                  *)
(***************************************************************************)
EXTENDS WapiUnits, Sequences

\* In the order in which the sample program goes through them.
Settings == <<"ip", "netmask", "freq", "essid", "mode", "ap", "bitrate", "txpower">>

\* Flag words, as the set of their bits.  Two of the masks have none.
IW_FREQ_AUTO       == {}
IW_FREQ_FIXED      == {"fixed"}
IW_TXPOW_DBM       == {}
IW_TXPOW_MWATT     == {"mwatt"}
IW_TXPOW_RELATIVE  == {"relative"}

\* (flags & mask) == mask
Has(flags, mask) == mask \subseteq flags

\* What the kernel keeps of an interface: a value of its type for each setting.
SettingNames == {"ip", "netmask", "freq", "essid", "mode", "ap", "bitrate", "txpower"}

Setting(s) ==
  CASE s = "freq"    -> [q : IwFreq, flags : SUBSET {"fixed"}]
    [] s = "essid"   -> [name : Nat, junk : BOOLEAN, flags : SUBSET {"on"}]
    [] s = "mode"    -> 0..7
    [] s = "bitrate" -> [value : Nat, fixed : BOOLEAN, disabled : BOOLEAN]
    [] s = "txpower" -> [value : Nat, flags : SUBSET {"mwatt", "relative"}, disabled : BOOLEAN]
    [] OTHER         -> Nat

IsConf(c) ==
  c = [s \in SettingNames |-> c[s]] /\ \A s \in SettingNames : c[s] \in Setting(s)

(***************************************************************************)
(* Getters: the set of what they may give, empty when they return -1.      *)
(***************************************************************************)
GetFreq(v) ==
  { [freq |-> Freq2Float(v.q), flag |-> f] :
      f \in IF Has(v.flags, IW_FREQ_AUTO) THEN {"AUTO"}
            ELSE IF Has(v.flags, IW_FREQ_FIXED) THEN {"FIXED"} ELSE {} }

\* The kernel writes the name without a terminator into a buffer nothing was
\* written to: as a string it may go on.
GetEssid(v) ==
  { [string |-> [name |-> v.name, junk |-> j],
     flag |-> IF v.flags # {} THEN "ON" ELSE "OFF"] : j \in {v.junk, TRUE} }

\* wapi_get_ip(), wapi_get_netmask() and wapi_get_ap() copy the whole address.
GetAddr(v) == {v}
GetAp(v)   == {v}

\* wapi_parse_mode()
GetMode(v) == {v} \cap (0..6)

GetBitrate(v) ==
  { [value |-> v.value, flag |-> IF v.fixed THEN "FIXED" ELSE "AUTO"] :
      e \in {TRUE} \ {v.disabled} }

GetTxpower(v) ==
  { [value |-> v.value, flag |-> f] :
      f \in IF v.disabled THEN {}
            ELSE IF Has(v.flags, IW_TXPOW_DBM) THEN {"DBM"}
            ELSE IF Has(v.flags, IW_TXPOW_MWATT) THEN {"MWATT"}
            ELSE IF Has(v.flags, IW_TXPOW_RELATIVE) THEN {"RELATIVE"} ELSE {} }

Get(s, v) == CASE s = "freq"    -> GetFreq(v)
               [] s = "essid"   -> GetEssid(v)
               [] s = "mode"    -> GetMode(v)
               [] s = "bitrate" -> GetBitrate(v)
               [] s = "txpower" -> GetTxpower(v)
               [] s = "ap"      -> GetAp(v)
               [] OTHER         -> GetAddr(v)

(***************************************************************************)
(* Setters: the set of what the kernel may be told.                        *)
(***************************************************************************)
\* Mutant: all digits but the first are dropped.
SetFreq_Coarse(x) ==
  { [q |-> [m |-> x.freq \div Pow[Log10(x.freq)], e |-> Log10(x.freq)],
     flags |-> IF x.flag = "AUTO" THEN IW_FREQ_AUTO ELSE IW_FREQ_FIXED] }

SetFreq(x) ==
  { [q |-> Float2Freq(x.freq),
     flags |-> IF x.flag = "AUTO" THEN IW_FREQ_AUTO ELSE IW_FREQ_FIXED] }

SetEssid(x) ==
  { [name |-> x.string.name, junk |-> x.string.junk,
     flags |-> IF x.flag = "ON" THEN {"on"} ELSE {}] }

SetAddr(x) == {x}
SetMode(x) == {x}
SetAp(x)   == {x}

\* "disabled" is whatever the stack holds.
SetBitrate(x) ==
  { [value |-> x.value, fixed |-> x.flag = "FIXED", disabled |-> d] : d \in BOOLEAN }

SetTxpower(x) ==
  { [value |-> x.value, disabled |-> d,
     flags |-> CASE x.flag = "DBM"   -> IW_TXPOW_DBM
                 [] x.flag = "MWATT" -> IW_TXPOW_MWATT
                 [] OTHER            -> IW_TXPOW_RELATIVE] : d \in BOOLEAN }

Set(s, x) == CASE s = "freq"    -> SetFreq(x)
               [] s = "essid"   -> SetEssid(x)
               [] s = "bitrate" -> SetBitrate(x)
               [] s = "txpower" -> SetTxpower(x)
               [] s = "mode"    -> SetMode(x)
               [] s = "ap"      -> SetAp(x)
               [] OTHER         -> SetAddr(x)

\* The kernel stores a setting; another address brings its own netmask along.
Stored(conf, mask, s, v) ==
  IF s = "ip" /\ v # conf["ip"] THEN [conf EXCEPT !["ip"] = v, !["netmask"] = mask]
                                ELSE [conf EXCEPT ![s] = v]
=============================================================================
