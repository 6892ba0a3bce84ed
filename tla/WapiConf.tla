------------------------------ MODULE WapiConf ------------------------------
(***************************************************************************)
(* conf() of sample.c: goes through the settings of an interface, reads    *)
(* each and, in the program built with ENABLE_SET, writes back what it     *)
(* read, while other programs set what they like.                          *)
(***************************************************************************)
EXTENDS WapiAccessors, SequencesExt

CONSTANTS
  Confs,      \* the settings the interface may have at first
  Values,     \* Values[s]: what other programs set s to
  ClassMask,  \* the netmask the kernel derives from an address
  Channels,   \* the frequencies and channels of the device
  Garbage,    \* what an uninitialised channel may be
  FaultSets   \* the sets of calls that may fail in one execution

\* Every channel has one frequency.
SettingsAssumption ==
  /\ \A c \in Confs : IsConf(c)
  /\ DOMAIN Values \subseteq SettingNames
  /\ \A s \in DOMAIN Values : Values[s] \subseteq Setting(s)
  /\ ClassMask \in Nat
  /\ Channels \in Seq([freq : IwFreq, i : Nat])
  /\ \A j, k \in DOMAIN Channels : Channels[j].i = Channels[k].i =>
        Freq2Float(Channels[j].freq) = Freq2Float(Channels[k].freq)

VARIABLES
  faults,     \* the calls that may fail in this one
  stage,      \* what is next: "sock", "get", "chan", "freq", "found", "set", "closed"
  todo,       \* the settings to go through, the current one first
  value,      \* a setting and what its getter gave
  chan,       \* the channel of the frequency
  tmpfreq,    \* the frequency of the channel
  enableSet,  \* was the program built with ENABLE_SET?
  sock,       \* is the socket open?
  conf,       \* the kernel: the settings of the interface
  last,       \* history: what they were at first, or others made them
  raced,      \* history: has somebody else made the setting being written back?
  lost        \* history: the settings others made last and this program undid

convVars  == <<chan, tmpfreq>>
fixedVars == <<faults, enableSet, sock>>
kernel    == <<conf, last, raced, lost>>
vars      == <<stage, todo, value, convVars, fixedVars, kernel>>

cur   == Head(todo)
Fails == ~sock \/ "ioctl" \in faults

Init ==
  /\ faults \in FaultSets
  /\ stage = "sock" /\ sock = FALSE /\ todo = Settings /\ value = <<>>
  /\ chan = NotFound /\ tmpfreq = NotFound
  /\ enableSet \in BOOLEAN
  /\ conf \in Confs /\ last = conf /\ raced = FALSE /\ lost = {}

\* wapi_make_socket(); that it failed is not looked at.
MakeSocket ==
  /\ stage = "sock" /\ stage' = "get"
  /\ sock' \in {TRUE, "socket" \notin faults}
  /\ UNCHANGED <<todo, value, convVars, faults, enableSet, kernel>>

\* On to the next setting; the variables of the block go out of scope.
NextSetting ==
  /\ stage' = "get" /\ todo' = Tail(todo) /\ value' = <<>>
  /\ chan' = NotFound /\ tmpfreq' = NotFound /\ raced' = FALSE

GetFails ==
  /\ stage = "get" /\ todo # <<>>
  /\ Fails \/ Get(cur, conf[cur]) = {}
  /\ NextSetting
  /\ UNCHANGED <<fixedVars, conf, last, lost>>

\* The getter succeeds; without ENABLE_SET that is all, but for a frequency.
GetSetting ==
  /\ stage = "get" /\ todo # <<>> /\ sock
  /\ \/ /\ cur = "freq" \/ enableSet
        /\ \E x \in Get(cur, conf[cur]) : value' = <<cur, x>>
        /\ stage' = (IF cur = "freq" THEN "chan" ELSE "set")
        /\ chan' \in (IF cur = "freq" THEN Garbage ELSE {NotFound})
        /\ UNCHANGED <<todo, tmpfreq, raced>>
     \/ cur # "freq" /\ ~enableSet /\ Get(cur, conf[cur]) # {} /\ NextSetting
  /\ UNCHANGED <<fixedVars, conf, last, lost>>

\* wapi_freq2chan(); when it fails, chan is what it was: uninitialised.
FindChannel ==
  /\ stage = "chan" /\ stage' = "freq"
  /\ LET c == Freq2Chan(Channels, value[2].freq)
     IN  \/ sock /\ c # NotFound /\ chan' = c
         \/ (Fails \/ c = NotFound) /\ UNCHANGED chan
  /\ UNCHANGED <<todo, value, tmpfreq, fixedVars, kernel>>

\* wapi_chan2freq(), called whatever wapi_freq2chan() returned.
FindFreq ==
  /\ stage = "freq" /\ stage' = "found"
  /\ \/ sock /\ tmpfreq' = Chan2Freq(Channels, chan)
     \/ Fails /\ UNCHANGED tmpfreq
  /\ UNCHANGED <<todo, value, chan, fixedVars, kernel>>

\* Where the program without ENABLE_SET has no setter.
NoSetter ==
  /\ stage = "found" /\ ~enableSet /\ NextSetting
  /\ UNCHANGED <<fixedVars, conf, last, lost>>

SetSetting ==
  /\ stage = "set" \/ (stage = "found" /\ enableSet)
  /\ sock /\ NextSetting
  /\ \E v \in Set(cur, value[2]) : conf' = Stored(conf, ClassMask, cur, v)
  /\ lost' = lost \cup (IF raced THEN {cur} ELSE {})
                  \cup (IF conf'["ip"] # conf["ip"] THEN {"netmask"} ELSE {})
  /\ UNCHANGED <<fixedVars, last>>

SetFails ==
  /\ stage = "set" \/ (stage = "found" /\ enableSet)
  /\ Fails /\ NextSetting
  /\ UNCHANGED <<fixedVars, conf, last, lost>>

\* Mutant: the socket is left open.
CloseSocket_Not ==
  /\ stage = "get" /\ todo = <<>> /\ stage' = "closed"
  /\ UNCHANGED <<todo, value, convVars, fixedVars, kernel>>

CloseSocket ==
  /\ stage = "get" /\ todo = <<>> /\ stage' = "closed"
  /\ sock' = FALSE
  /\ UNCHANGED <<todo, value, convVars, faults, enableSet, kernel>>

Step == \/ MakeSocket \/ GetSetting \/ GetFails \/ FindChannel \/ FindFreq
        \/ NoSetter \/ SetSetting \/ SetFails \/ CloseSocket

\* The program has read the current setting and is going to write it.
Writing == enableSet /\ stage \in {"chan", "freq", "found", "set"}

\* Another program sets s to v; with an address the kernel may set the netmask.
OtherSets(s, v) ==
  LET made == IF s = "ip" /\ v # conf["ip"] THEN {"ip", "netmask"} ELSE {s}
  IN /\ conf'  = Stored(conf, ClassMask, s, v)
     /\ last'  = [t \in DOMAIN last |-> IF t \in made THEN conf'[t] ELSE last[t]]
     /\ raced' = (raced \/ (Writing /\ cur \in made))
     /\ lost'  = lost \ made
     /\ UNCHANGED <<stage, todo, value, convVars, fixedVars>>

Others == \E s \in DOMAIN Values : \E v \in Values[s] : OtherSets(s, v)

Next == Step \/ Others
Spec == Init /\ [][Next]_vars

-----------------------------------------------------------------------------
\* What of a setting v is left in w when a program has written what it read.
Kept(s, v, w) ==
  CASE s = "freq"    -> Freq2Float(w.q) \in {Freq2Float(v.q), Rounded(Freq2Float(v.q))}
    [] s = "essid"   -> w.name = v.name /\ w.flags = v.flags
    [] s = "bitrate" -> w.value = v.value /\ w.fixed = v.fixed
    [] s = "txpower" -> w.value = v.value
    [] OTHER         -> w = v

(***************************************************************************)
(* Whatever fails and whoever else makes settings, what conf() writes back *)
(* leaves every setting as it was at first, or as others last made it,     *)
(* apart from those it undid, between its getter and its setter or with an *)
(* old address, which brings another netmask: an address,                  *)
(* netmask, access point and mode for good, the start of the ESSID and its *)
(* flag, the bit rate and its flag, the value of the transmit power, the   *)
(* frequency rounded once.  Without ENABLE_SET nothing is written.         *)
(* Behaviour: conf() with the getters and setters of wireless.c and        *)
(* network.c.                                                              *)
(***************************************************************************)
KeepsSettings ==
  /\ \A s \in SettingNames \ lost : Kept(s, last[s], conf[s])
  /\ ~enableSet => conf = last

(***************************************************************************)
(* The frequency wapi_chan2freq() gives for the channel wapi_freq2chan()   *)
(* gave is the frequency of the interface, however either is encoded.      *)
(* Behaviour: wapi_freq2chan(), wapi_chan2freq(), conf() lines 76-82.      *)
(***************************************************************************)
ChannelShown ==
  (stage = "found" /\ chan \notin Garbage /\ tmpfreq # NotFound)
    => tmpfreq = value[2].freq
=============================================================================
