--------------------------- MODULE WapiConfProofs ---------------------------
(***************************************************************************)
(* Proofs about conf() of the sample program, for any settings, device and *)
(* frequencies, whatever fails and however much other programs do.         *)
(***************************************************************************)
EXTENDS WapiConf, WellFoundedInduction, TLAPS

(***************************************************************************)
(* Channels.                                                               *)
(***************************************************************************)
\* A set of numbers has a least one: what the loops over the range stop at.
LEMMA FirstIsLeast ==
  ASSUME NEW S \in SUBSET Nat, S # {}
  PROVE  First(S) \in S /\ \A j \in S : First(S) <= j
<1>1. \E k \in S : \A j \in S : ~(<<j, k>> \in OpToRel(<, Nat))
  BY NatLessThanWellFounded, WFMin
<1>2. PICK k \in S : \A j \in S : ~(<<j, k>> \in OpToRel(<, Nat))
  BY <1>1
<1>3. \A j \in S : k <= j
  <2> SUFFICES ASSUME NEW j \in S PROVE k <= j
    OBVIOUS
  <2>1. <<j, k>> \in Nat \X Nat /\ ~(j < k)
    BY <1>2 DEF OpToRel
  <2> QED
    BY <2>1
<1> QED
  BY <1>3 DEF First

\* The frequency of the channel of a frequency is that frequency.
LEMMA ChannelAndBack ==
  ASSUME SettingsAssumption, NEW f, Freq2Chan(Channels, f) # NotFound
  PROVE  Chan2Freq(Channels, Freq2Chan(Channels, f)) = f
<1> DEFINE H == { k \in DOMAIN Channels : Freq2Float(Channels[k].freq) = f }
           c == Freq2Chan(Channels, f)
           J == { k \in DOMAIN Channels : Channels[k].i = c }
<1>1. DOMAIN Channels \in SUBSET Nat
  BY DEF SettingsAssumption
<1>2. H # {} /\ c = Channels[First(H)].i
  BY DEF Freq2Chan
<1>3. First(H) \in H
  BY <1>1, <1>2, FirstIsLeast
<1>4. First(H) \in J
  BY <1>2, <1>3
<1>5. First(J) \in J
  BY <1>1, <1>4, FirstIsLeast
<1>6. Channels[First(J)].i = Channels[First(H)].i
  BY <1>2, <1>5
<1>7. Freq2Float(Channels[First(J)].freq) = Freq2Float(Channels[First(H)].freq)
  BY <1>3, <1>5, <1>6 DEF SettingsAssumption
<1>8. Chan2Freq(Channels, c) = Freq2Float(Channels[First(J)].freq)
  BY <1>4 DEF Chan2Freq
<1> QED
  BY <1>3, <1>7, <1>8

(***************************************************************************)
(* Getters and setters.                                                    *)
(***************************************************************************)
\* What setters rely on: the flags of an ESSID and of a bit rate are flags.
Flagged(s, v) ==
  /\ s = "essid" => v.flags \in SUBSET {"on"}
  /\ s = "bitrate" => v.fixed \in BOOLEAN

LEMMA SettingsFlagged ==
  ASSUME NEW s \in SettingNames, NEW v \in Setting(s)
  PROVE  Flagged(s, v)
BY DEF Flagged, Setting

LEMMA Unchanging == ASSUME NEW s \in SettingNames, NEW v PROVE Kept(s, v, v)
BY DEF Kept

\* What is read and written back is kept.
LEMMA ReadAndWritten ==
  ASSUME NEW s \in SettingNames, NEW v, Flagged(s, v),
         NEW x \in Get(s, v), NEW w \in Set(s, x)
  PROVE  Kept(s, v, w) /\ Flagged(s, w) /\ (s = "ip" => w = v)
<1>1. CASE s = "freq"
  <2>1. x \in GetFreq(v) /\ w \in SetFreq(x)
    BY <1>1 DEF Get, Set
  <2>2. x.freq = Freq2Float(v.q)
    BY <2>1 DEF GetFreq
  <2>3. w.q = Float2Freq(x.freq)
    BY <2>1 DEF SetFreq
  <2> QED
    BY <1>1, <2>2, <2>3 DEF Kept, Rounded, Flagged
<1>2. CASE s = "essid"
  <2>1. x \in GetEssid(v) /\ w \in SetEssid(x)
    BY <1>2 DEF Get, Set
  <2>2. x.string.name = v.name /\ x.flag = IF v.flags # {} THEN "ON" ELSE "OFF"
    BY <2>1 DEF GetEssid
  <2>3. w.name = x.string.name /\ w.flags = IF x.flag = "ON" THEN {"on"} ELSE {}
    BY <2>1 DEF SetEssid
  <2>4. v.flags = {} \/ v.flags = {"on"}
    BY <1>2 DEF Flagged
  <2> QED
    BY <1>2, <2>2, <2>3, <2>4 DEF Kept, Flagged
<1>3. CASE s = "bitrate"
  <2> DEFINE flag == IF v.fixed THEN "FIXED" ELSE "AUTO"
  <2>1. x \in GetBitrate(v) /\ w \in SetBitrate(x)
    BY <1>3 DEF Get, Set
  <2>2. x = [value |-> v.value, flag |-> flag]
    BY <2>1, Zenon DEF GetBitrate
  <2>3. w.value = x.value /\ w.fixed = (x.flag = "FIXED")
    BY <2>1 DEF SetBitrate
  <2>4. v.fixed = TRUE \/ v.fixed = FALSE
    BY <1>3, Zenon DEF Flagged
  <2>5. (flag = "FIXED") = v.fixed
    BY <2>4, Zenon
  <2>6. x.value = v.value /\ x.flag = flag
    <3> HIDE DEF flag
    <3> QED
      BY <2>2
  <2>7. w.fixed = v.fixed
    BY <2>3, <2>5, <2>6, Zenon
  <2>8. w.fixed \in BOOLEAN
    BY <2>4, <2>7, Zenon
  <2> QED
    BY <1>3, <2>3, <2>6, <2>7, <2>8, Zenon DEF Kept, Flagged
<1>4. CASE s = "txpower"
  <2>1. x \in GetTxpower(v) /\ w \in SetTxpower(x)
    BY <1>4 DEF Get, Set
  <2>2. x.value = v.value
    BY <2>1 DEF GetTxpower
  <2>3. w.value = x.value
    BY <2>1 DEF SetTxpower
  <2> QED
    BY <1>4, <2>2, <2>3 DEF Kept, Flagged
<1>5. CASE s = "mode"
  BY <1>5 DEF Get, Set, GetMode, SetMode, Kept, Flagged
<1>6. CASE s \in {"ip", "netmask", "ap"}
  BY <1>6 DEF Get, Set, GetAddr, GetAp, SetAddr, SetAp, Kept, Flagged
<1> QED
  BY <1>1, <1>2, <1>3, <1>4, <1>5, <1>6 DEF SettingNames

\* Storing a setting changes it, and with an address perhaps the netmask.
LEMMA StoredAt ==
  \A c, mask, v : \A s \in SettingNames : DOMAIN c = SettingNames =>
    LET d == Stored(c, mask, s, v) IN
    /\ d = [t \in SettingNames |-> d[t]] /\ d[s] = v
    /\ \A t \in SettingNames :
         d[t] # c[t] => t = s \/ (t = "netmask" /\ s = "ip" /\ v # c["ip"] /\ d[t] = mask)
<1> TAKE c, mask, v
<1> TAKE s \in SettingNames
<1> HAVE DOMAIN c = SettingNames
<1> QED
  BY DEF Stored, SettingNames

\* What a setter makes of anything has flags.
LEMMA SetFlagged ==
  ASSUME NEW s \in SettingNames, NEW x, NEW w \in Set(s, x)
  PROVE  Flagged(s, w)
<1>1. CASE s = "essid"
  <2>1. w.flags = IF x.flag = "ON" THEN {"on"} ELSE {}
    BY <1>1 DEF Set, SetEssid
  <2> QED
    BY <1>1, <2>1 DEF Flagged
<1>2. CASE s = "bitrate"
  <2>1. w.fixed = (x.flag = "FIXED")
    BY <1>2 DEF Set, SetBitrate
  <2>2. w.fixed \in BOOLEAN
    BY <2>1, Zenon
  <2> QED
    BY <1>2, <2>2 DEF Flagged
<1> QED
  BY <1>1, <1>2 DEF Flagged

(***************************************************************************)
(* The inductive invariant.                                                *)
(***************************************************************************)
Awaits(s) == \E k \in DOMAIN todo : todo[k] = s

Flags == enableSet \in BOOLEAN /\ raced \in BOOLEAN

Shape ==
  /\ todo \in Seq(SettingNames)
  /\ \A j, k \in DOMAIN todo : todo[j] = todo[k] => j = k
  /\ conf = [s \in SettingNames |-> conf[s]]
  /\ last = [s \in SettingNames |-> last[s]]
  /\ \A s \in SettingNames : Flagged(s, conf[s])

\* Between a getter and the end of its setting.
Places ==
  /\ stage \in {"chan", "freq", "found", "set"} => todo # <<>>
  /\ stage = "set" => enableSet

\* What is to be written is what would be read again, unless somebody else
\* made the setting since.
ReadBack == Writing /\ ~raced => value[2] \in Get(cur, conf[cur])

\* Settings that are still to be gone through are untouched, the others kept.
Settled ==
  \A s \in SettingNames \ lost :
    Kept(s, last[s], conf[s]) /\ (Awaits(s) => conf[s] = last[s])

ReadOnly == ~enableSet => conf = last

Inv == Flags /\ Shape /\ Places /\ ReadBack /\ Settled /\ ReadOnly

\* Any other program's setting preserves the invariant.
LEMMA OthersKeep ==
  ASSUME SettingsAssumption, Inv, NEW s \in DOMAIN Values, NEW v \in Values[s],
         OtherSets(s, v)
  PROVE  Inv'
<1> DEFINE made == IF s = "ip" /\ v # conf["ip"] THEN {"ip", "netmask"} ELSE {s}
<1>1. s \in SettingNames /\ v \in Setting(s)
  BY DEF SettingsAssumption
<1>2. /\ conf' = Stored(conf, ClassMask, s, v)
      /\ last' = [t \in DOMAIN last |-> IF t \in made THEN conf'[t] ELSE last[t]]
      /\ lost' = lost \ made
      /\ raced' = (raced \/ (Writing /\ cur \in made))
      /\ UNCHANGED <<stage, todo, value, enableSet>>
  BY DEF OtherSets, fixedVars
<1>3. DOMAIN conf = SettingNames /\ DOMAIN last = SettingNames
  BY DEF Inv, Shape
<1>4. /\ conf' = [t \in SettingNames |-> conf'[t]] /\ conf'[s] = v
      /\ \A t \in SettingNames : conf'[t] # conf[t] =>
           t = s \/ (t = "netmask" /\ s = "ip" /\ v # conf["ip"] /\ conf'[t] = ClassMask)
  BY <1>1, <1>2, <1>3, StoredAt
<1>5. \A t \in SettingNames : t \notin made => conf'[t] = conf[t] /\ last'[t] = last[t]
  BY <1>2, <1>3, <1>4
<1>6. \A t \in SettingNames : t \in made => last'[t] = conf'[t]
  BY <1>2, <1>3
<1>7. made \subseteq SettingNames
  BY <1>1 DEF SettingNames
<1>8. Flags'
  BY <1>2, Zenon DEF Inv, Flags
<1>9. Shape'
  <2>1. last' = [t \in SettingNames |-> last'[t]]
    BY <1>2, <1>3
  <2>2. ASSUME NEW t \in SettingNames PROVE Flagged(t, conf'[t])
    <3>1. CASE conf'[t] = conf[t]
      BY <3>1 DEF Inv, Shape
    <3>2. CASE t = s
      BY <1>1, <1>4, <3>2, SettingsFlagged
    <3>3. CASE t = "netmask"
      BY <3>3 DEF Flagged
    <3> QED
      BY <1>4, <3>1, <3>2, <3>3
  <2> QED
    BY <1>2, <1>4, <2>1, <2>2 DEF Inv, Shape
<1>10. Places'
  BY <1>2 DEF Inv, Places
<1>11. ReadBack'
  <2> SUFFICES ASSUME Writing, ~raced' PROVE value[2] \in Get(cur, conf'[cur])
    BY <1>2 DEF ReadBack, Writing, cur
  <2>1. ~raced /\ cur \notin made
    BY <1>2
  <2>2. cur \in SettingNames
    BY DEF Inv, Places, Shape, Writing, cur
  <2> QED
    BY <1>5, <2>1, <2>2 DEF Inv, ReadBack
<1>12. Settled'
  <2> SUFFICES ASSUME NEW t \in SettingNames \ lost'
               PROVE  Kept(t, last'[t], conf'[t]) /\ (Awaits(t) => conf'[t] = last'[t])
    BY <1>2 DEF Settled, Awaits
  <2>1. CASE t \in made
    BY <1>6, <2>1, Unchanging
  <2>2. CASE t \notin made
    <3>1. t \notin lost
      BY <1>2, <2>2
    <3> QED
      BY <1>5, <2>2, <3>1 DEF Inv, Settled
  <2> QED
    BY <2>1, <2>2
<1>13. ReadOnly'
  <2> SUFFICES ASSUME ~enableSet PROVE conf' = last'
    BY <1>2 DEF ReadOnly
  <2>1. \A t \in SettingNames : conf'[t] = last'[t]
    BY <1>5, <1>6 DEF Inv, ReadOnly
  <2>2. last' = [t \in SettingNames |-> last'[t]]
    BY <1>2, <1>3
  <2> QED
    BY <1>4, <2>1, <2>2
<1> QED
  BY <1>8, <1>9, <1>10, <1>11, <1>12, <1>13 DEF Inv

\* The current setting is one of those to go through, and once.
LEMMA Onward ==
  ASSUME Shape, todo # <<>>, todo' = Tail(todo)
  PROVE  /\ cur \in SettingNames /\ Awaits(cur)
         /\ todo' \in Seq(SettingNames)
         /\ \A j, k \in DOMAIN todo' : todo'[j] = todo'[k] => j = k
         /\ \A t \in SettingNames : Awaits(t)' => Awaits(t) /\ t # cur
<1>1. /\ todo \in Seq(SettingNames) /\ todo[1] = cur /\ 1 \in DOMAIN todo
      /\ cur \in SettingNames
  BY DEF Shape, cur
<1>2. /\ todo' \in Seq(SettingNames) /\ Len(todo') = Len(todo) - 1
      /\ \A k \in 1..Len(todo') : todo'[k] = todo[k + 1]
  BY <1>1
<1>3. \A k \in DOMAIN todo' : k + 1 \in DOMAIN todo /\ k + 1 # 1 /\ todo'[k] = todo[k + 1]
  BY <1>1, <1>2
<1>4. ASSUME NEW j \in DOMAIN todo', NEW k \in DOMAIN todo', todo'[j] = todo'[k]
      PROVE  j = k
  <2>1. j + 1 = k + 1
    BY <1>3, <1>4 DEF Shape
  <2> QED
    BY <1>2, <2>1
<1>5. ASSUME NEW t \in SettingNames, Awaits(t)' PROVE Awaits(t) /\ t # cur
  <2>1. PICK k \in DOMAIN todo' : todo'[k] = t
    BY <1>5 DEF Awaits
  <2> QED
    BY <1>1, <1>3, <2>1 DEF Awaits, Shape
<1> QED
  BY <1>1, <1>2, <1>4, <1>5 DEF Awaits

\* Going on without having written anything preserves the invariant.
LEMMA OnwardKeeps ==
  ASSUME Inv, todo # <<>>, NextSetting, UNCHANGED <<enableSet, conf, last, lost>>
  PROVE  Inv'
<1>1. /\ todo' \in Seq(SettingNames)
      /\ \A j, k \in DOMAIN todo' : todo'[j] = todo'[k] => j = k
      /\ \A t \in SettingNames : Awaits(t)' => Awaits(t)
  BY Onward DEF Inv, NextSetting
<1>2. Flags'
  BY Zenon DEF Inv, Flags, NextSetting
<1>3. Shape'
  BY <1>1 DEF Inv, Shape
<1>4. Places' /\ ReadBack'
  BY DEF NextSetting, Places, ReadBack, Writing
<1>5. Settled'
  BY <1>1 DEF Inv, Settled
<1>6. ReadOnly'
  BY DEF Inv, ReadOnly
<1> QED
  BY <1>2, <1>3, <1>4, <1>5, <1>6 DEF Inv

\* So does writing back the current setting.
LEMMA SetKeeps == ASSUME Inv, SetSetting PROVE Inv'
<1>1. /\ todo # <<>> /\ Writing /\ enableSet
      /\ NextSetting /\ UNCHANGED <<enableSet, last>>
  BY DEF SetSetting, Inv, Places, Writing, fixedVars
<1>2. PICK w \in Set(cur, value[2]) : conf' = Stored(conf, ClassMask, cur, w)
  BY DEF SetSetting
<1>3. lost' = lost \cup (IF raced THEN {cur} ELSE {})
                   \cup (IF conf'["ip"] # conf["ip"] THEN {"netmask"} ELSE {})
  BY DEF SetSetting
<1>4. /\ cur \in SettingNames /\ Awaits(cur)
      /\ todo' \in Seq(SettingNames)
      /\ \A j, k \in DOMAIN todo' : todo'[j] = todo'[k] => j = k
      /\ \A t \in SettingNames : Awaits(t)' => Awaits(t) /\ t # cur
  BY <1>1, Onward DEF Inv, NextSetting
<1>5. DOMAIN conf = SettingNames
  BY DEF Inv, Shape
<1>6. /\ conf' = [t \in SettingNames |-> conf'[t]] /\ conf'[cur] = w
      /\ \A t \in SettingNames : conf'[t] # conf[t] =>
           t = cur \/ (t = "netmask" /\ cur = "ip" /\ w # conf["ip"] /\ conf'[t] = ClassMask)
  BY <1>2, <1>4, <1>5, StoredAt
<1>7. Flagged(cur, w)
  BY <1>4, SetFlagged
<1>8. Flags'
  BY <1>1, Zenon DEF Inv, Flags, NextSetting
<1>9. Shape'
  <2>1. ASSUME NEW t \in SettingNames PROVE Flagged(t, conf'[t])
    <3>1. CASE conf'[t] = conf[t]
      BY <3>1 DEF Inv, Shape
    <3>2. CASE t = cur
      BY <1>6, <1>7, <3>2
    <3>3. CASE t = "netmask"
      BY <3>3 DEF Flagged
    <3> QED
      BY <1>6, <3>1, <3>2, <3>3
  <2> QED
    BY <1>1, <1>4, <1>6, <2>1 DEF Inv, Shape
<1>10. Places' /\ ReadBack'
  BY <1>1 DEF NextSetting, Places, ReadBack, Writing
<1>11. Settled'
  <2> SUFFICES ASSUME NEW t \in SettingNames \ lost'
               PROVE  Kept(t, last[t], conf'[t]) /\ (Awaits(t)' => conf'[t] = last[t])
    BY <1>1 DEF Settled
  <2>1. t \notin lost
    BY <1>3
  <2>2. CASE t = cur
    <3>1. ~raced
      BY <1>3, <2>2
    <3>2. conf[cur] = last[cur] /\ value[2] \in Get(cur, conf[cur]) /\ Flagged(cur, conf[cur])
      BY <1>1, <1>4, <2>1, <2>2, <3>1 DEF Inv, Settled, ReadBack, Shape
    <3>3. Kept(cur, conf[cur], w)
      BY <1>2, <1>4, <3>2, ReadAndWritten
    <3> QED
      BY <1>4, <1>6, <2>2, <3>2, <3>3
  <2>3. CASE t # cur
    <3>1. conf'[t] = conf[t]
      <4> SUFFICES ASSUME conf'[t] # conf[t] PROVE FALSE
        OBVIOUS
      <4>1. t = "netmask" /\ cur = "ip" /\ conf'["ip"] # conf["ip"]
        BY <1>6, <2>3
      <4> QED
        BY <1>3, <4>1
    <3> QED
      BY <1>4, <2>1, <3>1 DEF Inv, Settled
  <2> QED
    BY <2>2, <2>3
<1>12. ReadOnly'
  BY <1>1 DEF ReadOnly
<1> QED
  BY <1>8, <1>9, <1>10, <1>11, <1>12 DEF Inv

\* The initial states.
LEMMA InvInit == ASSUME SettingsAssumption, Init PROVE Inv
<1>1. /\ todo = Settings /\ conf \in Confs /\ last = conf /\ raced = FALSE
      /\ enableSet \in BOOLEAN /\ stage = "sock"
  BY DEF Init
<1>2. IsConf(conf)
  BY <1>1 DEF SettingsAssumption
<1>3. Flags
  BY <1>1, Zenon DEF Flags
<1>4. Shape
  <2>1. Settings \in Seq(SettingNames)
    BY DEF Settings, SettingNames
  <2>2. \A j, k \in DOMAIN Settings : Settings[j] = Settings[k] => j = k
    BY DEF Settings
  <2>3. conf = [s \in SettingNames |-> conf[s]]
    BY <1>2 DEF IsConf
  <2>4. \A s \in SettingNames : Flagged(s, conf[s])
    BY <1>2, SettingsFlagged DEF IsConf
  <2> QED
    BY <1>1, <2>1, <2>2, <2>3, <2>4 DEF Shape
<1>5. Places /\ ReadBack
  BY <1>1 DEF Places, ReadBack, Writing
<1>6. Settled /\ ReadOnly
  BY <1>1, Unchanging DEF Settled, ReadOnly
<1> QED
  BY <1>3, <1>4, <1>5, <1>6 DEF Inv

(***************************************************************************)
(* Whatever fails and whatever others do, every setting is as it was at    *)
(* first or as others made it last, but for those the program undid.       *)
(* Behaviour: conf() with the getters and setters.                         *)
(***************************************************************************)
THEOREM SettingsKept == ASSUME SettingsAssumption PROVE Spec => []KeepsSettings
<1>1. Init => Inv
  BY InvInit
<1>2. Inv /\ [Next]_vars => Inv'
  <2> SUFFICES ASSUME Inv, [Next]_vars PROVE Inv'
    OBVIOUS
  <2> USE DEF kernel, fixedVars, convVars
  <2>1. CASE MakeSocket
    BY <2>1 DEF MakeSocket, Inv, Flags, Shape, Places, ReadBack, Writing, cur,
                Settled, Awaits, ReadOnly
  <2>2. CASE GetSetting
    <3>1. CASE NextSetting
      BY <2>2, <3>1, OnwardKeeps DEF GetSetting
    <3>2. CASE ~NextSetting
      <4>1. /\ todo # <<>> /\ (cur = "freq" \/ enableSet)
            /\ stage' = (IF cur = "freq" THEN "chan" ELSE "set")
            /\ UNCHANGED <<todo, raced, enableSet, kernel>>
        BY <2>2, <3>2 DEF GetSetting
      <4>2. PICK x \in Get(cur, conf[cur]) : value' = <<cur, x>>
        BY <2>2, <3>2 DEF GetSetting
      <4>3. Flags' /\ Shape' /\ Settled' /\ ReadOnly'
        BY <4>1 DEF Inv, Flags, Shape, Settled, Awaits, ReadOnly
      <4>4. Places'
        BY <4>1 DEF Places
      <4>5. ReadBack'
        BY <4>1, <4>2 DEF ReadBack, cur
      <4> QED
        BY <4>3, <4>4, <4>5 DEF Inv
    <3> QED
      BY <3>1, <3>2
  <2>3. CASE GetFails
    BY <2>3, OnwardKeeps DEF GetFails
  <2>4. CASE FindChannel \/ FindFreq
    BY <2>4 DEF FindChannel, FindFreq, Inv, Flags, Shape, Places, ReadBack, Writing,
                cur, Settled, Awaits, ReadOnly
  <2>5. CASE NoSetter
    BY <2>5, OnwardKeeps DEF NoSetter, Inv, Places
  <2>6. CASE SetSetting
    BY <2>6, SetKeeps
  <2>7. CASE SetFails
    BY <2>7, OnwardKeeps DEF SetFails, Inv, Places
  <2>8. CASE CloseSocket
    BY <2>8 DEF CloseSocket, Inv, Flags, Shape, Places, ReadBack, Writing,
                Settled, Awaits, ReadOnly
  <2>9. CASE Others
    BY <2>9, OthersKeep DEF Others
  <2>10. CASE UNCHANGED vars
    BY <2>10 DEF vars, Inv, Flags, Shape, Places, ReadBack, Writing, cur, Settled,
                 Awaits, ReadOnly
  <2> QED
    BY <2>1, <2>2, <2>3, <2>4, <2>5, <2>6, <2>7, <2>8, <2>9, <2>10 DEF Next, Step
<1>3. Inv => KeepsSettings
  BY DEF Inv, Settled, ReadOnly, KeepsSettings
<1> QED
  BY <1>1, <1>2, <1>3, PTL DEF Spec

(***************************************************************************)
(* The frequency shown for the channel found is that of the interface,     *)
(* for any device with one frequency per channel.  Behaviour:              *)
(* wapi_freq2chan() and wapi_chan2freq() as conf() calls them.             *)
(***************************************************************************)
\* What the channel and its frequency are between the calls.
Found ==
  /\ stage \in {"sock", "get", "chan", "freq"} => tmpfreq = NotFound
  /\ stage = "chan" => chan \in Garbage
  /\ stage \in {"freq", "found"} /\ chan \notin Garbage =>
       chan # NotFound /\ chan = Freq2Chan(Channels, value[2].freq)
  /\ stage = "found" /\ tmpfreq # NotFound => tmpfreq = Chan2Freq(Channels, chan)

THEOREM FrequencyOfChannel == ASSUME SettingsAssumption PROVE Spec => []ChannelShown
<1>1. Init => Found
  BY DEF Init, Found
<1>2. Found /\ [Next]_vars => Found'
  <2> SUFFICES ASSUME Found, [Next]_vars PROVE Found'
    OBVIOUS
  <2> USE DEF kernel, fixedVars, convVars, Found
  <2>1. CASE MakeSocket \/ CloseSocket
    BY <2>1 DEF MakeSocket, CloseSocket
  <2>2. CASE NextSetting
    BY <2>2 DEF NextSetting
  <2>3. CASE GetSetting /\ ~NextSetting
    <3>1. /\ stage = "get" /\ tmpfreq' = tmpfreq
          /\ stage' = (IF cur = "freq" THEN "chan" ELSE "set")
          /\ chan' \in (IF cur = "freq" THEN Garbage ELSE {NotFound})
      BY <2>3 DEF GetSetting
    <3>2. tmpfreq = NotFound
      BY <3>1
    <3> QED
      BY <3>1, <3>2
  <2>4. CASE GetFails \/ NoSetter \/ SetSetting \/ SetFails
    BY <2>2, <2>4 DEF GetFails, NoSetter, SetSetting, SetFails
  <2>5. CASE FindChannel
    BY <2>5 DEF FindChannel
  <2>6. CASE FindFreq
    BY <2>6 DEF FindFreq
  <2>7. CASE Others
    BY <2>7 DEF Others, OtherSets
  <2>8. CASE UNCHANGED vars
    BY <2>8 DEF vars
  <2> QED
    BY <2>1, <2>2, <2>3, <2>4, <2>5, <2>6, <2>7, <2>8 DEF Next, Step
<1>3. Found => ChannelShown
  BY ChannelAndBack DEF Found, ChannelShown
<1> QED
  BY <1>1, <1>2, <1>3, PTL DEF Spec
=============================================================================
