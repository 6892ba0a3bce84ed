# ShadowX Wi-Fi start-up and the WAPI library: TLA+ models and proofs

The program of this repository turns the two Wi-Fi interfaces that Linux makes
at boot into the three ShadowX works with: `sta0` and `ap0` on the TI chip that
is soldered to the board, `mon0` (monitor mode) on a USB radio. `hostapd` is
started on `ap0` once `main()` reports success. Beside it the repository keeps
WAPI, a C library for wireless and network settings, with a sample program. This
directory holds TLA+ models of both, TLC configurations that check them on small
instances, and TLAPS proofs of what matters most for every instance.

## The system

| component | state it keeps | operations | interacts with |
|---|---|---|---|
| `main.cpp` | none | one run: `Init()`, `CreateInterfaces()`, report | the manager singleton |
| `InterfaceManagerNl80211` | the interface list it inherits; locals `tiPhy`, `phyId`, `mac[6]` | `Init`, `CreateInterfaces`, `GetTiInterfaceList`, `GetInterfaceByPhyAndName` | inherits `Nl80211InterfaceAdmin`, owns an `IfIoctls` |
| `Nl80211InterfaceAdmin` | none of its own | `GetInterfaceList`, `Create{Station,Ap,Monitor}Interface`, `DeleteInterface` | strings `Nl80211Base`'s calls together, one connection per request |
| `Nl80211Base` | `m_sock`, `m_cb`, `m_msg`, `m_cbInfo`, `m_interfaces` | open, close, build, send, wait; callbacks that libnl makes per reply | libnl, and through it the kernel's nl80211 |
| `IfIoctls` | `m_fd` | up, down, set address, power save off | the kernel, by `ioctl` |
| `ChannelSetterNl80211` | a connection that lives across calls, `m_interfaceIndex` | `OpenConnection`, `SetChannel`, `CloseConnection` (does nothing) | `Nl80211Base`, the manager singleton; no caller yet, and `SetChannel(uint32_t)` does not override `IChannelSetter::SetChannel(int32_t)`, so that the class is abstract |
| `Log`, `OneInterface`, `ShxWireless.h` | text, one list entry, ioctl structures | formatting, getters | all |
| kernel: nl80211, mac80211, drivers | virtual interfaces, wiphy indexes, flags | serves requests | not in the repository; external |
| `wireless.c` (the same file as in `wapi/`) | none between calls; the caller's list of cells | `wapi_scan_init/stat/coll`, `wapi_if_add/del`, getters and setters | wireless extensions by `ioctl`, nl80211 by libnl; the program does not use it |
| `network.c`, `util.c` of `wapi/` | none between calls; the caller's lists | `wapi_get_ifnames`, `wapi_get_routes`, addresses, routes, up and down | `/proc/net`, `ioctl` |
| `sample.c` of `wapi/` (`sample-get`, `sample-set`) | locals of `main()`, `conf()`, `scan()` | lists, reads and (built with `ENABLE_SET`) writes back every setting, scans | all of the library, other programs through the kernel |
| `ifadd.c`, `ifdel.c`, `netlink/` | two programs of one call; third-party headers | | |

The process is single-threaded and calls everything synchronously. What makes it
hard lies around it:

- **failure** — each request can fail; some failures end the run, some are
  logged with "continuing...";
- **restart** — a run that failed or was killed leaves its interfaces behind, and
  the next one starts from them, recognising the TI chip only by the first three
  bytes of an address;
- **staleness** — decisions are taken from a list read earlier (and never
  cleared), while radios reset themselves and come back under other wiphy indexes
  and under names that were free;
- **ordering** — "Do *NOT* bring down all interfaces on the TI phy, it will never
  come back to life!": the base interface may go only when the others are up;
- **resources and replies** — raw libnl pointers without a destructor, a receive
  loop that only a reply ends, descriptors closed only if greater than 0;
- **other programs** — a setting is read and written back in two calls, a file of
  `/proc/net` is written anew for every `read()`, scans are everybody's.

What makes each component correct:

- *manager*: an interface is only ever on its own radio; success means that all
  three are there, of the right type, active; whatever a run leaves behind, the
  next undisturbed run succeeds; the TI chip is never left without an active
  interface; nothing set up is deleted;
- *admin and base*: a request reaches the kernel at most once, true means that it
  was carried out, no object leaks, a call returns unless what it waits for was lost;
- *ioctls*: one socket at most, only the flag meant is changed;
- *channel setter*: true means that the radio is on the channel, an answer is the
  answer to this call, what leaks is known;
- *wireless.c*: a list of cells is of one scan result, the buffer grows as far as it
  must and no further, nothing is left allocated, a call returns unless its answer is lost;
- *network.c, util.c*: a list holds lines of the file only, and all of them when
  nothing changed; what leaks is known;
- *sample program*: what it writes back leaves every setting as it was or as others
  made it; the scan result it shows is not older than its scan; it ends.

## The modules

| module | models | notes |
|---|---|---|
| `InterfaceManager` | `main()`, `Init()`, `CreateInterfaces()`, the kernel's interfaces and radios | one action per call into the kernel |
| `InterfaceManagerProofs` | | five theorems, with hot-plugging |
| `InterfaceManagerSteadyProofs` | | seven theorems, while no radio comes or goes |
| `Nl80211Base` | the pointers, the callbacks, the receive queue | operators; no behaviour of its own |
| `Nl80211InterfaceAdmin` | the three requests, step by step | EXTENDS `Nl80211Base` |
| `Nl80211Requests` | what a caller may rely on | abstract specification |
| `Nl80211InterfaceAdminProofs` | | five theorems, one of them the refinement |
| `IfIoctls`, `IfIoctlsProofs` | descriptors and flags | four theorems |
| `ChannelSetterNl80211`, `ChannelSetterNl80211Proofs` | a connection across calls, sequence numbers, channels | EXTENDS `Nl80211Base`; three theorems |
| `Wireless`, `WirelessProofs` | `wireless.c`: scanning, adding and deleting interfaces | six theorems, one of them the refinement |
| `WapiScan` | what a caller of the scan functions may rely on | abstract specification; `Wireless` implements it, `WapiSample` relies on it |
| `WapiUnits` | frequencies and channels in `wireless.c` | operators |
| `WapiAccessors` | the getters and setters of `wireless.c` and `network.c` | EXTENDS `WapiUnits`; operators |
| `WapiProc` | `wapi_get_ifnames()`, `wapi_get_routes()` and the kernel's files | |
| `WapiConf`, `WapiConfProofs` | `conf()` of the sample program | EXTENDS `WapiAccessors`; two theorems |
| `WapiSample`, `WapiSampleProofs` | `main()` and `scan()` of the sample program | composes `WapiProc`, `WapiConf` and `WapiScan`; six theorems |
| `MC*` | TLC instances | values are in the `.cfg` files |

Definitions named `X_Something` that stand in front of a definition `X` and are
marked *Mutant* are plausible bugs. No specification uses them: they are put in
the place of `X` to see that the property meant to catch them does.

### InterfaceManager

`pc` is the place in `main()`. `off` means that there is no process; `Start` is
`main()` being called, `Stop` is its end or its death. The phases follow the
code: `init` (`Init`, lines 36-71), `select` (the TI chip is chosen by address,
165-195), `create`/`down`/`setmac`/`up` for `sta0` (197-225) and `ap0` (229-259),
`reread` and `delTi` (261-287), again `create`/`up` for `mon0` (289-328), `delUsb`
(330-345), `finalread` (347-354), `ready`. The variable `cur` is the interface the
phase works on, so that one action stands for the same call wherever the code
repeats it. `BringInterfaceUp/Down` is one action here; `IfIoctls` splits it.

`m_interfaces` is the set `list` of entries, each with the number `gen` of the
read that appended it. The order inside one dump is the kernel's choice, so "the
first entry that ..." is any matching entry of the oldest dump with one
(`Oldest`). `gen` is needed because `GetInterfaceList()` never clears the list.
`ouiRadios` never changes: it says which board this is, one with a TI address or one
without.

An address is reduced to what the program can tell of it: whether it starts with
the TI OUI (`oui`) and how it goes on (`tail`: `"factory"`, or the bytes drawn with
`rand()`). The kernel's side — the table `vif`, the wiphy indexes `phy`, the
refusal of a second active interface with the same address when `UniqueMac` — is
external, and is what the code and the logs in `resultsWedFeb21.txt` show of it.
A wiphy index is never used twice, a radio that appears brings one interface under
a free base name.

Failures: every request may fail without effect; creation may also succeed and be
reported as failed; and a read of the list may bring a part of the dump only, without
anybody noticing (`Reads`), as `GetInterfaceList()` does not look at what `nl_recvmsgs()`
returns. They may happen (`MayFail`) in the first `FaultyRuns` runs only,
so that "a run in which nothing fails" exists. A call that cannot succeed (no such
interface) fails in every run.

### Nl80211Base, Nl80211InterfaceAdmin, Nl80211Requests

`live` is libnl's heap, and allocation picks any handle that is not live, so a
pointer overwritten too early shows as a live handle nobody points to. A request is
the sequence `open`, (`callback`), `message`, `send`, then `receive` (a dump) or `await`.
Parameters are added in the step `send`. The kernel serves a request in the step
that sends it, and queues its replies; `Receive` is one turn of the loop of
`SendWithRepeatingResponses()`, with `Handled` for the callbacks. The loop ignores the
result of `nl_recvmsgs()`: a turn that fails (no memory, a message cut short) loses what it
had read and not handled, and the loop goes on. `ReceiveFails` is that, one reply at a time:
several of them, after some `Receive`s, are one failing turn that read several. `lost` notes
what went; `Unanswered` says that the reply that ends the loop, or the request itself, is
among it. The replies of a dump are those of one moment. Interfaces appear
and disappear between any two steps. `DeleteInterface` keeps the ifindex it looked
up first; ifindexes are not used twice.

`Nl80211Requests` is the contract: `Begin`, at most one `Serve`, `Report` or, where
replies can be lost (`MayLose`), `Lose` for each entry of a dump, `Return` of true only
when served and read to the end. So true does not mean that a list is complete: it lacks
what was lost, and nothing else. The refinement maps `missing` to the names still in the
queue, `lost` to the names in the lost replies and `target` to `ifIndex`; building and
sending stutter. `InterfaceManager`'s atomic calls are such requests, its `Reads` included.

### IfIoctls

Sockets are numbers, since the code compares them with 0. `Open` is everything
`Open()` can make of `m_fd` and the open sockets; each request ends in `Close()`
(`ThenClosed`) or, for `SetWirelessPowerSaveOff` on success, does not (`LeftOpen`).
Bringing an interface up or down is two actions, `GetFlags` and `SetFlags`, and
other programs write flags in between. `Taken` holds the descriptors the process
was started with.

### ChannelSetterNl80211

One connection serves many calls of `SetChannel()`, so the model adds what libnl
keeps of it: `seqNext`, the number the next message gets, and `seqExpect`, the number
the next reply must have. `nl_send_auto()` numbers a message before it tries to send
it; a reply with another number is an error and leaves `seqExpect` as it was
(`nl_socket_disable_seq_check()`, netlink/socket.h:57, is not called). `clean` is true
until something sent over the connection got lost, `leaks` counts the pointers that
were overwritten (`OpenConnection()` while one is open) or left behind
(`ParametersFail`). `SetChannel()` is called on an open connection only.
`ChannelToFrequency` is the program's conversion and `KernelChannel` the kernel's.

### Wireless

`ScanColl` and the steps at `collect` are the loop that asks for the result with a
buffer twice as large until it fits; `NextEvent` and `LastEvent` are the loop over the
events, `LastEvent` being the turn in which `iw_extract_event_stream()` has nothing
more and the last event is handled again. Sizes are in events. `Length` is the 16 bits
of `iw_point.length`. `IfRequest` to `IfReceive` are `nl80211_cmd_handler()`. The
caller makes one call after another and frees the list between them, as
`wapi/wapi-0.1/examples/sample.c` does. That the report of an access point begins with its
address, and names none again, is the kernel's part (`ReportAssumption`). The first buffer
is shorter than 16 bits can tell, and those fit into an `int` (`LengthAssumption`).

`WapiScan` is what remains for a caller: a call of `wapi_scan_coll()` begins, takes one
result (`Take`, when no scan is under way) and returns the list of it, or -1 and
perhaps a part. The refinement (`ScanContract`) maps `taken` to the result being
processed while `pc` is `events` (`InHand`), and the call, its value and its list to what
the caller sees of them (`SeenCall`, `SeenRet`, `SeenList`); enlarging the buffer and
extracting events stutter.

### WapiUnits and WapiAccessors

A `struct iw_freq` is a mantissa and an exponent; `Float2Freq` keeps up to `Plain` digits
after the first as they are and `Digits` of more (8 and 6 in the code), `Freq2Float` is
the product. `Freq2Chan` and `Chan2Freq` are the loops over `iw_range.freq`.

A getter is the set of what it may give for a setting of the kernel, empty where it
returns -1; a setter is the set of what the kernel may be told. Where the code leaves a
field of a stack structure unset (`disabled`) any value is possible; an ESSID that the
kernel returns without a terminator may read on (`junk`). Flags are sets of bits, so
that the masks that are 0 (`IW_FREQ_AUTO`, `IW_TXPOW_DBM`) are the empty set. The kernel
stores what it is told, and derives the netmask when the address changes (`Stored`).

### WapiProc, WapiConf, WapiSample

In `WapiProc`, `file` is the list being read, `step` the place in the call. One `Refill` is
one `read()` of `Chunk` lines at the position `pos` of the file as it is at that moment;
`fgets()` takes lines off `buffer`. `table` is the kernel's, and changes between any two
steps (`Comes`, `Goes`, and `SetIfDown`, with which the kernel drops the routes). `seen`,
`moved`, `broken` and `failed` are history. `files`, `nodes`, `strings` count what is open and
allocated.

In `WapiConf`, `todo` are the settings to go through; each goes from `get` through (for the
frequency) `chan`, `freq`, `found` to `set`, and to the next. `last` records what a setting was
at first or was last made by others, `raced` that somebody else made the one that is about
to be written back, `lost` those settings this program undid.

`WapiSample` runs the parts one after another. `ReadLists` and `Configure` are a step of the
part; the scan is by the calls of `WapiScan`. `Elsewhere` is a step of other programs, which
is only taken where the part that is running could notice.

## What is checked

| run | question | result |
|---|---|---|
| `im_recovery` | Two runs with any failure, any read that lost entries and death anywhere, then one without, on either board: does success mean a complete set-up, does each radio keep an interface, does the last run succeed and leave nothing but the three interfaces, in which step only can the TI chip lose its last active interface, does a delete loop keep to its radio, is nothing changed on a board without a TI address, does a run give up only for a cause of its own, is `SteadyInv` an invariant? | holds |
| `im_hotplug` | Radios reset between any two calls, with failures, reads that lost entries and a restart: is each set-up interface on its radio, is none deleted, do the variables keep their types, is `IndInv` an invariant? | holds |
| `im_stale_list` | Does the list match the interfaces after the final re-read? | violated |
| `im_blackout` | Is the TI chip always left an active interface on a restart? | violated |
| `im_unique_mac` | Does the first run succeed when the driver insists on distinct addresses? | violated |
| `nl_requests` | Any sequence of requests with any step failing and any replies of a dump lost: no leak, requests as promised, what was carried out denied only when `nl_wait_for_ack()` fails, does the receive loop wait in vain only for what was lost, does every other call return? | holds |
| `nl_send_hangs` | Does a dump return even if it could not be sent? | violated |
| `io_requests` | Any sequence of ioctl requests, descriptor 0 free, others writing flags: is only descriptor 0 ever lost, only `IFF_UP` changed? | holds |
| `cs_calls` | Any sequence of opening and tuning with any step failing, `mon0` coming and going: is true the truth until something is lost, are all leaks counted, does every call return? | holds |
| `cs_failed_send` | Is the answer read always the answer to this call? | violated |
| `wl_calls` | Any sequence of scans and interface requests with any step failing, access points coming and going, others scanning: one result per list, nothing left allocated, no giving up without a reason, right answers, every call back, and are the scan calls those of `WapiScan`? | holds |
| `wapi_sample` | The sample program from beginning to end with failures anywhere, others making settings, adding and deleting routes, taking the interface down and scanning: lists as the files, known leaks only, settings kept, the right frequency for a channel, no result older than the scan, an end? | holds |

What the violated ones show:

- `im_stale_list` — `GetInterfaceList()` only appends; `ClearInterfaceList()` has no
  caller. After the "re-read" the list still has the deleted `wlan0` and `wlan1`, and
  `sta0` and `ap0` more than once. The same list is what keeps the fallback `phyId = 1`
  from ever being used (below), so clearing it needs care.
- `im_blackout` — a run that brings `sta0` up while the base interface is inactive,
  then stops, leaves `sta0` as the only active interface of the chip; the next run
  takes `sta0` down first.
- `im_unique_mac` — `sta0` and `ap0` get the same random address; the log of
  21 February shows a driver refusing it ("Name not unique on network").
- `nl_send_hangs` — the result of `nl_send_auto()` is dropped and the loop waits for
  a reply to a request never made.
- `cs_failed_send` — a message that could not be sent has used up a number. From then
  on the reply to each request is taken for an error, the kernel tunes the radio and
  `SetChannel()` returns false, until the connection is opened anew.

Disagreements that are seen in the models and have no run of their own:

- `Nl80211Base.cpp:263-266` ignores the result of `nl_recvmsgs()`. When a turn of the loop
  fails, interfaces that were read are missing in the list although `GetInterfaceList()`
  returns true (`Lose`); when the end of the dump or the refusal was among what was lost,
  the loop waits for ever (`Unanswered`), where `InterfaceManagerNl80211.cpp:32-33` promises
  false. `wireless.c:1024` has the same loop.
- A base interface whose deletion fails is passed over ("continuing...") and success is
  reported with it in place, although `main.cpp:37` counts on it being deleted;
  `OnlySetupRemains` therefore is claimed for runs without failures only.
- `DeletesOnlyItsPhy` is claimed while no radio comes or goes. With hot-plugging it does not
  hold: a loop that visits `wlan0` twice, since it is listed twice, can delete the interface
  of the USB radio that came back under that name between the visits.
- `sample.c:16-18` says of each property "we try to set that property with the same value".
  `IW_FREQ_AUTO` and `IW_TXPOW_DBM` are masks without a bit, so a fixed frequency is read and
  written back as automatic and any power as dBm; `disabled` of bit rate and power is
  written uninitialised; an ESSID read without a terminator is written with what follows it,
  and `wapi_set_essid()` tells the kernel the length `snprintf()` would have needed, where
  `wapi.h:283` says "At most WAPI_ESSID_MAX_SIZE characters are read". `Kept` says what does
  remain of each setting.
- What another program sets between a getter and its setter is undone, and writing back an
  old address brings another netmask: `lost` holds exactly these settings.
- `wapi_get_routes()` sets `ret` to -1 when memory runs out and returns 0 (`GivenUp`).
- `sample.c:204` goes on when `wapi_scan_init()` failed, and then shows the list of an
  earlier scan; `FreshResult` is about scans that were begun.
- A line of `/proc/net` can be listed twice, or not at all, when another comes or goes while
  the file is read; `CollectsTable` claims all lines in order for a file that did not change.
- `wapi_if_add()` and `wapi_if_del()` may report an error for what the kernel has done;
  `AnsweredRight` claims that 0 is the truth, and is returned when nothing failed.
- `chan` is uninitialised when `wapi_freq2chan()` failed, and is used (`FindFreq`).
- `wapi.h:54` says that `wapi_get_ifup()` gives 0 for an interface that is up; it gives 1.
- An access point of which nothing but the address is reported is listed twice if it is
  the last one (`WholeList`), and a result of more than 32768 bytes is never collected
  (`GivesUpOnHugeOnly`).

### Bounds

- Two radios and two base names: the program insists on exactly two wiphys
  (`phys.size() == 2`), each with one interface at boot.
- `MaxRuns` 3 with two faulty runs: a run sees the leftovers of a run that saw
  leftovers itself. What a run leaves is a state of the same few interfaces, so a
  third generation adds nothing new.
- `MaxPhy` 3: each radio can reset once or one of them twice, enough for a stale
  entry of each kind. The proofs have no such bound.
- `Tails` two values in `im_unique_mac`, where addresses are compared; one elsewhere, since
  without `UniqueMac` nothing looks at those bytes.
- `MaxLost` 2 in `im_recovery`: a read can lose one radio's base interface, one of the three
  that were set up, or one of each. With 5, more than there can be, it holds as well, on
  1.2 million states; `im_hotplug` has 5. The proofs have
  no such bound.
- `Names` two, `MaxIndex` 3, `MaxList` 4: two dumps of all there is, or one of
  both after a re-creation, one interface replaced during a call. Three handles are
  all a request can hold.
- `MaxFd` 5: three descriptors more than the two taken, so that `socket()` succeeds
  with room to leak and also fails.
- `cs_calls`: three handles, one more than a socket and a message, so that a leak and a
  full heap both occur; `MaxSeq` 3, enough for a lost number, a call out of step and a
  third; `MaxIndex` 2, `mon0` made anew once; channels 0, 1, 14 and 36 around the
  boundaries of the conversion. Its arithmetic does not overflow for channels below
  858 million.
- `wl_calls`: three access points with results of up to 11 events, a buffer of 1, 2, 4,
  8 events and the length wrapping to 0 at 16: results that fit at once, after growing,
  never. Two names and ifindexes up to 2 (3 with one that is added).
- `wapi_sample`: `Chunk` 2, so that a file is read in two pieces, and a line can come or go
  between them, also the headers of one file and a line of the other in one piece. `Plain` 4
  and `Digits` 2 stand for 8 and 6, with frequencies of up to six digits: one that fits, in two
  encodings, one that is rounded to itself, one that is not. `MaxTries` 2. `MaxOthers` 1: in one
  execution others act once; `FaultSets`: the calls of one kind fail in one execution, in any
  places (opening and reading files; memory; socket and ioctls). The proofs have none of
  these bounds.

`CHECK_DEADLOCK FALSE` is used where the system really stops: after the last run of
`MaxRuns`, when `MaxIndex` is reached with a list that may not grow, when `MaxSeq` is reached,
and for the hang.

### Fairness

`WF_vars(Program)` and `WF_vars(Step)`: the process is scheduled while it has a step to take.
The kernel answers each request it was sent, but the answer can be lost, and `Returns` says
what then is not claimed; there is no fairness on failing or on not failing, on restarts,
deaths or radios. In `Wireless`, where a loop could otherwise be ended by a failure alone, the
condition is `WF_vars(Step /\ (faulty' => faulty))`: the process goes on but nothing has to
fail. (In the other modules a step that succeeds is enabled wherever one that fails is, and no
loop goes round without progress.) The sample program ends under `WF_allVars(Main)` alone: its
loops are bounded by the files and by `sleeptries`, whether or not a scan ever ends.
`Recovers` asks for success in a run in which `MayFail` is false, from whatever the faulty
runs left.

## What is proved

All theorems hold for every value of the constants that satisfies the modules'
named assumptions: any sets of base names, tails and handles, any number of runs,
re-plugs, requests, descriptors, any settings, tables and sizes of `read()`, any number of
steps of other programs. Each is an inductive invariant, with one lemma or step per
action, or follows from one step by step.

**Start-up, with radios that come and go: `Invariance`, `TypeCorrectness`,
`SetupStaysOnItsRadio`, `SetupIsNeverDeleted`, `NothingIsTouched`** (`InterfaceManagerProofs`)
are about `HotplugSpec`, but for the last, which is about `Spec`. All of them hold although
any read may have lost any entries. `SetupOnItsRadio` is not inductive. That `sta0` is created
on the TI chip depends on `tiPhy`, an index read earlier; that `mon0` is not depends on
`phyId`, taken from the list two reads later. `IndInv` adds:

1. indexes in use differ and are below `nextPhy`, so an index noted earlier is that of
   the same radio or of none (`WiphysDiffer`);
2. an address tells the radio, also after the program changed it, because it keeps the
   OUI (`VifsConsistent`);
3. so does a list entry, however old (`EntriesConsistent`);
4. the first read found two indexes, and its entries stay, since nothing clears the
   list: hence an entry that is not the TI chip's exists whenever `phyId` is looked up,
   and the fallback 1 is never taken (`FirstRead`, `PhysSelected`);
5. the delete loops hold entries of base interfaces only (`LoopsSpareSetup`).

`SetupIsNeverDeleted` follows from 5 step by step, `NothingIsTouched` from 4: the program
gets as far as changing an interface only when the first read found a TI address.
`GotList_Cleared` shows what 4 rests on: with a list that is cleared before each read,
`phyId = 1` can be the TI chip.

**Start-up, while none does: `SteadyInvariance`, `RadiosStayListed`, `SuccessMeansReady`,
`NothingElseRemains`, `LoopsDeleteTheirOwn`, `BlackoutIsAtRestart`, `RunsGiveUpForCause`**
(`InterfaceManagerSteadyProofs`) are about `Spec`. `SteadyInv` is `IndInv` and:

1. the wiphy indexes are those of the power-on (`Attached`), so an entry of the list may be
   of an interface that is gone but never names the wrong radio, and in a run
   without failures no base interface is missing in the list (`ListTrue`);
2. what the run brought up stays up and of its type (`Progress`), whence
   `SuccessMeansReady`;
3. a delete loop holds entries of one wiphy index (`LoopsOnPhy`), and while nothing fails
   all that are left on it (`LoopsComplete`), whence `NothingElseRemains`;
4. a radio loses interfaces only in a loop that begins when another one on it is up, so
   that each has one whenever the list is read (`EveryRadioListed`, with 2 and 3);
5. in the first run `sta0` does not exist before it is created, and is created inactive
   (`FirstRun`), so only a later run can take down an active `sta0`: `BlackoutIsAtRestart`;
6. in a run without failures, once the list was read, each of `sta0`, `ap0` and `mon0` that
   exists is in it, unless this run created it since (`ListKnowsSetup`), and it is listed
   under its own radio's index (1). So creation is only tried on what does not exist, whatever
   earlier runs left behind, and with 4 and `FirstRead` no step of an undisturbed run fails:
   `RunsGiveUpForCause`. It is the half of `Recovers` that needs no fairness; with the mutant
   `Known_Never` the second run fails on the `sta0` of the first.

**Requests: `NothingLeaks`, `TypeCorrectness`, `CallsKeepTheirPromises`, `DoneIsNotDenied`,
`LoopIsEnded`** (`Nl80211InterfaceAdminProofs`). `HeldInv` says at each step which pointers
are null, so that none is overwritten while it refers to something. The third is the
refinement of `Nl80211Requests`: `Protocol` says what the socket holds at each place of a call
(an ACK only if the request was served, no interface twice in a dump, nothing after its end),
and each step is a step of the contract or stutters: no interface is appended that was not in
the dump, or twice, and what the list lacks when true is returned is what failing turns of the
receive loop lost, nothing if there was none. That the kernel can list the interfaces in some
order needs that they are finitely many (`Finite`) and that an injection of `1..n` into a set
of `n` elements is onto it. The contract allows a call that was served to return false.
`DoneIsNotDenied` says when it does: only when `nl_wait_for_ack()` fails. It needs that the
error code is of this call, reset by `SetupCallback()` and changed by no reply of a dump
(`CodeIsFresh`); the mutant `SetupCallback_StaleError` lets the refusal of one list make the
next, complete one look refused. `LoopIsEnded` says of the loop that only a reply ends that it
waits in vain only when that reply, or the request, was lost: what waits in the socket always
ends with the end of a dump or a refusal (`EndsWell`), either ends the loop when it is
handled, and it goes away unhandled only with a turn that fails. With the mutant
`Handled_NoFinish` the loop goes round after a complete dump.

**Ioctls: `LeaksDescriptorZeroAtMost`, `OneSocketAtMost`, `TypeCorrectness`,
`OnlyUpIsChanged`** (`IfIoctlsProofs`). `FdInv` bounds `m_fd` and the open sockets; every action
is an `Open` followed by one of two endings, so one lemma covers all of them. The
second of them assumes in its statement that descriptor 0 is taken.

**Channels: `TypeCorrectness`, `LeaksAreCounted`, `TellsTheTruth`**
(`ChannelSetterNl80211Proofs`). What is allocated and no longer pointed to is at most `leaks`
(`Counted`). While `clean`, `seqExpect` is the number of the one reply in the socket
(`InStep`), so the answer read is the answer to the call. `TellsTheTruth` assumes
`BandExact`, that the frequencies of the band are those the program computes. It leaves out
5035 to 5060 MHz, whose channels 7 to 12 also are channels of 2.4 GHz.

**`wireless.c`, memory and answers: `NothingIsHeld`, `RequestsAreAnsweredRight`**
(`WirelessProofs`). `HeldInv` says what is allocated at each step, `AnswerInv` what the
reply says of the request at each step: nothing is served before it is sent, an ACK means
served, and served without a failure means an ACK. The two ways out, `FreeAndReturn` and
`ExitWith`, are a lemma each.

**`wireless.c`, scan results: `TypesAreCorrect`, `BufferGrowsEnough`,
`OneResultIsCollected`, `KeepsScanContract`** (`WirelessProofs`) hold for any access points,
reports of any length and any limits of the buffer.

1. `BufferInv`: `buflen` is a doubling of the first size, and it is above `Largest` only after
   a result that was. The size the kernel is told is the remainder modulo 2^16, so a buffer
   above `Largest` may again be told to be small; a refusal of it says nothing, but the
   refusal of the one of exactly `Largest` did (`LastThatFits`, `TooBigForLargest`). Hence
   `BufferGrowsEnough`.
2. `ListInv`: while events are left, the last one extracted is the `j`-th of the `i`-th access
   point of the result, for some `i` and `j`; those left are the ones after it in the stream
   (`Place`, `Rest`), and the list is `ListAt(b, i, j)`: the cell of `i` as its first `j` events
   say, in front of the whole cells of those before. `CollectsOneResult` alone is not
   inductive: it does not say which events belong to the newest cell.
3. `ListNoted` and `ListGrows` are the two ways from one event to the next, within an access
   point and to the one that follows. `ListAgain` is the last turn of the loop, which handles
   the last event again: noting a value twice changes nothing (`CellAgain`). Only an address
   adds a second cell when it is handled twice, which is what `WholeList` says of an access
   point that reports nothing else.
4. `KeepsScanContract` takes each step to one of `WapiScan` or to none (`SeenCollect`,
   `SeenNext`, `SeenLast`, `SeenGivenUp`, `SeenRefusal`, `SeenEnvironment`).

What the stream and the cells are for a result of any length, and what the doublings are,
needs induction. The theorems of the library that state it take a predicate as a parameter;
`Induction` states it of a set of numbers, from `NatLessThanWellFounded` and `WFMin`: if the
set is not all of `Nat`, a least number is missing. `Recursion` gives from it the function
that a first value and a step define, `DoubledStep` what `Doubled` is, and `FlattenAppend` that
`FlattenSeq` appends, from which `EventsOf` is followed access point by access point.

**Settings: `SettingsKept`, `FrequencyOfChannel`** (`WapiConfProofs`) are about
`WapiConf` alone, from `SettingsAssumption`. The heart is
`ReadAndWritten`: for each setting, what its getter gives, given to its setter, leaves what
`Kept` says. `Inv` adds
that the value to be written is what would be read again, unless somebody else made the
setting meanwhile (`ReadBack`), and that settings still to come are untouched (`Settled`).
`FrequencyOfChannel` rests on the loops over the device's range ending at the least
matching index (`FirstIsLeast`). `SettingsSurvive` and `FrequencyIsShown`
(`WapiSampleProofs`) carry both over to the whole sample program, each of whose steps is one
of `WapiConf` or leaves its variables alone (`MainConfigures`).

**Lists and scans: `TableCollected`, `NoOtherLeaks`, `TypeCorrectness`, `ResultIsFresh`**
(`WapiSampleProofs`) are about the whole sample program. `ProcInv` says that list and buffer
hold lines that were in the file (`Sound`), that they are, while the file does not
change, its lines up to `pos`, the list in reverse (`Complete`), and that each failure leaves
one `FILE` or one allocation, once (`Held`). `ResultIsFresh` needs that nothing is handed
out while the program's own scan goes on (`Fresh`).

Only model-checked: liveness (`Recovers`, `Returns`, `Terminates`), which is out of the
prover's reach, and the properties that are violated.

## Not modelled

- `Log` (console output) and `ShxWireless.h` (structures of one ioctl).
- The headers of libnl under `netlink/`, 8497 lines and more than all the rest of the source
  together: declarations of a library whose code is not in the repository. What the program
  uses of it is in `Nl80211Base` and `Nl80211InterfaceAdmin`, external. They, and the second
  copy of `wireless.c`, are why the share of the source that the models stand for is small.
- `wapi_dbm2mwatt()`, `wapi_mwatt2dbm()`, `wapi_make_broad_ether()` and
  `wapi_make_null_ether()`, pure conversions nothing calls, and `wapi_get_ifup()`, which
  reads one flag.
- The argument handling of `ifadd.c` and `ifdel.c`; their one call each is in `Wireless`.
- Notes, session logs, archives, build files.

The contents of messages are reduced to what decides a branch.

## Plan

1. done: `InterfaceManager`, its runs, both invariants and their proofs.
2. done: `Nl80211Base`, `Nl80211InterfaceAdmin`, the contract, the proof that it is kept.
3. done: `IfIoctls` and its theorems.
4. done: `ChannelSetterNl80211` and its theorems.
5. done: `Wireless`, `WapiScan`, every safety property proved, and that the one implements
   the other.
6. done: the rest of the library and the sample program, with theorems.
7. open: `hostapd` writing flags between the two ioctls of `IfIoctls` while
   `InterfaceManager` runs, which now is split between the two modules.
