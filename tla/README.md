# A TLA+ model of the MediaTek common device tree

This directory specifies, model-checks and proves properties of the parts of
`android_device_mediatek_common` that hold state and run concurrently with
something: the telephony RIL wrapper, the lights HAL, the ambient display
service, the Wi-Fi driver commands, the power HAL and the interface helpers of
`libshims`. Paths below are relative to `src/`.

## 1. Inventory

| Component | State it keeps | Operations | Interacts with | What is hard |
|---|---|---|---|---|
| RIL, data calls (`ril/.../MediaTekRIL.java`) | `dataCallCids`: the context id of each data interface | `setupDataCall`, `deactivateDataCall`, the answer of a setup (`processSolicited` -> `fetchCidFromDataCall`) | telephony framework above, modem below; phone thread and RILReceiver thread share the table with no lock | overlapping requests, answers out of order, refused requests, daemon restart, full table |
| RIL, emergency numbers (`MtkEccList.java`, `dial`) | static list of `ecc_list.xml`, static map of the network's categories; properties `ril.ecclist`, `ril.ecclist1` | `updateEmergencyNumbersProperty` after `GET_SIM_STATUS`, `isEmergencyNumberExt`, `getServiceCategoryFromEcc`, `dial` | vendor RIL writes the same properties; two RIL instances (slots) update both | read-modify-write of shared properties by three parties, while the main thread reads them |
| RIL, radio power (`MediaTekRIL.java` 366-394) | the properties `persist.radio.airplane.mode.on` and `gsm.ril.eboot` | `setRadioPower` | framework, daemon that connects, modem; the instances of both SIMs share the properties and the modem | off calls that come late, a modem that is off while nobody remembers why, data calls that end with it |
| RIL, the rest of `MediaTekRIL.java` | none | `setInitialAttachApn`, unsolicited messages | framework, modem | - |
| Lights HAL (`liblights/lights.c`) | `g_battery`, `g_notification`, `g_attention`, `g_backlight`, the cached status (`preStatus`) of two LEDs | six `set_light_*` entry points | framework threads, serialized by `g_lock`; sysfs | caches that skip writes, writes that fail, restart of the process |
| Ambient display (`doze/`) | secure setting, three preferences, the service, listener registrations, `mSawNear`, `mInPocketTime`, `mEntryTimestamp` | settings switches, boot receiver, service lifecycle, screen broadcasts, two sensor listeners | Android's activity manager, sensor service | messages that arrive late, preferences that change in between, sticky restart, time thresholds |
| Wi-Fi driver commands (`wpa_supplicant_8_lib/mediatek_driver_cmd_nl80211.c`) | P2P operating channel and channel list (and whether there is P2P), `drv_errors`, the scan loading timeout, the driver's country and the channel list that follows it | one dispatch function of many commands | wpa_supplicant's event loop, kernel driver | order of commands, timeouts, unknown frequencies, steps that fail in the middle |
| Wi-Fi testmode messages (same file, and `mediatek_driver_nl80211.h`) | what the driver was told: filters, test modes, band, stations, suspend mode | the commands that send one message each, the query of statistics | kernel driver, a netlink callback | numbers that are computed, messages that fail although the command answers success, a buffer of the caller |
| Power HAL (`power/power.c`) | `current_power_profile` | `power_hint` | the property `sys.perf.profile` | cache without a lock, restarts |
| libshims (`libshims/netutils.c`) | none of its own: procfs files, descriptors | `ifc_ipv6_trigger_rs`, `ifc_set_throttle`, two ioctls | procfs, netd's socket, kernel | steps that fail in the middle, calls that interleave, a process that dies, a read that waits |
| `cmhw`, init scripts, overlays, policies, symbol stubs | none | one sysfs file; data | - | - |

What makes each correct: a data interface belongs to one call, and a call that
is up has an entry (RIL); every number that must be an emergency call is dialled
as one (ECC); a LED shows the state that owns it (lights); no sensor stays
registered with the screen on, the service follows its switch, pulses keep
their distance (doze); P2P is on the channel it was put on, and gets its own
channels back (Wi-Fi); the driver has what it was last told (testmode); a race
leaves nothing older than itself (power); IPv6 that was turned off comes back,
and every descriptor is closed (libshims); a modem that is off can be started
again (radio power).

## 2. Modules

| Module | What it is | Code |
|---|---|---|
| `DataCallLedger` | abstract: a call is booked before the framework learns of it, unbooked only after it was given up | - |
| `DataCalls` | the table, the three loops, the two threads | `MediaTekRIL.java` 61, 277-323, 396-506 |
| `EccList` | the lists, their updates, dialling | `MtkEccList.java`, `MediaTekRIL.java` 325-366, 407-425 |
| `RadioPower` | `DataCalls` composed with the modem's power and airplane mode | `MediaTekRIL.java` 366-394 |
| `Ril_proofs` | theorems about `DataCalls` and `RadioPower` | - |
| `Lights` | all six lights and the trackball | `lights.c` 76-562 |
| `Doze` | service, sensors, settings, boot | `doze/src/com/cyanogenmod/settings/doze/` |
| `DriverCmd` | SCC/MCC, scan loading, country, private commands | `mediatek_driver_cmd_nl80211.c` |
| `Testmode` | messages to the driver, statistics | `mediatek_driver_cmd_nl80211.c`, `mediatek_driver_nl80211.h` |
| `Power` | the cached profile and its property | `power.c` |
| `NetUtils` | the interface helpers | `netutils.c` |
| `EccList_proofs`, `Lights_proofs`, `Doze_proofs`, `DriverCmd_proofs`, `Testmode_proofs`, `Power_proofs`, `NetUtils_proofs` | the theorems about each, with their lemmas | - |
| `MC_*` | the finite instances | - |

How state and steps correspond to the code:

- **DataCalls.** A step is one iteration of one of the three loops, or the
  sending or reading of one message; each reads or writes the table at most
  once, so interleaving the steps gives every behaviour of two threads that
  share it with no lock. Choosing an interface (`FindInterface`) and sending the
  request (`SendSetup`) are separate steps, and so are freeing an entry and sending
  the deactivation: the receiver can fill the entry that was chosen before the
  setup is sent. `phone` and `receiver` are the two threads' places in
  their loops. `mRequestList` is the superclass's list; `socket` holds the
  answers that have not been read, so they may be read in any order. The test
  and the assignment of `fetchCidFromDataCall` are one step because no other
  thread fills an entry. The table has five entries in the code, of which all
  three loops see the first `NSlots` = 4. `ctx` (which interface a modem context
  runs on) and `calls` (what the framework believes) are external. The modem
  may refuse a deactivation; `LossySpec` adds a network that drops contexts and a
  daemon that restarts. `OneAtATime` is the framework that waits for each answer.
  `missed` and `refused` are history: the calls for which the loop of
  `fetchCidFromDataCall` ended without an entry, and the contexts whose last
  deactivation was refused.
- **RadioPower** extends `DataCalls` and adds the modem: powered off, it takes
  every context with it and the table does not hear of it. `late` holds the SIMs
  whose off call is still to come after airplane mode was switched on; a daemon
  that connects turns the radios off too (`RIL_CONNECTED`, which the superclass
  handles). `forgotten` is history: an off call outside airplane mode has cleared
  the property while the modem was off.
- **EccList.** `ReadList` and `SetList` are the two accesses to one property;
  the lists are sets, as the code asks only for membership and emptiness.
  A number's spelling (separators, a trailing `+`) is not modelled. `dial` keeps
  the state of one classification across the reads of the two properties. The
  vendor RIL writes a list at any moment; `vendor` is history and says whether
  its last write was overtaken by an update that held an older copy. An answer with
  an error and no data is not followed by an update, and an exception, which
  `processSolicited` catches, ends one anywhere (`UpdateThrows`); `skipped` is
  history too: the slots whose last answer has not led to a rewriting of their own
  list by their own instance.
- **Lights.** `g_lock` is held from the entry to the end of a call: a call
  computes its LED operations `todo`, and `blink` (`blink_red` and
  `blink_green`, which are the same function twice) performs one at a time.
  `led` and `jogball` are the hardware; `trusted` records that no write was lost
  since a LED was last set. A restart of the process keeps the hardware.
- **Doze.** All handlers run on the main thread, but behind a queue: service
  starts and stops and screen broadcasts are handled later than they are sent.
  Broadcasts on their way to a receiver that is gone are marked as forgotten and
  dropped when they arrive (`Drop`). Ages stop at the largest
  value the code compares them with; time passes in ticks. A listener that is
  registered gets the sensor's present value (`first` in an event). History says
  what the properties except: `raced` (a gesture was switched while a broadcast was
  on its way), `told` (this service has been sent a broadcast, without which it has
  no sensor) and `started` (a start was sent, at boot or by the main switch).
- **DriverCmd.** The event loop is single-threaded, so a command is one step.
  What a failed `priv_p2p_freq_to_channel` leaves in the two uninitialized
  variables is any member of `Uninitialized`. The P2P and scan commands are in
  the build only with `CONFIG_MTK_WFD_SINK`, `CONFIG_MTK_SCC_MCC` and
  `CONFIG_MTK_STAGE_SCAN`, which the product's configuration has to set.
  `country` is the driver's, `CountryChannels` gives the channels it has in each,
  and `cfg_channels` is wpa_supplicant's copy of them (`p2p->cfg->channels`), read
  again at `EVENT_CHANNEL_LIST_CHANGED`; `configured` is history: the country when
  MCC was last configured. P2P comes and goes (`hasP2p`); with none of it SCC and MCC
  do nothing, but `p2p_use_mcc` uses the null pointer, where the model has no step.
  How wpa_supplicant itself uses P2P's channels for a connection is not modelled.
- **Testmode.** A message is its index and what it sets; what the driver makes of
  the numbers is external and read off the commands' encoding. `asked` is the
  history of what commands that answered success asked for, `lost` of the things
  whose last message did not arrive. A query of statistics keeps its report until
  it is sent. A line of the report is a number, its length a constant. Two packet
  filter words stand for six, which take the same path. Their `strtol` is given the
  address of a char for its end pointer; the model is of a build in which what that
  overwrites is not used later.
- **NetUtils.** A step is one system call of one thread, with its failure.
  `excused` is history: turning IPv6 on failed, or the process died first.
  `leaks` counts the sockets lost where `fdopen` fails. The kernel hands out the
  `Lowest` free descriptor, which is 0 in a process that has closed its standard input
  (`stdin`; `Reopen` is that process opening or closing it): `ifc_set_throttle` takes
  socket 0 for a failure and leaves it open, after which `stdin` is "lost".
- **Power.** `set_power_profile` is three steps: the comparison, the property, the
  cache. `batch` is the history of the profiles of calls that overlap, `mishaps`
  of what else went wrong among them.

Names ending in a suffix (`Clear_Forgotten`, ...) are plausible bugs: no action
uses them. Each property was seen to fail with one of them in place of the
definition of that name.

## 3. Runs

| Run | Instance | Shows |
|---|---|---|
| `datacalls_concurrent` | 2 context ids, 2 entries, 3 serials, refused deactivations, both threads at once, fairness | the calls that are up always have an entry (`CallsBooked`); when a setup is sent no lower interface than its own is available (`SetupSkipsNone`); the ledger is implemented, its liveness included (`ImplementsLedger`) |
| `radio_power` | 3 context ids, 2 entries, 2 serials, 2 SIMs, refused deactivations, dropped contexts, restarts, airplane mode, one request at a time | no two contexts share an interface but refused ones, whatever the modem's power does (`ExclusiveInterfaces`); a setup's interface is the first available one from its choice until its answer is read (`SetupAsksFirstAvailable`); a call is without an entry only if the scan for one met none free, never by the deactivation of another (`CallsKeepEntries`); a modem that is off can be started again (`ModemCanStart`) |
| `datacalls_overlap` | 3 context ids, 3 entries, requests may overlap, nothing is lost | **violation**: two setups outstanding at once are sent with one interface |
| `ecc_updates` | 4 numbers, 2 cards with a number of their own, 2 network lists, the vendor writing at any moment, errors and exceptions | a list the vendor has written ends up updated exactly once, unless an update overtook the write or its own instance skipped it (`UpdatedAfterwards`); a card's numbers stay listed, unless an update overtook the write (`SimEccListed`); no emergency number is dialled as a normal one, nor one as an emergency call that neither a card, the network nor the file makes one (`DialClassified`) |
| `ecc_condition` | the same | **violation** of "ecc only when no sim" with a card in one of two slots |
| `lights_calls` | 6 states, 2 rates, one attention mode, failing writes, restarts | LEDs show their owner, notifications blink at their rate, the trackball has its mode |
| `doze_service` | thresholds 1, 2 and 3 ticks, 2 pending messages | no listener outlives the service (`ListenersInService`), none stays with the screen on and the ones asked for are registered with it off (`ListenersFollowScreen`); the service runs if and only if it is switched on (`ServiceFollowsSwitch`); tilt pulses keep their distance and come only while asked for (`TiltPulseAsked`); a pocket pulse ends a long cover, unless it was the first value after a registration (`PocketPulseWhileRegistered`) |
| `doze_pocket` | the same | **violation** of "pulse on removal from pocket": a pulse although no cover of that length has just ended |
| `driver_commands` | 8 frequencies at the bands' ends, 2 own channels, 2 countries with different channels, 3 ticks, P2P coming and going | P2P is on the asked channel, MCC leaves nothing of SCC and has the channels of the driver's country (`MccRestored`), no timeout cuts a repeated scan loading short (`LoadingNotCutShort`) |
| `testmode_messages` | 2 filters, 2 test modes, 1 station, 2 packet filter words, 2 levels, 2 buffer sizes, one thing out of date at a time | the driver has what it was last told (`DriverFollows`), commands that report success are right (`AnswersHonest`), a report is of its own query (`ReportOfThisQuery`) and whole (`ReportWholeOrEmpty`) |
| `netutils_calls` | 2 threads, 1 interface, 2 values, answers of 19 and 20 bytes, every call failing, fairness | IPv6 is off only with a reason (`Ipv6OffExcused`) and comes back (`Ipv6ComesBack`), descriptors are closed but the two that are counted, where `fdopen` fails and where a socket has number 0 (`DescriptorsClosed`), a throttle request returns (`ThrottleReturns`) |
| `power_profile` | 3 callers, 4 profiles of which one is unknown, restarts | after a race the property and the cache hold profiles of that race (`RaceLeavesRecent`) |

**Bounds.** The data call hazards need two calls, one entry being freed while
another is filled, and one request more than calls, so that a deactivation, a
setup and another operation overlap; the theorems of section 5 hold for every
size.
`radio_power` has the two SIMs there are, and one context more than entries, so
that the table is full of live calls or of the leaked entries of dropped ones, and
the entry of a refused context is given to another. `ecc_updates` has one number of
each condition that the lists treat differently and one for each card, which is a
plain one while the card is out.
Lights has a state for each branch of `set_speaker_light_locked` and two rates,
the least that can be confused. Doze's thresholds keep their order in the code
(1 s < 2 s < 2.5 s); two pending messages are enough for a start and a stop, or
two broadcasts, to be overtaken by a switch. `driver_commands` has both ends of
each band and a frequency outside. `testmode_messages` has the first and the last
filter, two test modes whose addresses are neighbours, a word that fits
`LongMax` = 3 and one that does not, and buffers one byte short of and just long
enough for four lines of `LineLength` = 2; `MaxLost` = 1 bounds the things out of
date at once, as a message touches at most one thing that can be lost.
`netutils_calls` needs two threads on one interface; the two answers are one byte
too short and just enough for `fread`; `MaxLeaks` = 1 bounds the lost sockets.
`power_profile` has three callers, so that one call ends between two that race,
and the theorem holds for any number.

**Assumptions of the passing runs**, named in the configurations or in the properties.
`datacalls_concurrent`: no more contexts than entries, and none dropped by the
network (a full table leaves a call without an entry, which the code accepts).
`radio_power`: one request at a time, which `ExclusiveInterfaces` and
`SetupAsksFirstAvailable` need (with overlapping requests the first is violated, and the
entry a setup has chosen can be filled before it is sent); `ExclusiveInterfaces` excludes contexts whose
deactivation was refused, `CallsKeepEntries` calls whose scan met a full table, and
`ModemCanStart` an off call outside airplane mode, which clears the property.
`ecc_updates`: the list of a slot whose vendor write was overtaken by an update is
excluded until the vendor writes again, and from `UpdatedAfterwards` one that its own
instance skipped, until its next answer; `SimEccAssumption` says that the vendor's list
of an inserted card is never empty, which is how the code tells that there is a card. `testmode_messages`: filter numbers are
0 .. 255; `AnswersHonest` excludes packet filter words above `LongMax`.
`netutils_calls`: the descriptors that a failing `fdopen` loses and a lost
descriptor 0 are counted apart;
`ThrottleReturns` excludes an answer shorter than the 20 bytes that are read.
`power_profile`: a batch in which a property was not set, an unknown profile was
asked for, or which began with a restart, is excluded until the next one; that a race
can leave the property and the cache different, so that the cache blocks the next
correction, is not excluded.
`ListenersFollowScreen` and `TiltPulseAsked` exclude the case where a gesture was
switched while a screen broadcast was on its way (`DozeService.java` 65-73 then asks
preferences that are no longer those it registered by). With the screen off
`ListenersFollowScreen` also excludes a service that was created since the last
broadcast, and `ServiceFollowsSwitch` does not ask a service to run for which no
start was sent (a boot without any gesture switched on).

**Fairness.** `datacalls_concurrent` has the ledger's liveness: an entry of a call
that was given up is freed. It assumes that a thread that is inside a loop gets on
with it, and that the receiver reads what has arrived: both are ordinary Android
threads whose loops neither block nor wait. Nothing is assumed of the modem or of
the framework. `netutils_calls` assumes that a thread inside a helper goes on when
its next system call can return (weak fairness of each thread's steps), and that
netd answers a request it has received; without the latter `fread` would wait for
ever, as the code sets no timeout. Failures are never assumed to stop.

## 4. Disagreements found

1. `setupDataCall` finds "the first available interfaceId" but does not reserve
   it: overlapping setups get the same one (`datacalls_overlap`).
2. `updateEmergencyNumbersProperty` decides per slot that there is no card, so
   `0: ecc only when no sim` (`configs/ecc_list.xml`:8) fails in a phone with one
   card in two slots (`ecc_condition`).
3. `ProximitySensor` keeps `mSawNear` while it is not registered, so that the
   pocket gesture pulses although nothing was just removed (`doze_pocket`).

Seen while reading, with no run of their own:

- The update of one slot's answer rewrites the other slot's list too, and can
  overwrite what the vendor RIL has just put there (`MtkEccList.java` 353-376,
  against "do our own updates afterwards", `MediaTekRIL.java` 421); the properties
  of `ecc_updates` exclude that list.
- `g_trackball` is never assigned, so the test "if the value isn't changing, don't
  set it" (`lights.c` 327-329) never succeeds.
- An off call outside airplane mode clears `persist.radio.airplane.mode.on`; if
  the modem is off, the next on call does not start it (`MediaTekRIL.java` 375).
- A receive filter above 255 spills into the bits that say add or remove
  (`mediatek_driver_cmd_nl80211.c` 1098).
- `ifc_set_throttle` waits for 20 bytes whatever netd answers, and loses its socket
  if `fdopen` fails (`netutils.c` 65-80). A socket with number 0 it takes for a failure,
  and leaves it open (line 60).
- `p2p_use_mcc` uses `global->p2p` with no test (`mediatek_driver_cmd_nl80211.c` 1295),
  and several commands use a `wpa_s` that is never assigned for the interface `ap0`
  (1002-1004, 1037).
- `mtk_rx_packet_filter` gives `strtol` the address of a char for its end pointer
  (`mediatek_driver_cmd_nl80211.c` 1411).
- `set_scan_loading` logs "timeout= 1 second" and registers 10
  (`mediatek_driver_cmd_nl80211.c` 1379-1382).
- `onPreferenceChange` of the doze settings is never registered, so a gesture
  switched on after a boot without any does not start the service.
- An `ecc_list.xml` number of condition 2 ("send to nw as normal call") is sent by
  `dial` as an emergency call.

## 5. Proofs

Every safety invariant a run checks, the action properties `SetupSkipsNone`
and `TiltPulseAsked`, and the safety part of the refinement are proved for every value of the constants
that the named assumptions of the modules allow. Each proof has the same shape: an
inductive invariant, that the initial states satisfy it, one lemma or step per
action, and the properties as its consequences. The inductive invariants
(`SerialInv`, `BookingInv`, `EntriesAhead`, `EccInv`, `DialJustified`, `LightsInv`,
`DozeInv`, `SensorsKept`, `CoverTimed`, `StartsFollow`, `DriverInv`) are no run's
property; they were checked with TLC on the runs' instances before they were proved.

**`Ril_proofs`**: any sets of context ids and serials, any `NSlots` > 0
(`CidsAssumption`, `SlotsAssumption`, `FrameworkAssumption`). `LossySpec` is the
specification with a network and a daemon that lose contexts; `Spec` implies it
(`LossesOptional`).

- `TypeCorrect`: `LossySpec => []TypeOK`. The loops need that an index that has
  not reached the bound stays within the table when it advances (`Advance`).
- `ScanSkipsNone`: `LossySpec => SetupSkipsNone`. The table changes while
  `setupDataCall` scans it, and again before the request is sent; no entry the scan has
  passed is free by then, because the receiver only fills entries and only the scanning
  thread frees them. The invariant is `ScannedInUse`: what the scan has passed, or
  what lies below the interface that was chosen, is in use.
- `SerialExclusive`: with `OneAtATime`, `LossySpec` keeps `ExclusiveInterfaces` and
  `SetupAsksFirstAvailable`. That two contexts have different
  interfaces now says nothing of the answer on its way. `SerialInv` adds that at
  most one operation is under way (`OneOperation`), that a setup's interface, chosen or
  sent, is that of the first free entry, and that
  an active context owns the entry of its interface, or is about to get it, or
  about to leave, or was refused to (`InterfaceOwned`). `deactivateDataCall` frees
  the entry before the modem has agreed, so a refused context keeps an interface
  that is given away: it is the only one that can share.
- `CallsAlwaysBooked`: if `Cardinality(Cids) <= NSlots`, `Spec => []CallsBooked`,
  with requests that overlap and deactivations that are refused. The assumption is
  that of the code: with more calls than entries the last one finds none and the
  table drops it. `BookingInv` has to show that the receiver's scan for a free
  entry does not run off the end: `ScanBound` counts the entries it has passed and
  the context ids in those ahead of it (`AheadFinite`), which together are fewer
  than the context ids there are.
- `LedgerSafety`: `Spec => Ledger!Safety`, under the same assumption. From
  `BookingInv`: recording an answer maps to the ledger's `Establish`, the request of
  a deactivation to `GiveUp`, freeing an entry to `Free`, and everything else to a
  stutter (`LedgerStep`).
- `LossesKeepEntries`: `LossySpec => []CallsKeepEntries`, with no assumption on the
  number of contexts, on refusals or on the framework: the case
  `CallsAlwaysBooked` leaves out. A call that is being deactivated can be set up
  again, under the same context id, while the scan for its old entry is under way;
  `EntriesAhead` says that the entry it is after is still ahead of the scan, and
  that there is a second one if the call is held again.
- `RadioPowerSafe`: with `OneAtATime`, `RadioSpec` keeps the types, `SerialInv`,
  `ExclusiveInterfaces`, `SetupAsksFirstAvailable`, `CallsKeepEntries` and
  `ModemCanStart`. The data calls'
  steps are those of `LossyNext` (`DataCallStepLossy`), and a modem that is powered
  off only takes contexts away (`FollowStep`), so what was proved of `DataCalls` is
  reused and not proved again.

**`EccList_proofs`**, `EccListSafe`: any numbers, conditions, lists of cards and of
the network. `UpdatedAfterwards` and `DialClassified` speak of moments at
which nothing is under way, or of the end of a dial. `EccInv` adds `ListsSound`
(a list the vendor has written, and every copy an update holds of it, is the
vendor's list as it was or rewritten once), `RewriteDue` (a list that is not rewritten yet
will be: its answer is on the way or its update has not passed the slot, unless the
update was skipped) and
`DialKnows` (what a calm dial has found out so far). That only what
may be an emergency call is sent as one rests on a second layer, `DialJustified`: a calm dial that has
passed the list of a slot with a card knows of a card, since such a list is never
empty, and what is on a list may be an emergency number (`SoundJustified`).

**`Lights_proofs`**, `LightsSafe`: any set of states and rates, writes that fail,
restarts. The properties hold between calls; `LightsInv` says what holds between
two operations of one call: the last operation left for a LED brings it where its
owner wants it (`StatusInv`), the static is right about a LED whose writes were not
lost (`TrustInv`), a LED blinks at the notification's rate or is still to be turned
off before it will (`RateInv`), and `JogballInv`.

**`Doze_proofs`**, `DozeSafe`: any thresholds in the order of `TimesAssumption`, any
length of the queue (`QueueAssumption`). Two of the properties speak of an empty
queue; `DozeInv` says what the queue holds before it is empty: the last command in it
matches the switch (`CommandsFollow`), the last broadcast the screen
(`BroadcastsFollow`), a listener is registered under a preference that is still on
unless a switch raced (`ListenersWanted`), and the tilt sensor's entry is no later
than its last pulse (`TiltTimed`). Three layers follow, each proved on top of
`DozeInv`: `StartsFollow` (a service that was sent a start and is switched on runs,
or the last command on its way is a start), `SensorsKept` (with the screen off and no
broadcast on its way, the sensors registered are those the preferences ask for) and
`CoverTimed` (while the listener stays registered, `mSawNear` and `mInPocketTime` are
those of the present cover). `DozeSafe` also proves the types, which no run asks for. `TiltPulsesAsked` proves an action property: `TiltSensor`
never asks for its preference, and `DozeInv` shows that it does not have to. The
lemmas say what posting, taking and forgetting messages does to the last one of a
kind.

**`DriverCmd_proofs`**, `DriverCmdSafe`: any frequencies, channels, countries and
timeout. `SccOnAskedChannel` needs that `freq_to_channel` is the inverse of the
channel's centre frequency over the whole bands (`FreqToChannelCentre`);
`LoadingNotCutShort` needs `LoadingInv`: a pending timer has exactly the time left
that the loading lacks; and `MccRestored` needs `CfgInv`: while there is P2P,
wpa_supplicant's copy of the channels is that of the driver's country.

**`Testmode_proofs`**, `TestmodeSafe`: any filters up to 255, rates, stations,
words, signal levels, line lengths and buffers, and the addresses of the test modes
in the source. The properties are inductive together (`TestInv`); the work is in
what the numbers mean: that the version above bit 23 does not change an index
(`IndexOf`), that no command's address and data decode to another's thing
(`FilterEffects`, `AddressEffects`), that a message changes no other thing
(`SetOne`, `SetTwo`), how a level is rounded (`Stored`), and that a report is whole
only if its last line fits with the 0 (`Printed`).

**`NetUtils_proofs`**, `NetUtilsSafe`: any finite set of threads
(`ThreadsAssumption`), any interfaces and values. The properties are inductive
together with `Connected`: a throttle request that is past its connect holds the
descriptor that a failing `fdopen` loses;
`DescriptorsClosed` counts the holders (`HoldersCount`) as one enters or leaves.

**`Power_proofs`**, `RaceTheorem`: any callers and any natural numbers as profiles
(`AskedAssumption`). `RaceLeavesRecent` speaks of moments without a call: nothing
in it says what the last of several calls leaves. `BatchInv` adds that the batch
knows every call under way, and that the property (or the cache) can be older than
the batch only while a call is still to set (or assign) it.

Only model-checked, because they rest on fairness: the liveness of the ledger
(`ImplementsLedger`, whose safety part `LedgerSafety` proves), `Ipv6ComesBack` and
`ThrottleReturns`. The three violations are TLC's too.

## 6. Not modelled

- `setInitialAttachApn` and the unsolicited handlers of `MediaTekRIL`: each sends
  one fixed request or notifies registrants, and keeps no state.
- The driver commands `start` and `stop` (one flag of the interface, and the framework is
  told what became of it), the interface `ap0`, `p2p_get_cap` and `p2p_set_cap` (one byte), `MACADDR`,
  `getpower` and the rts commands (they change nothing), the P2P calls at the end
  of the file, which ignore their arguments, and the log of
  `format_sta_statistics`.
- The spelling of numbers, and an `ecc_list.xml` that cannot be parsed.
- `sysfs_write` of `power.c`, which nobody calls, and its empty entry points.
- `cmhw`, the symbol stubs of `libshims`; user interface, resources,
  configuration and policy files.

## 7. Plan

Modelling is complete in the order it was planned (data calls, emergency numbers,
lights, doze, Wi-Fi, radio power, power, libshims); what is left of the code keeps
no state of its own. Every safety property of the passing runs is proved. What is left:

1. The remaining converses of the violations: what an entry that `setupDataCall`
   reserves, and an `mSawNear` that is reset when the listener is registered, would
   restore, as variants of the two actions.
2. The liveness properties, should the prover come to handle fairness.
