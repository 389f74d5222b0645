-------------------------------- MODULE Doze --------------------------------
(***************************************************************************)
(* The ambient display application (doze/): the settings, the boot         *)
(* receiver, DozeService and its two sensors.  Everything runs on the      *)
(* application's main thread, but what the system sends it - service       *)
(* starts and stops, screen broadcasts, sensor events - arrives later than *)
(* it was sent.  Time passes in ticks; an age stops counting at the        *)
(* largest value the code compares it with.                                *)
(***************************************************************************)
EXTENDS Naturals, Sequences

CONSTANTS HandwaveMax,  \* HANDWAVE_MAX_DELTA_NS, in ticks
          PocketMin,    \* POCKET_MIN_DELTA_NS, in ticks
          TiltMin,      \* MIN_PULSE_INTERVAL_MS, in ticks
          MaxQueue      \* bounds the messages that wait for the main thread

ASSUME TimesAssumption == /\ HandwaveMax \in Nat /\ TiltMin \in Nat
                          /\ PocketMin \in Nat /\ HandwaveMax <= PocketMin
ASSUME QueueAssumption == MaxQueue \in Nat

VARIABLES dozeEnabled, pref,    \* the secure setting and the preferences
          booted, screenOn,
          service,      \* whether DozeService exists
          queue,        \* messages the main thread has not handled yet
          tiltOn, proximityOn,  \* whether each listener is registered
          tiltAge,      \* the time since mEntryTimestamp
          mSawNear,
          pocketAge,    \* the time since mInPocketTime
          covered,      \* external: whether something covers the sensor
          coverAge,     \* external: and for how long
          event,        \* a proximity event on its way to the listener
          raced,        \* history: a gesture was switched while a broadcast
                        \* was on its way to the receiver of this service
          started,      \* history: a start was sent at boot or since
          told,         \* history: this service was sent a broadcast
          tiltPulseAge, \* history: the time since the last tilt pulse
          pulse         \* history: what the last pulse was launched for

settings == <<dozeEnabled, pref, started>>
tilt == <<tiltOn, tiltAge>>
proximity == <<proximityOn, mSawNear, pocketAge, event>>
outside == <<booted, screenOn, covered, coverAge>>
history == <<tiltPulseAge, pulse>>
vars == <<settings, outside, service, queue, tilt, proximity, raced, told,
          history>>

Gestures == {"pickUp", "handwave", "pocket"}
Commands == {"start", "stop"}
Broadcasts == {"screenOn", "screenOff"}
Messages == Commands \cup Broadcasts \cup {"forgotten"}
Event == [value : {"none", "near", "far"},
          long : BOOLEAN,       \* it ends a cover of PocketMin or more
          first : BOOLEAN]      \* it is the value found when registering
NoEvent == [value |-> "none", long |-> FALSE, first |-> FALSE]
Pulse == [by : {"none", "tilt", "proximity"},
          spaced : BOOLEAN,     \* TiltMin or more after the last tilt pulse
          pocketOnly : BOOLEAN, \* only the pocket gesture was switched on
          removed : BOOLEAN,    \* a cover of PocketMin or more just ended
          first : BOOLEAN]      \* by the value found when registering

TypeOK == /\ dozeEnabled \in BOOLEAN /\ pref \in [Gestures -> BOOLEAN]
          /\ booted \in BOOLEAN /\ screenOn \in BOOLEAN
          /\ service \in {"stopped", "running"}
          /\ queue \in Seq(Messages) /\ Len(queue) <= MaxQueue
          /\ tiltOn \in BOOLEAN /\ proximityOn \in BOOLEAN
          /\ tiltAge \in 0 .. TiltMin /\ tiltPulseAge \in 0 .. TiltMin
          /\ mSawNear \in BOOLEAN /\ covered \in BOOLEAN
          /\ pocketAge \in 0 .. PocketMin /\ coverAge \in 0 .. PocketMin
          /\ event \in Event /\ raced \in BOOLEAN /\ told \in BOOLEAN
          /\ started \in BOOLEAN
          /\ pulse \in Pulse

Init == /\ dozeEnabled \in BOOLEAN
        /\ pref \in [Gestures -> BOOLEAN]
        /\ booted = FALSE /\ screenOn = TRUE
        /\ service = "stopped"
        /\ queue = <<>>
        /\ tiltOn = FALSE /\ proximityOn = FALSE
        /\ tiltAge = TiltMin /\ tiltPulseAge = TiltMin
        /\ mSawNear = FALSE /\ pocketAge = PocketMin
        /\ covered = FALSE /\ coverAge = 0
        /\ event = NoEvent /\ raced = FALSE /\ told = FALSE
        /\ started = FALSE
        /\ pulse = [by |-> "none", spaced |-> TRUE, pocketOnly |-> FALSE,
                    removed |-> FALSE, first |-> FALSE]

Post(m) == Len(queue) < MaxQueue /\ queue' = Append(queue, m)

-----------------------------------------------------------------------------
(* The boot receiver and the settings. *)

sensorsEnabled == \E g \in Gestures : pref[g]

BootCompleted ==
  /\ ~booted
  /\ booted' = TRUE
  /\ IF dozeEnabled /\ sensorsEnabled
     THEN Post("start") /\ started' = TRUE
     ELSE UNCHANGED <<queue, started>>
  /\ UNCHANGED <<dozeEnabled, pref, screenOn, covered, coverAge, service, tilt,
                 proximity, raced, told, history>>

checkDozeService_StartOnly(enabled) ==
  IF enabled THEN Post("start") ELSE UNCHANGED queue
checkDozeService(enabled) == Post(IF enabled THEN "start" ELSE "stop")

(* onCheckedChanged: the setting, and the service to match it. *)
ToggleDoze ==
  /\ screenOn
  /\ dozeEnabled' = ~dozeEnabled
  /\ checkDozeService(dozeEnabled')
  /\ started' = (started \/ dozeEnabled')
  /\ UNCHANGED <<pref, outside, service, tilt, proximity, raced, told, history>>

(* A gesture's switch changes its preference and nothing else: nobody      *)
(* registers onPreferenceChange, so checkDozeService is not called.        *)
SwitchGesture(g) ==
  /\ screenOn /\ dozeEnabled
  /\ raced' = (raced \/ \E i \in DOMAIN queue : queue[i] \in Broadcasts)
  /\ pref' = [pref EXCEPT ![g] = ~@]
  /\ UNCHANGED <<dozeEnabled, started, outside, service, queue, tilt, proximity,
                 told, history>>

-----------------------------------------------------------------------------
(* External: the screen, what covers the sensor, and time. *)

ScreenChange ==
  /\ screenOn' = ~screenOn
  /\ IF service = "running"
     THEN Post(IF screenOn' THEN "screenOn" ELSE "screenOff")
     ELSE UNCHANGED queue
  /\ told' = (service = "running")
  /\ UNCHANGED <<settings, booted, covered, coverAge, service, tilt, proximity,
                 raced, history>>

(* A registered listener is told of the change; the flag says that a cover *)
(* long enough for a pocket has just ended.                                *)
CoverChange ==
  /\ event = NoEvent
  /\ covered' = ~covered
  /\ coverAge' = 0
  /\ event' = IF ~proximityOn THEN NoEvent
              ELSE IF covered
              THEN [value |-> "far", long |-> coverAge >= PocketMin,
                    first |-> FALSE]
              ELSE [value |-> "near", long |-> FALSE, first |-> FALSE]
  /\ UNCHANGED <<settings, booted, screenOn, service, queue, tilt, proximityOn,
                 mSawNear, pocketAge, raced, told, history>>

Older(age, limit) == IF age < limit THEN age + 1 ELSE age

(* An event on its way is delivered before the next tick. *)
Tick ==
  /\ event = NoEvent
  /\ tiltAge' = Older(tiltAge, TiltMin)
  /\ tiltPulseAge' = Older(tiltPulseAge, TiltMin)
  /\ pocketAge' = Older(pocketAge, PocketMin)
  /\ coverAge' = IF covered THEN Older(coverAge, PocketMin) ELSE 0
  /\ UNCHANGED <<settings, booted, screenOn, covered, service, queue, tiltOn,
                 proximityOn, mSawNear, event, raced, told, pulse>>

-----------------------------------------------------------------------------
(* The two listeners. *)

EnableTilt_SameEntry == tiltOn' = TRUE /\ UNCHANGED tiltAge
EnableTilt == tiltOn' = TRUE /\ tiltAge' = 0
DisableTilt_Forgotten == UNCHANGED tilt
DisableTilt == tiltOn' = FALSE /\ UNCHANGED tiltAge

(* A listener that is registered anew gets the sensor's present value.     *)
(* mSawNear and mInPocketTime keep what they were.                         *)
EnableProximity ==
  /\ proximityOn' = TRUE
  /\ event' = IF proximityOn THEN event
              ELSE [value |-> IF covered THEN "near" ELSE "far", long |-> FALSE,
                    first |-> TRUE]
  /\ UNCHANGED <<mSawNear, pocketAge>>
DisableProximity ==
  /\ proximityOn' = FALSE
  /\ event' = NoEvent
  /\ UNCHANGED <<mSawNear, pocketAge>>

(* The first event, and then the first one TiltMin after the last that was *)
(* let through; a pulse only if the event says 1.                          *)
TiltEntry == tiltAge' = 0
TiltEvent ==
  /\ tiltOn
  /\ IF tiltAge < TiltMin
     THEN UNCHANGED <<tiltAge, history>>
     ELSE /\ TiltEntry
          /\ \/ UNCHANGED history
             \/ /\ tiltPulseAge' = 0
                /\ pulse' = [by |-> "tilt", spaced |-> tiltPulseAge >= TiltMin,
                             pocketOnly |-> FALSE, removed |-> FALSE,
                             first |-> FALSE]
  /\ UNCHANGED <<settings, outside, service, queue, tiltOn, proximity, raced,
                 told>>

shouldPulse ==
  IF pref["handwave"] /\ pref["pocket"] THEN TRUE
  ELSE IF pref["handwave"] THEN pocketAge < HandwaveMax
  ELSE pref["pocket"] /\ pocketAge >= PocketMin

(* mInPocketTime is set whenever the event is not a removal.               *)
InPocketTime_FarOnly ==
  IF event.value = "far" THEN pocketAge' = 0 ELSE UNCHANGED pocketAge
InPocketTime == pocketAge' = 0
ProximityEvent ==
  /\ event # NoEvent
  /\ mSawNear' = (event.value = "near")
  /\ IF mSawNear /\ event.value = "far"
     THEN /\ IF shouldPulse
             THEN pulse' = [by |-> "proximity", spaced |-> TRUE,
                            pocketOnly |-> ~pref["handwave"],
                            removed |-> event.long, first |-> event.first]
             ELSE UNCHANGED pulse
          /\ UNCHANGED pocketAge
     ELSE InPocketTime /\ UNCHANGED pulse
  /\ event' = NoEvent
  /\ UNCHANGED <<settings, outside, service, queue, tilt, proximityOn,
                 raced, told, tiltPulseAge>>

-----------------------------------------------------------------------------
(* The service. *)

Taken(m) == /\ queue # <<>> /\ Head(queue) = m
            /\ UNCHANGED <<settings, outside, history>>
Handle(m) == Taken(m) /\ queue' = Tail(queue) /\ UNCHANGED <<raced, told>>

(* External: a broadcast on its way to a receiver that is unregistered is  *)
(* dropped when it arrives.                                                *)
Forgotten(q) ==
  [i \in 1 .. Len(q) |-> IF q[i] \in Commands THEN q[i] ELSE "forgotten"]
Drop == Handle("forgotten") /\ UNCHANGED <<service, tilt, proximity>>

ProximityWanted == pref["handwave"] \/ pref["pocket"]

(* onCreate makes the sensor objects anew; a second start changes nothing. *)
OnCreate ==
  /\ Handle("start")
  /\ IF service = "stopped"
     THEN /\ service' = "running"
          /\ mSawNear' = FALSE /\ pocketAge' = PocketMin /\ tiltAge' = TiltMin
          /\ UNCHANGED <<tiltOn, proximityOn, event>>
     ELSE UNCHANGED <<service, tilt, proximity>>

OnDestroy_IfPreferred ==
  /\ Taken("stop")
  /\ queue' = Forgotten(Tail(queue)) /\ raced' = FALSE /\ told' = FALSE
  /\ service' = "stopped"
  /\ IF pref["pickUp"] THEN DisableTilt ELSE UNCHANGED tilt
  /\ IF ProximityWanted THEN DisableProximity ELSE UNCHANGED proximity
OnDestroy ==
  /\ Taken("stop")
  /\ queue' = Forgotten(Tail(queue)) /\ raced' = FALSE /\ told' = FALSE
  /\ service' = "stopped"
  /\ DisableTilt
  /\ DisableProximity

(* Both ask the preferences of the moment; a broadcast that arrives finds  *)
(* its service running.                                                    *)
OnDisplayOn_HandwaveOnly ==
  /\ Handle("screenOn")
  /\ IF pref["pickUp"] THEN DisableTilt ELSE UNCHANGED tilt
  /\ IF pref["handwave"] THEN DisableProximity ELSE UNCHANGED proximity
  /\ UNCHANGED service
OnDisplayOn ==
  /\ Handle("screenOn")
  /\ IF pref["pickUp"] THEN DisableTilt ELSE UNCHANGED tilt
  /\ IF ProximityWanted THEN DisableProximity ELSE UNCHANGED proximity
  /\ UNCHANGED service

OnDisplayOff ==
  /\ Handle("screenOff")
  /\ IF pref["pickUp"] THEN EnableTilt ELSE UNCHANGED tilt
  /\ IF ProximityWanted THEN EnableProximity ELSE UNCHANGED proximity
  /\ UNCHANGED service

(* The process is killed; the system creates a START_STICKY service again, *)
(* and the broadcasts that were on their way are lost.                     *)
ProcessRestart ==
  /\ service = "running"
  /\ tiltOn' = FALSE /\ proximityOn' = FALSE /\ event' = NoEvent
  /\ mSawNear' = FALSE /\ pocketAge' = PocketMin /\ tiltAge' = TiltMin
  /\ queue' = Forgotten(queue) /\ raced' = FALSE /\ told' = FALSE
  /\ UNCHANGED <<settings, outside, service, history>>

-----------------------------------------------------------------------------
Next == \/ BootCompleted \/ ToggleDoze
        \/ \E g \in Gestures : SwitchGesture(g)
        \/ ScreenChange \/ CoverChange \/ Tick
        \/ TiltEvent \/ ProximityEvent
        \/ OnCreate \/ OnDestroy \/ OnDisplayOn \/ OnDisplayOff
        \/ Drop \/ ProcessRestart

Spec == Init /\ [][Next]_vars

-----------------------------------------------------------------------------
(* Properties. *)

(* No listener outlives the service: onDestroy unregisters both, whatever  *)
(* the preferences are by then.                                            *)
ListenersInService == tiltOn \/ proximityOn => service = "running"

(* Once every message is handled the sensors follow the screen: none is    *)
(* registered while it is on, and while it is off those the preferences    *)
(* ask for and no others, although onDisplayOn and onDisplayOff each ask   *)
(* the preferences of their moment - unless a gesture was switched while a *)
(* broadcast was on its way.  A service created with the screen off has no *)
(* sensor until the screen changes: onCreate registers the receiver only.  *)
ListenersFollowScreen ==
  queue = <<>> /\ ~raced =>
    /\ screenOn => ~tiltOn /\ ~proximityOn
    /\ ~screenOn /\ told => /\ tiltOn <=> pref["pickUp"]
                            /\ proximityOn <=> ProximityWanted

(* Once every message is handled the service runs if and only if ambient   *)
(* display is switched on, however fast it was switched - unless no start  *)
(* was ever sent: a boot that finds no gesture sends none, and a gesture   *)
(* switched on later does not either.                                      *)
ServiceFollowsSwitch ==
  queue = <<>> => /\ service = "running" => dozeEnabled
                  /\ dozeEnabled /\ started => service = "running"

(* Two tilt pulses are MIN_PULSE_INTERVAL_MS apart, even if the sensor or  *)
(* the screen was switched in between.                                     *)
TiltPulsesSpaced == pulse.by = "tilt" => pulse.spaced

(* A tilt pulse, which is when its age falls, is launched only while the   *)
(* pick-up gesture is switched on, although TiltSensor never asks: it is   *)
(* registered under a preference that stays on - unless a gesture was      *)
(* switched while a broadcast was on its way.                              *)
TiltPulseAsked ==
  [][tiltPulseAge' < tiltPulseAge => pref["pickUp"] \/ raced]_vars

(* With the pocket gesture alone, a pulse that is not launched by the      *)
(* value the sensor has when it is registered ends a cover of              *)
(* POCKET_MIN_DELTA_NS: while the listener stays registered, mSawNear and  *)
(* mInPocketTime are those of the cover that ends.                         *)
PocketPulseWhileRegistered ==
  pulse.by = "proximity" /\ pulse.pocketOnly /\ ~pulse.first => pulse.removed

(* "Pulse notifications on removal from pocket", and "minimum time until   *)
(* the device is considered to have been in the pocket": with the pocket   *)
(* gesture alone, a pulse comes when a cover of that time ends.            *)
PocketPulseOnRemoval ==
  pulse.by = "proximity" /\ pulse.pocketOnly => pulse.removed
=============================================================================
