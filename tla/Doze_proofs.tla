----------------------------- MODULE Doze_proofs -----------------------------
(* Theorems about Doze, for any time thresholds and any length of the      *)
(* queue of the main thread.                                               *)
EXTENDS Doze, TLAPS

USE TimesAssumption, QueueAssumption

-----------------------------------------------------------------------------
(* Queues of messages. *)

(* The last message of kind K, if there is one, is m; there is none. *)
LastIs(q, K, m) ==
  \A i \in 1 .. Len(q) :
    q[i] \in K /\ (\A j \in i + 1 .. Len(q) : q[j] \notin K) => q[i] = m
NoneOf(q, K) == \A j \in 1 .. Len(q) : q[j] \notin K

(* A message that is posted comes after the others. *)
LEMMA Posted ==
  ASSUME NEW q \in Seq(Messages), NEW m \in Messages, NEW r, r = Append(q, m)
  PROVE  /\ r \in Seq(Messages) /\ Len(r) = Len(q) + 1 /\ Len(q) \in Nat
         /\ r[Len(q) + 1] = m /\ \A i \in 1 .. Len(q) : r[i] = q[i]
OBVIOUS

(* It is the last of its kind. *)
LEMMA PostedOfKind ==
  ASSUME NEW q \in Seq(Messages), NEW K, NEW m \in Messages, m \in K,
         NEW r, r = Append(q, m)
  PROVE  LastIs(r, K, m) /\ ~NoneOf(r, K)
<1>1. Len(r) = Len(q) + 1 /\ Len(q) \in Nat /\ r[Len(q) + 1] = m
  BY Posted
<1>2. ASSUME NEW i \in 1 .. Len(r), \A j \in i + 1 .. Len(r) : r[j] \notin K
      PROVE  r[i] = m
  <2>1. i # Len(q) + 1 => Len(q) + 1 \in i + 1 .. Len(r)
    BY <1>1
  <2> QED
    BY <1>1, <1>2, <2>1
<1>3. Len(q) + 1 \in 1 .. Len(r)
  BY <1>1
<1> QED
  BY <1>1, <1>2, <1>3 DEF NoneOf, LastIs

(* The last of another kind stays the last. *)
LEMMA PostedOther ==
  ASSUME NEW q \in Seq(Messages), NEW K, NEW m \in Messages, m \notin K,
         NEW r, r = Append(q, m), NEW x
  PROVE  /\ LastIs(q, K, x) => LastIs(r, K, x)
         /\ NoneOf(r, K) <=> NoneOf(q, K)
<1>1. /\ Len(r) = Len(q) + 1 /\ Len(q) \in Nat /\ r[Len(q) + 1] = m
      /\ \A i \in 1 .. Len(q) : r[i] = q[i]
  BY Posted
<1>2. ASSUME LastIs(q, K, x), NEW i \in 1 .. Len(r), r[i] \in K,
             \A j \in i + 1 .. Len(r) : r[j] \notin K
      PROVE  r[i] = x
  <2>1. i # Len(q) + 1
    BY <1>1, <1>2
  <2>2. i \in 1 .. Len(q)
    BY <1>1, <2>1
  <2>3. \A j \in i + 1 .. Len(q) : j \in i + 1 .. Len(r) /\ r[j] = q[j]
    BY <1>1, <2>2
  <2> QED
    BY <1>1, <1>2, <2>2, <2>3 DEF LastIs
<1>3. \A j \in 1 .. Len(r) : j \in 1 .. Len(q) \/ j = Len(q) + 1
  BY <1>1
<1>4. 1 .. Len(q) \subseteq 1 .. Len(r)
  BY <1>1
<1>5. NoneOf(r, K) <=> NoneOf(q, K)
  BY <1>1, <1>3, <1>4 DEF NoneOf
<1> QED
  BY <1>2, <1>5 DEF LastIs

(* What is left when the first message is taken. *)
LEMMA Handled ==
  ASSUME NEW q \in Seq(Messages), q # <<>>, NEW r, r = Tail(q)
  PROVE  /\ r \in Seq(Messages) /\ Len(r) = Len(q) - 1 /\ Len(q) \in Nat /\ Len(q) > 0
         /\ Head(q) = q[1] /\ \A i \in 1 .. Len(q) - 1 : r[i] = q[i + 1]
OBVIOUS

(* The last of each kind stays the last until it is taken itself. *)
LEMMA HandledKind ==
  ASSUME NEW q \in Seq(Messages), q # <<>>, NEW r, r = Tail(q), NEW K, NEW x
  PROVE  /\ LastIs(q, K, x) => LastIs(r, K, x)
         /\ LastIs(q, K, x) /\ NoneOf(r, K) => Head(q) = x \/ Head(q) \notin K
         /\ NoneOf(r, K) /\ Head(q) \notin K => NoneOf(q, K)
         /\ NoneOf(q, K) => NoneOf(r, K)
<1>1. /\ Len(r) = Len(q) - 1 /\ Len(q) \in Nat /\ Len(q) > 0
      /\ Head(q) = q[1] /\ \A i \in 1 .. Len(q) - 1 : r[i] = q[i + 1]
  BY Handled
<1>2. ASSUME LastIs(q, K, x), NEW i \in 1 .. Len(r), r[i] \in K,
             \A j \in i + 1 .. Len(r) : r[j] \notin K
      PROVE  r[i] = x
  <2>1. i + 1 \in 1 .. Len(q) /\ r[i] = q[i + 1]
    BY <1>1
  <2>2. ASSUME NEW j \in (i + 1) + 1 .. Len(q)
        PROVE  q[j] \notin K
    <3>1. j - 1 \in i + 1 .. Len(r) /\ r[j - 1] = q[j]
      BY <1>1
    <3> QED
      BY <1>2, <3>1
  <2> QED
    BY <1>2, <2>1, <2>2 DEF LastIs
<1>3. ASSUME NoneOf(r, K), NEW j \in 2 .. Len(q)
      PROVE  q[j] \notin K
  <2>1. j - 1 \in 1 .. Len(r) /\ r[j - 1] = q[j]
    BY <1>1
  <2> QED
    BY <1>3, <2>1 DEF NoneOf
<1>4. ASSUME NoneOf(q, K), NEW j \in 1 .. Len(r)
      PROVE  r[j] \notin K
  <2>1. j + 1 \in 1 .. Len(q) /\ r[j] = q[j + 1]
    BY <1>1
  <2> QED
    BY <1>4, <2>1 DEF NoneOf
<1>5. 1 \in 1 .. Len(q) /\ \A j \in 1 .. Len(q) : j = 1 \/ j \in 2 .. Len(q)
  BY <1>1
<1>6. ASSUME LastIs(q, K, x), NoneOf(r, K), Head(q) \in K
      PROVE  Head(q) = x
  <2>1. \A j \in 1 + 1 .. Len(q) : q[j] \notin K
    BY <1>3, <1>6
  <2> QED
    BY <1>1, <1>5, <1>6, <2>1 DEF LastIs
<1>7. NoneOf(r, K) /\ Head(q) \notin K => NoneOf(q, K)
  BY <1>1, <1>3, <1>5 DEF NoneOf
<1>8. NoneOf(q, K) => NoneOf(r, K)
  BY <1>4 DEF NoneOf
<1>9. LastIs(q, K, x) => LastIs(r, K, x)
  BY <1>2 DEF LastIs
<1> QED
  BY <1>6, <1>7, <1>8, <1>9

(* Forgetting broadcasts keeps the commands and their order. *)
LEMMA ForgottenQueue ==
  ASSUME NEW q \in Seq(Messages), NEW r, r = Forgotten(q), NEW x
  PROVE  /\ r \in Seq(Messages) /\ Len(r) = Len(q) /\ NoneOf(r, Broadcasts)
         /\ LastIs(q, Commands, x) => LastIs(r, Commands, x)
         /\ NoneOf(r, Commands) => NoneOf(q, Commands)
<1>1. \A i \in 1 .. Len(q) : r[i] = IF q[i] \in Commands THEN q[i] ELSE "forgotten"
  BY DEF Forgotten
<1>2. r \in [1 .. Len(q) -> Messages]
  BY DEF Forgotten, Messages
<1>3. r \in Seq(Messages) /\ Len(r) = Len(q)
  BY <1>2
<1>4. \A i \in 1 .. Len(q) : /\ r[i] \notin Broadcasts
                             /\ r[i] \in Commands <=> q[i] \in Commands
                             /\ r[i] \in Commands => r[i] = q[i]
  BY <1>1 DEF Commands, Broadcasts
<1>5. ASSUME LastIs(q, Commands, x), NEW i \in 1 .. Len(r), r[i] \in Commands,
             \A j \in i + 1 .. Len(r) : r[j] \notin Commands
      PROVE  r[i] = x
  <2>1. \A j \in i + 1 .. Len(q) : j \in 1 .. Len(q) /\ j \in i + 1 .. Len(r)
    BY <1>3
  <2> QED
    BY <1>3, <1>4, <1>5, <2>1 DEF LastIs
<1>6. LastIs(q, Commands, x) => LastIs(r, Commands, x)
  BY <1>5 DEF LastIs
<1> QED
  BY <1>3, <1>4, <1>6 DEF NoneOf

-----------------------------------------------------------------------------
(* The inductive invariant. *)

(* The last command on its way matches the switch, and with none on its    *)
(* way the service does.                                                   *)
CommandsFollow ==
  /\ LastIs(queue, Commands, IF dozeEnabled THEN "start" ELSE "stop")
  /\ NoneOf(queue, Commands) /\ service = "running" => dozeEnabled

(* Only a service that runs is sent broadcasts; the last one is of the     *)
(* screen as it is.                                                        *)
BroadcastsFollow ==
  /\ NoneOf(queue, Broadcasts) \/ service = "running"
  /\ LastIs(queue, Broadcasts, IF screenOn THEN "screenOn" ELSE "screenOff")

(* A listener is registered under a preference that is still on, unless a  *)
(* switch raced a broadcast; and none is with the screen on and no         *)
(* broadcast on its way.                                                   *)
ListenersWanted ==
  ~raced => /\ tiltOn => pref["pickUp"]
            /\ proximityOn => ProximityWanted
            /\ screenOn /\ NoneOf(queue, Broadcasts) => ~tiltOn /\ ~proximityOn

(* The tilt sensor lets no event through sooner than after its last pulse. *)
TiltTimed == /\ tiltOn => tiltAge <= tiltPulseAge
             /\ TiltPulsesSpaced

(* All of them together. *)
DozeInv == /\ TypeOK /\ ListenersInService /\ CommandsFollow /\ BroadcastsFollow
           /\ ListenersWanted /\ TiltTimed

(* Nothing runs, nothing is on its way. *)
LEMMA DozeInitial == Init => DozeInv
<1> HAVE Init
<1> USE DEF Init
<1>1. queue \in Seq(Messages) /\ Len(queue) = 0
  OBVIOUS
<1>2. event \in Event /\ pulse \in Pulse /\ pulse.by = "none"
  BY DEF NoEvent, Event, Pulse
<1>3. TypeOK
  <2>1. /\ tiltAge \in 0 .. TiltMin /\ tiltPulseAge \in 0 .. TiltMin
        /\ pocketAge \in 0 .. PocketMin /\ coverAge \in 0 .. PocketMin
        /\ Len(queue) <= MaxQueue
    BY <1>1
  <2> QED
    BY <1>1, <1>2, <2>1 DEF TypeOK
<1>4. /\ CommandsFollow /\ BroadcastsFollow
  BY <1>1 DEF CommandsFollow, BroadcastsFollow, NoneOf, LastIs
<1> QED
  BY <1>2, <1>3, <1>4
     DEF DozeInv, ListenersInService, ListenersWanted, TiltTimed,
                          TiltPulsesSpaced

-----------------------------------------------------------------------------
(* The boot receiver, the settings and the world. *)

(* A command that matches the switch is posted, or the queue is as it was  *)
(* and so is the switch.                                                   *)
LEMMA CommandStep ==
  ASSUME DozeInv, BootCompleted \/ ToggleDoze
  PROVE  DozeInv'
<1> USE DEF DozeInv
<1>1. queue \in Seq(Messages)
  BY DEF TypeOK
<1>2. /\ UNCHANGED <<pref, screenOn, covered, coverAge, service, tilt, proximity,
                     raced, told, history>>
      /\ dozeEnabled' \in BOOLEAN /\ booted' \in BOOLEAN /\ started' \in BOOLEAN
  BY DEF BootCompleted, ToggleDoze, settings, outside, TypeOK
<1>3. ASSUME NEW m, m = IF dozeEnabled' THEN "start" ELSE "stop", Post(m)
      PROVE  DozeInv'
  <2>1. /\ m \in Messages /\ m \in Commands /\ m \notin Broadcasts
        /\ queue' = Append(queue, m) /\ Len(queue) < MaxQueue
    BY <1>3 DEF Messages, Commands, Broadcasts, Post
  <2>2. queue' \in Seq(Messages) /\ Len(queue') = Len(queue) + 1
    BY <1>1, <2>1, Posted
  <2>3. TypeOK'
    BY <1>1, <1>2, <2>1, <2>2 DEF TypeOK, tilt, proximity, history
  <2>4. LastIs(queue', Commands, m) /\ ~NoneOf(queue', Commands)
    BY <1>1, <2>1, PostedOfKind
  <2>5. CommandsFollow'
    BY <1>3, <2>4 DEF CommandsFollow
  <2>6. /\ NoneOf(queue', Broadcasts) <=> NoneOf(queue, Broadcasts)
        /\ \A x : LastIs(queue, Broadcasts, x) => LastIs(queue', Broadcasts, x)
    BY <1>1, <2>1, PostedOther
  <2>7. BroadcastsFollow' /\ ListenersWanted'
    BY <1>2, <2>6
       DEF BroadcastsFollow, ListenersWanted, tilt, proximity, ProximityWanted
  <2>8. ListenersInService' /\ TiltTimed'
    BY <1>2
       DEF ListenersInService, TiltTimed, TiltPulsesSpaced, tilt, proximity,
           history
  <2> QED
    BY <2>3, <2>5, <2>7, <2>8
<1>4. CASE UNCHANGED <<queue, dozeEnabled>>
  <2>1. TypeOK'
    BY <1>2, <1>4 DEF TypeOK, tilt, proximity, history
  <2> QED
    BY <1>2, <1>4, <2>1
       DEF CommandsFollow, BroadcastsFollow, ListenersWanted,
           ListenersInService,
           TiltTimed, TiltPulsesSpaced, tilt, proximity, history,
           ProximityWanted
<1>5. CASE BootCompleted
  <2>1. dozeEnabled' = dozeEnabled
    BY <1>5 DEF BootCompleted, settings
  <2> QED
    BY <1>3, <1>4, <1>5, <2>1 DEF BootCompleted
<1>6. CASE ToggleDoze
  BY <1>3, <1>6 DEF ToggleDoze, checkDozeService
<1> QED
  BY <1>5, <1>6

(* A gesture is switched with the screen on: no listener is registered, or *)
(* a broadcast is on its way and the switch races it.                      *)
LEMMA SwitchStep ==
  ASSUME DozeInv, NEW g \in Gestures, SwitchGesture(g)
  PROVE  DozeInv'
<1> USE DEF DozeInv
<1>1. /\ UNCHANGED <<dozeEnabled, started, outside, service, queue, tilt, proximity,
                     told, history>>
      /\ screenOn /\ pref' \in [Gestures -> BOOLEAN]
  BY DEF SwitchGesture, TypeOK
<1>2. raced' \in BOOLEAN /\ (~raced' => ~raced /\ NoneOf(queue, Broadcasts))
  <2>1. raced' = (raced \/ \E i \in DOMAIN queue : queue[i] \in Broadcasts)
    BY DEF SwitchGesture
  <2>2. DOMAIN queue = 1 .. Len(queue)
    BY DEF TypeOK
  <2> QED
    BY <2>1, <2>2 DEF NoneOf, TypeOK
<1>3. TypeOK'
  BY <1>1, <1>2 DEF TypeOK, outside, tilt, proximity, history
<1>4. ListenersWanted'
  BY <1>1, <1>2 DEF ListenersWanted, tilt, proximity
<1> QED
  BY <1>1, <1>3, <1>4
     DEF CommandsFollow, BroadcastsFollow, ListenersInService, TiltTimed,
         TiltPulsesSpaced, outside, tilt, proximity, history

(* The screen: a service that runs is told. *)
LEMMA ScreenStep ==
  ASSUME DozeInv, ScreenChange
  PROVE  DozeInv'
<1> USE DEF DozeInv
<1>1. queue \in Seq(Messages)
  BY DEF TypeOK
<1>2. /\ UNCHANGED <<settings, booted, covered, coverAge, service, tilt, proximity,
                     raced, history>>
      /\ screenOn' \in BOOLEAN /\ told' \in BOOLEAN
  BY DEF ScreenChange
<1>3. CASE service = "running"
  <2> DEFINE m == IF screenOn' THEN "screenOn" ELSE "screenOff"
  <2>1. m \in Messages /\ m \in Broadcasts /\ m \notin Commands
    BY DEF Messages, Broadcasts, Commands
  <2>2. queue' = Append(queue, m) /\ Len(queue) < MaxQueue
    BY <1>3 DEF ScreenChange, Post
  <2>3. queue' \in Seq(Messages) /\ Len(queue') = Len(queue) + 1
    BY <1>1, <2>1, <2>2, Posted
  <2>4. TypeOK'
    BY <1>1, <1>2, <2>2, <2>3 DEF TypeOK, settings, tilt, proximity, history
  <2>5. LastIs(queue', Broadcasts, m) /\ ~NoneOf(queue', Broadcasts)
    <3> HIDE DEF m
    <3> QED
      BY <1>1, <2>1, <2>2, PostedOfKind
  <2>6. BroadcastsFollow'
    BY <1>2, <1>3, <2>5 DEF BroadcastsFollow
  <2>7. ListenersWanted'
    BY <1>2, <2>5
       DEF ListenersWanted, tilt, proximity, settings, ProximityWanted
  <2>8. /\ NoneOf(queue', Commands) <=> NoneOf(queue, Commands)
        /\ \A x : LastIs(queue, Commands, x) => LastIs(queue', Commands, x)
    <3> HIDE DEF m
    <3> QED
      BY <1>1, <2>1, <2>2, PostedOther
  <2>9. CommandsFollow'
    BY <1>2, <2>8 DEF CommandsFollow, settings
  <2> QED
    BY <1>2, <2>4, <2>6, <2>7, <2>9
       DEF ListenersInService, TiltTimed, TiltPulsesSpaced, tilt, proximity,
           history
<1>4. CASE service # "running"
  <2>1. queue' = queue
    BY <1>4 DEF ScreenChange
  <2>2. NoneOf(queue, Broadcasts) /\ ~tiltOn /\ ~proximityOn
    BY <1>4 DEF BroadcastsFollow, ListenersInService
  <2>3. TypeOK'
    BY <1>2, <2>1 DEF TypeOK, settings, tilt, proximity, history
  <2>4. BroadcastsFollow'
    <3>1. \A x : LastIs(queue, Broadcasts, x)
      BY <2>2 DEF NoneOf, LastIs
    <3> QED
      BY <2>1, <2>2, <3>1 DEF BroadcastsFollow
  <2> QED
    BY <1>2, <2>1, <2>2, <2>3, <2>4
       DEF CommandsFollow, ListenersInService, ListenersWanted, TiltTimed,
           TiltPulsesSpaced, settings, tilt, proximity, history
<1> QED
  BY <1>3, <1>4

(* What the queue, the switches and the listeners are is as it was: only   *)
(* the types and the times are left to show.                               *)
LEMMA QuietStep ==
  ASSUME DozeInv, TypeOK', TiltTimed',
         UNCHANGED <<dozeEnabled, pref, screenOn, service, queue, tiltOn,
                     proximityOn, raced>>
  PROVE  DozeInv'
BY DEF DozeInv, CommandsFollow, BroadcastsFollow, ListenersInService,
       ListenersWanted, ProximityWanted

(* The sensor is covered or uncovered. *)
LEMMA CoverStep ==
  ASSUME DozeInv, CoverChange
  PROVE  DozeInv'
<1>1. /\ UNCHANGED <<dozeEnabled, pref, started, booted, screenOn, service, queue, tiltOn,
                     tiltAge, proximityOn, mSawNear, pocketAge, raced, told,
                     tiltPulseAge, pulse>>
      /\ coverAge' = 0 /\ covered' \in BOOLEAN
  BY DEF CoverChange, settings, tilt, history
<1>2. event' \in Event
  <2> DEFINE long == coverAge >= PocketMin
  <2>1. long \in BOOLEAN
    BY DEF DozeInv, TypeOK
  <2>2. [value |-> "far", long |-> long, first |-> FALSE] \in Event
    <3> HIDE DEF long
    <3> QED
      BY <2>1 DEF Event
  <2> QED
    BY <2>1, <2>2 DEF CoverChange, Event, NoEvent
<1>3. TypeOK'
  <2>1. coverAge' \in 0 .. PocketMin
    BY <1>1
  <2> QED
    BY <1>1, <1>2, <2>1 DEF DozeInv, TypeOK
<1>4. TiltTimed'
  BY <1>1 DEF DozeInv, TiltTimed, TiltPulsesSpaced
<1> QED
  BY <1>1, <1>3, <1>4, QuietStep

(* Time passes for every age alike, up to the limit they share. *)
LEMMA TickStep ==
  ASSUME DozeInv, Tick
  PROVE  DozeInv'
<1>1. UNCHANGED <<dozeEnabled, pref, started, booted, screenOn, covered, service, queue,
                  tiltOn, proximityOn, mSawNear, event, raced, told, pulse>>
  BY DEF Tick, settings
<1>2. /\ tiltAge' \in 0 .. TiltMin /\ tiltPulseAge' \in 0 .. TiltMin
      /\ tiltAge <= tiltPulseAge => tiltAge' <= tiltPulseAge'
  BY DEF DozeInv, TypeOK, Tick, Older
<1>3. pocketAge' \in 0 .. PocketMin /\ coverAge' \in 0 .. PocketMin
  BY DEF DozeInv, TypeOK, Tick, Older
<1>4. TypeOK'
  BY <1>1, <1>2, <1>3 DEF DozeInv, TypeOK
<1>5. TiltTimed'
  BY <1>1, <1>2 DEF DozeInv, TiltTimed, TiltPulsesSpaced
<1> QED
  BY <1>1, <1>4, <1>5, QuietStep

-----------------------------------------------------------------------------
(* The listeners. *)

(* An event that is let through comes TiltMin after the entry, which is    *)
(* no later than the last pulse.                                           *)
LEMMA TiltStep ==
  ASSUME DozeInv, TiltEvent
  PROVE  DozeInv'
<1>1. /\ UNCHANGED <<dozeEnabled, pref, started, booted, screenOn, covered, coverAge,
                     service, queue, tiltOn, proximityOn, mSawNear, pocketAge,
                     event, raced, told>>
      /\ tiltOn
  BY DEF TiltEvent, settings, outside, proximity
<1>2. /\ tiltAge \in 0 .. TiltMin /\ tiltPulseAge \in 0 .. TiltMin
      /\ tiltAge <= tiltPulseAge /\ pulse \in Pulse /\ TiltPulsesSpaced
  BY <1>1 DEF DozeInv, TypeOK, TiltTimed
<1>3. /\ tiltAge' \in 0 .. TiltMin /\ tiltPulseAge' \in 0 .. TiltMin
      /\ pulse' \in Pulse /\ tiltAge' <= tiltPulseAge' /\ TiltPulsesSpaced'
  <2>1. CASE UNCHANGED <<tiltAge, history>>
    BY <1>2, <2>1 DEF history, TiltPulsesSpaced
  <2>2. CASE tiltAge' = 0 /\ UNCHANGED history
    BY <1>2, <2>2 DEF history, TiltPulsesSpaced
  <2>3. CASE /\ tiltAge >= TiltMin /\ tiltAge' = 0 /\ tiltPulseAge' = 0
             /\ pulse' = [by |-> "tilt", spaced |-> tiltPulseAge >= TiltMin,
                          pocketOnly |-> FALSE, removed |-> FALSE,
                          first |-> FALSE]
    <3>1. tiltPulseAge >= TiltMin
      BY <1>2, <2>3
    <3>2. pulse' = [by |-> "tilt", spaced |-> TRUE, pocketOnly |-> FALSE,
                    removed |-> FALSE, first |-> FALSE]
      BY <2>3, <3>1
    <3>3. pulse' \in Pulse /\ pulse'.spaced
      BY <3>2 DEF Pulse
    <3> QED
      BY <2>3, <3>3 DEF TiltPulsesSpaced
  <2>4. tiltAge < TiltMin \/ tiltAge >= TiltMin
    BY <1>2
  <2> QED
    BY <2>1, <2>2, <2>3, <2>4 DEF TiltEvent, TiltEntry
<1>4. TypeOK'
  BY <1>1, <1>3 DEF DozeInv, TypeOK
<1>5. TiltTimed'
  BY <1>3 DEF TiltTimed
<1> QED
  BY <1>1, <1>4, <1>5, QuietStep

(* A proximity event sets the time and may launch a pulse, not a tilt one. *)
LEMMA ProximityStep ==
  ASSUME DozeInv, ProximityEvent
  PROVE  DozeInv'
<1>1. /\ UNCHANGED <<dozeEnabled, pref, started, booted, screenOn, covered, coverAge,
                     service, queue, tiltOn, tiltAge, proximityOn, raced, told,
                     tiltPulseAge>>
      /\ mSawNear' \in BOOLEAN /\ event' = NoEvent
  BY DEF ProximityEvent, settings, outside, tilt
<1>2. pocketAge' \in 0 .. PocketMin
  BY DEF DozeInv, TypeOK, ProximityEvent, InPocketTime
<1>3. pulse' \in Pulse /\ TiltPulsesSpaced'
  <2>1. CASE UNCHANGED pulse
    BY <2>1 DEF DozeInv, TypeOK, TiltTimed, TiltPulsesSpaced
  <2>2. CASE pulse' = [by |-> "proximity", spaced |-> TRUE,
                       pocketOnly |-> ~pref["handwave"], removed |-> event.long,
                       first |-> event.first]
    <3>1. /\ event.long \in BOOLEAN /\ event.first \in BOOLEAN
          /\ (~pref["handwave"]) \in BOOLEAN
      BY DEF DozeInv, TypeOK, Event
    <3> QED
      BY <2>2, <3>1 DEF Pulse, TiltPulsesSpaced
  <2> QED
    BY <2>1, <2>2 DEF ProximityEvent
<1>4. event' \in Event
  BY <1>1 DEF NoEvent, Event
<1>5. TypeOK'
  BY <1>1, <1>2, <1>3, <1>4 DEF DozeInv, TypeOK
<1>6. TiltTimed'
  BY <1>1, <1>3 DEF DozeInv, TiltTimed
<1> QED
  BY <1>1, <1>5, <1>6, QuietStep

-----------------------------------------------------------------------------
(* The messages the main thread takes. *)

(* Taking a message leaves a queue of messages, whose last of each kind is *)
(* as it was.                                                              *)
LEMMA HandleStep ==
  ASSUME DozeInv, NEW m, Handle(m)
  PROVE  /\ queue' \in Seq(Messages) /\ Len(queue') <= MaxQueue
         /\ UNCHANGED <<dozeEnabled, pref, started, booted, screenOn, covered, coverAge,
                        raced, told, tiltPulseAge, pulse>>
         /\ LastIs(queue', Commands, IF dozeEnabled THEN "start" ELSE "stop")
         /\ LastIs(queue', Broadcasts, IF screenOn THEN "screenOn" ELSE "screenOff")
         /\ m \in Commands /\ NoneOf(queue', Commands)
              => m = IF dozeEnabled THEN "start" ELSE "stop"
         /\ m \in Broadcasts /\ NoneOf(queue', Broadcasts)
              => m = IF screenOn THEN "screenOn" ELSE "screenOff"
         /\ m \notin Commands /\ NoneOf(queue', Commands) => NoneOf(queue, Commands)
         /\ m \notin Broadcasts =>
              (NoneOf(queue', Broadcasts) <=> NoneOf(queue, Broadcasts))
         /\ m \in Broadcasts => service = "running"
<1>1. /\ queue \in Seq(Messages) /\ queue # <<>> /\ queue' = Tail(queue)
      /\ Head(queue) = m
      /\ UNCHANGED <<dozeEnabled, pref, started, booted, screenOn, covered, coverAge,
                     raced, told, tiltPulseAge, pulse>>
  BY DEF DozeInv, TypeOK, Handle, Taken, settings, outside, history
<1>2. /\ queue' \in Seq(Messages) /\ Len(queue') = Len(queue) - 1
      /\ Len(queue) \in Nat /\ Len(queue) > 0 /\ Head(queue) = queue[1]
  BY <1>1, Handled
<1>3. Len(queue') <= MaxQueue
  BY <1>2 DEF DozeInv, TypeOK
<1> DEFINE c == IF dozeEnabled THEN "start" ELSE "stop"
           b == IF screenOn THEN "screenOn" ELSE "screenOff"
<1>4. LastIs(queue, Commands, c) /\ LastIs(queue, Broadcasts, b)
  BY DEF DozeInv, CommandsFollow, BroadcastsFollow
<1> HIDE DEF c, b
<1>5. /\ LastIs(queue, Commands, c) => LastIs(queue', Commands, c)
      /\ LastIs(queue, Commands, c) /\ NoneOf(queue', Commands)
           => Head(queue) = c \/ Head(queue) \notin Commands
      /\ NoneOf(queue', Commands) /\ Head(queue) \notin Commands
           => NoneOf(queue, Commands)
  BY <1>1, HandledKind
<1>6. /\ LastIs(queue, Broadcasts, b) => LastIs(queue', Broadcasts, b)
      /\ LastIs(queue, Broadcasts, b) /\ NoneOf(queue', Broadcasts)
           => Head(queue) = b \/ Head(queue) \notin Broadcasts
      /\ NoneOf(queue', Broadcasts) /\ Head(queue) \notin Broadcasts
           => NoneOf(queue, Broadcasts)
      /\ NoneOf(queue, Broadcasts) => NoneOf(queue', Broadcasts)
  BY <1>1, HandledKind
<1>7. m \in Broadcasts => service = "running"
  <2>1. m \in Broadcasts => ~NoneOf(queue, Broadcasts)
    <3>1. 1 \in 1 .. Len(queue)
      BY <1>2
    <3> QED
      BY <1>1, <1>2, <3>1 DEF NoneOf
  <2> QED
    BY <2>1 DEF DozeInv, BroadcastsFollow
<1>8. /\ LastIs(queue', Commands, c) /\ LastIs(queue', Broadcasts, b)
      /\ m \in Commands /\ NoneOf(queue', Commands) => m = c
      /\ m \in Broadcasts /\ NoneOf(queue', Broadcasts) => m = b
      /\ m \notin Commands /\ NoneOf(queue', Commands) => NoneOf(queue, Commands)
      /\ m \notin Broadcasts =>
           (NoneOf(queue', Broadcasts) <=> NoneOf(queue, Broadcasts))
  BY <1>1, <1>4, <1>5, <1>6
<1> QED
  BY <1>1, <1>2, <1>3, <1>7, <1>8 DEF c, b

(* A start: the last one comes with ambient display switched on. *)
LEMMA CreateStep ==
  ASSUME DozeInv, OnCreate
  PROVE  DozeInv'
<1>1. Handle("start")
  BY DEF OnCreate
<1>2. "start" \in Commands /\ "start" \notin Broadcasts
  BY DEF Commands, Broadcasts
<1>3. /\ queue' \in Seq(Messages) /\ Len(queue') <= MaxQueue
      /\ UNCHANGED <<dozeEnabled, pref, started, booted, screenOn, covered, coverAge,
                     raced, told, tiltPulseAge, pulse>>
      /\ LastIs(queue', Commands, IF dozeEnabled THEN "start" ELSE "stop")
      /\ LastIs(queue', Broadcasts, IF screenOn THEN "screenOn" ELSE "screenOff")
      /\ NoneOf(queue', Commands)
           => "start" = IF dozeEnabled THEN "start" ELSE "stop"
      /\ NoneOf(queue', Broadcasts) <=> NoneOf(queue, Broadcasts)
  BY <1>1, <1>2, HandleStep
<1>4. /\ UNCHANGED <<tiltOn, proximityOn, event>> /\ service' = "running"
      /\ mSawNear' \in BOOLEAN
      /\ pocketAge' \in 0 .. PocketMin /\ tiltAge' \in 0 .. TiltMin
      /\ tiltOn => tiltAge' = tiltAge
  <2>1. CASE service = "stopped"
    <3>1. ~tiltOn
      BY <2>1 DEF DozeInv, ListenersInService
    <3>2. /\ service' = "running" /\ mSawNear' = FALSE
          /\ pocketAge' = PocketMin /\ tiltAge' = TiltMin
          /\ UNCHANGED <<tiltOn, proximityOn, event>>
      BY <2>1 DEF OnCreate
    <3>3. PocketMin \in 0 .. PocketMin /\ TiltMin \in 0 .. TiltMin
      OBVIOUS
    <3> QED
      BY <3>1, <3>2, <3>3
  <2>2. CASE service # "stopped"
    BY <2>2 DEF OnCreate, tilt, proximity, DozeInv, TypeOK
  <2> QED
    BY <2>1, <2>2
<1>5. TypeOK'
  BY <1>3, <1>4 DEF DozeInv, TypeOK
<1>6. ListenersInService'
  BY <1>4 DEF ListenersInService
<1>7. CommandsFollow'
  <2>1. NoneOf(queue', Commands) => dozeEnabled
    BY <1>3
  <2> QED
    BY <1>3, <2>1 DEF CommandsFollow
<1>8. BroadcastsFollow'
  BY <1>3, <1>4 DEF BroadcastsFollow
<1>9. ListenersWanted'
  BY <1>3, <1>4 DEF DozeInv, ListenersWanted, ProximityWanted
<1>10. TiltTimed'
  BY <1>3, <1>4 DEF DozeInv, TiltTimed, TiltPulsesSpaced
<1> QED
  BY <1>5, <1>6, <1>7, <1>8, <1>9, <1>10 DEF DozeInv

(* A broadcast that nobody receives any more. *)
LEMMA DropStep ==
  ASSUME DozeInv, Drop
  PROVE  DozeInv'
<1>1. Handle("forgotten") /\ UNCHANGED <<service, tiltOn, tiltAge, proximityOn,
                                         mSawNear, pocketAge, event>>
  BY DEF Drop, tilt, proximity
<1>2. "forgotten" \notin Commands /\ "forgotten" \notin Broadcasts
  BY DEF Commands, Broadcasts
<1>3. /\ queue' \in Seq(Messages) /\ Len(queue') <= MaxQueue
      /\ UNCHANGED <<dozeEnabled, pref, started, booted, screenOn, covered, coverAge,
                     raced, told, tiltPulseAge, pulse>>
      /\ LastIs(queue', Commands, IF dozeEnabled THEN "start" ELSE "stop")
      /\ LastIs(queue', Broadcasts, IF screenOn THEN "screenOn" ELSE "screenOff")
      /\ NoneOf(queue', Commands) => NoneOf(queue, Commands)
      /\ NoneOf(queue', Broadcasts) <=> NoneOf(queue, Broadcasts)
  BY <1>1, <1>2, HandleStep
<1>4. TypeOK'
  BY <1>1, <1>3 DEF DozeInv, TypeOK
<1>5. CommandsFollow'
  BY <1>1, <1>3 DEF DozeInv, CommandsFollow
<1>6. BroadcastsFollow' /\ ListenersWanted'
  BY <1>1, <1>3 DEF DozeInv, BroadcastsFollow, ListenersWanted, ProximityWanted
<1> QED
  BY <1>1, <1>3, <1>4, <1>5, <1>6
     DEF DozeInv, ListenersInService, TiltTimed, TiltPulsesSpaced

(* A stop: the last one comes with ambient display switched off, and no    *)
(* listener is left.                                                       *)
LEMMA DestroyStep ==
  ASSUME DozeInv, OnDestroy
  PROVE  DozeInv'
<1>1. /\ queue \in Seq(Messages) /\ queue # <<>> /\ Head(queue) = "stop"
      /\ queue' = Forgotten(Tail(queue))
      /\ UNCHANGED <<dozeEnabled, pref, started, booted, screenOn, covered, coverAge,
                     tiltPulseAge, pulse, tiltAge, mSawNear, pocketAge>>
      /\ raced' = FALSE /\ told' = FALSE /\ service' = "stopped" /\ tiltOn' = FALSE
      /\ proximityOn' = FALSE /\ event' = NoEvent
  BY DEF DozeInv, TypeOK, OnDestroy, Taken, settings, outside, history,
         DisableTilt, DisableProximity
<1> DEFINE rest == Tail(queue)
           c == IF dozeEnabled THEN "start" ELSE "stop"
           b == IF screenOn THEN "screenOn" ELSE "screenOff"
<1>2. /\ rest \in Seq(Messages) /\ Len(rest) = Len(queue) - 1
      /\ Len(queue) \in Nat
  BY <1>1, Handled
<1>3. LastIs(queue, Commands, c)
  BY DEF DozeInv, CommandsFollow
<1>4. LastIs(rest, Commands, c)
  <2> HIDE DEF c
  <2> QED
    BY <1>1, <1>3, HandledKind
<1>5. /\ queue' \in Seq(Messages) /\ Len(queue') = Len(rest)
      /\ NoneOf(queue', Broadcasts) /\ LastIs(queue', Commands, c)
  <2> HIDE DEF c, rest
  <2> QED
    BY <1>1, <1>2, <1>4, ForgottenQueue DEF rest
<1>6. Len(queue') <= MaxQueue
  BY <1>2, <1>5 DEF DozeInv, TypeOK
<1>7. TypeOK'
  <2>1. event' \in Event
    BY <1>1 DEF NoEvent, Event
  <2> QED
    BY <1>1, <1>5, <1>6, <2>1 DEF DozeInv, TypeOK
<1>8. CommandsFollow'
  BY <1>1, <1>5 DEF CommandsFollow
<1>9. BroadcastsFollow'
  <2>1. \A x : LastIs(queue', Broadcasts, x)
    BY <1>5 DEF NoneOf, LastIs
  <2> QED
    BY <1>5, <2>1 DEF BroadcastsFollow
<1> QED
  BY <1>1, <1>7, <1>8, <1>9
     DEF DozeInv, ListenersInService, ListenersWanted, TiltTimed,
         TiltPulsesSpaced

(* The process dies and its service is created again, with nothing         *)
(* registered.                                                             *)
LEMMA RestartStep ==
  ASSUME DozeInv, ProcessRestart
  PROVE  DozeInv'
<1>1. /\ queue \in Seq(Messages) /\ queue' = Forgotten(queue)
      /\ UNCHANGED <<dozeEnabled, pref, started, booted, screenOn, covered, coverAge,
                     tiltPulseAge, pulse, service>>
      /\ raced' = FALSE /\ told' = FALSE /\ tiltOn' = FALSE /\ proximityOn' = FALSE
      /\ event' = NoEvent /\ mSawNear' = FALSE
      /\ pocketAge' = PocketMin /\ tiltAge' = TiltMin
  BY DEF DozeInv, TypeOK, ProcessRestart, settings, outside, history
<1> DEFINE c == IF dozeEnabled THEN "start" ELSE "stop"
<1>2. LastIs(queue, Commands, c)
  BY DEF DozeInv, CommandsFollow
<1>3. /\ queue' \in Seq(Messages) /\ Len(queue') = Len(queue)
      /\ NoneOf(queue', Broadcasts) /\ LastIs(queue', Commands, c)
      /\ NoneOf(queue', Commands) => NoneOf(queue, Commands)
  <2> HIDE DEF c
  <2> QED
    BY <1>1, <1>2, ForgottenQueue
<1>4. TypeOK'
  <2>1. event' \in Event
    BY <1>1 DEF NoEvent, Event
  <2>2. pocketAge' \in 0 .. PocketMin /\ tiltAge' \in 0 .. TiltMin
    BY <1>1
  <2> QED
    BY <1>1, <1>3, <2>1, <2>2 DEF DozeInv, TypeOK
<1>5. CommandsFollow'
  BY <1>1, <1>2, <1>3 DEF DozeInv, CommandsFollow
<1>6. BroadcastsFollow'
  <2>1. \A x : LastIs(queue', Broadcasts, x)
    BY <1>3 DEF NoneOf, LastIs
  <2> QED
    BY <1>3, <2>1 DEF BroadcastsFollow
<1> QED
  BY <1>1, <1>4, <1>5, <1>6
     DEF DozeInv, ListenersInService, ListenersWanted, TiltTimed,
         TiltPulsesSpaced

(* The screen is on: a listener that is registered is one the preferences  *)
(* want, unless a switch raced, so it is unregistered.                     *)
LEMMA DisplayOnStep ==
  ASSUME DozeInv, OnDisplayOn
  PROVE  DozeInv'
<1>1. /\ Handle("screenOn") /\ UNCHANGED service
      /\ IF pref["pickUp"] THEN DisableTilt ELSE UNCHANGED tilt
      /\ IF ProximityWanted THEN DisableProximity ELSE UNCHANGED proximity
  BY DEF OnDisplayOn
<1>2. "screenOn" \notin Commands /\ "screenOn" \in Broadcasts
  BY DEF Commands, Broadcasts
<1>3. /\ queue' \in Seq(Messages) /\ Len(queue') <= MaxQueue
      /\ UNCHANGED <<dozeEnabled, pref, started, booted, screenOn, covered, coverAge,
                     raced, told, tiltPulseAge, pulse>>
      /\ LastIs(queue', Commands, IF dozeEnabled THEN "start" ELSE "stop")
      /\ LastIs(queue', Broadcasts, IF screenOn THEN "screenOn" ELSE "screenOff")
      /\ NoneOf(queue', Commands) => NoneOf(queue, Commands)
      /\ service = "running"
  BY <1>1, <1>2, HandleStep
<1>4. /\ UNCHANGED <<tiltAge, mSawNear, pocketAge>>
      /\ tiltOn' = FALSE \/ (tiltOn' = tiltOn /\ ~pref["pickUp"])
      /\ \/ proximityOn' = FALSE /\ event' = NoEvent
         \/ ~ProximityWanted /\ proximityOn' = proximityOn /\ event' = event
  BY <1>1 DEF DisableTilt, DisableProximity, tilt, proximity
<1>5. TypeOK'
  <2>1. event \in Event /\ NoEvent \in Event
    BY DEF NoEvent, Event, DozeInv, TypeOK
  <2>2. event' \in Event
    BY <1>4, <2>1
  <2> QED
    BY <1>1, <1>3, <1>4, <2>2 DEF DozeInv, TypeOK
<1>6. ListenersInService'
  BY <1>1, <1>3 DEF ListenersInService
<1>7. CommandsFollow'
  BY <1>1, <1>3 DEF DozeInv, CommandsFollow
<1>8. BroadcastsFollow'
  BY <1>1, <1>3 DEF BroadcastsFollow
<1>9. ~raced' => ~tiltOn' /\ ~proximityOn'
  BY <1>3, <1>4 DEF DozeInv, ListenersWanted
<1>10. ListenersWanted'
  BY <1>9 DEF ListenersWanted
<1>11. TiltTimed'
  BY <1>3, <1>4 DEF DozeInv, TiltTimed, TiltPulsesSpaced
<1> QED
  BY <1>5, <1>6, <1>7, <1>8, <1>10, <1>11 DEF DozeInv

(* The screen is off: what the preferences want is registered, and the     *)
(* tilt sensor begins a new interval.  Its last broadcast finds the screen *)
(* off.                                                                    *)
LEMMA DisplayOffStep ==
  ASSUME DozeInv, OnDisplayOff
  PROVE  DozeInv'
<1>1. /\ Handle("screenOff") /\ UNCHANGED service
      /\ IF pref["pickUp"] THEN EnableTilt ELSE UNCHANGED tilt
      /\ IF ProximityWanted THEN EnableProximity ELSE UNCHANGED proximity
  BY DEF OnDisplayOff
<1>2. "screenOff" \notin Commands /\ "screenOff" \in Broadcasts
  BY DEF Commands, Broadcasts
<1>3. /\ queue' \in Seq(Messages) /\ Len(queue') <= MaxQueue
      /\ UNCHANGED <<dozeEnabled, pref, started, booted, screenOn, covered, coverAge,
                     raced, told, tiltPulseAge, pulse>>
      /\ LastIs(queue', Commands, IF dozeEnabled THEN "start" ELSE "stop")
      /\ LastIs(queue', Broadcasts, IF screenOn THEN "screenOn" ELSE "screenOff")
      /\ NoneOf(queue', Commands) => NoneOf(queue, Commands)
      /\ NoneOf(queue', Broadcasts)
           => "screenOff" = IF screenOn THEN "screenOn" ELSE "screenOff"
      /\ service = "running"
  BY <1>1, <1>2, HandleStep
<1>4. /\ UNCHANGED <<mSawNear, pocketAge>>
      /\ \/ tiltOn' = TRUE /\ tiltAge' = 0 /\ pref["pickUp"]
         \/ tiltOn' = tiltOn /\ tiltAge' = tiltAge
      /\ \/ ProximityWanted /\ proximityOn' = TRUE
         \/ proximityOn' = proximityOn
  BY <1>1 DEF EnableTilt, EnableProximity, tilt, proximity
<1>5. event' \in Event
  <2>1. \/ event' = event
        \/ event' = [value |-> "near", long |-> FALSE, first |-> TRUE]
        \/ event' = [value |-> "far", long |-> FALSE, first |-> TRUE]
    BY <1>1 DEF EnableProximity, proximity
  <2>2. event \in Event
    BY DEF DozeInv, TypeOK
  <2>3. /\ [value |-> "near", long |-> FALSE, first |-> TRUE] \in Event
        /\ [value |-> "far", long |-> FALSE, first |-> TRUE] \in Event
    BY DEF Event
  <2> QED
    BY <2>1, <2>2, <2>3
<1>6. tiltAge' \in 0 .. TiltMin
  BY <1>4 DEF DozeInv, TypeOK
<1>7. TypeOK'
  BY <1>1, <1>3, <1>4, <1>5, <1>6 DEF DozeInv, TypeOK
<1>8. ListenersInService'
  BY <1>1, <1>3 DEF ListenersInService
<1>9. CommandsFollow'
  BY <1>1, <1>3 DEF DozeInv, CommandsFollow
<1>10. BroadcastsFollow'
  BY <1>1, <1>3 DEF BroadcastsFollow
<1>11. ListenersWanted'
  <2>1. ~(screenOn' /\ NoneOf(queue', Broadcasts))
    BY <1>3
  <2>2. ProximityWanted' = ProximityWanted
    BY <1>3 DEF ProximityWanted
  <2> QED
    BY <1>3, <1>4, <2>1, <2>2 DEF DozeInv, ListenersWanted
<1>12. TiltTimed'
  <2>1. CASE tiltAge' = 0
    <3>1. 0 <= tiltPulseAge'
      BY <1>3 DEF DozeInv, TypeOK
    <3> QED
      BY <1>3, <2>1, <3>1 DEF DozeInv, TiltTimed, TiltPulsesSpaced
  <2>2. CASE tiltOn' = tiltOn /\ tiltAge' = tiltAge
    BY <1>3, <2>2 DEF DozeInv, TiltTimed, TiltPulsesSpaced
  <2> QED
    BY <1>4, <2>1, <2>2
<1> QED
  BY <1>7, <1>8, <1>9, <1>10, <1>11, <1>12 DEF DozeInv

-----------------------------------------------------------------------------
(* Every step keeps the invariant. *)
LEMMA DozeStep == DozeInv /\ [Next]_vars => DozeInv'
<1> SUFFICES ASSUME DozeInv, [Next]_vars
             PROVE  DozeInv'
  OBVIOUS
<1>1. CASE UNCHANGED vars
  <2>1. UNCHANGED <<dozeEnabled, pref, started, booted, screenOn, covered,
                    coverAge, service, queue, tiltOn, tiltAge, proximityOn, mSawNear, pocketAge,
                    event, raced, told, tiltPulseAge, pulse>>
    BY <1>1 DEF vars, settings, outside, tilt, proximity, history
  <2>2. TypeOK'
    BY <2>1 DEF DozeInv, TypeOK
  <2>3. TiltTimed'
    BY <2>1 DEF DozeInv, TiltTimed, TiltPulsesSpaced
  <2> QED
    BY <2>1, <2>2, <2>3, QuietStep
<1>2. CASE BootCompleted \/ ToggleDoze
  BY <1>2, CommandStep
<1>3. CASE \E g \in Gestures : SwitchGesture(g)
  BY <1>3, SwitchStep
<1>4. CASE ScreenChange
  BY <1>4, ScreenStep
<1>5. CASE CoverChange
  BY <1>5, CoverStep
<1>6. CASE Tick
  BY <1>6, TickStep
<1>7. CASE TiltEvent
  BY <1>7, TiltStep
<1>8. CASE ProximityEvent
  BY <1>8, ProximityStep
<1>9. CASE OnCreate
  BY <1>9, CreateStep
<1>10. CASE OnDestroy
  BY <1>10, DestroyStep
<1>11. CASE OnDisplayOn
  BY <1>11, DisplayOnStep
<1>12. CASE OnDisplayOff
  BY <1>12, DisplayOffStep
<1>13. CASE Drop
  BY <1>13, DropStep
<1>14. CASE ProcessRestart
  BY <1>14, RestartStep
<1> QED
  BY <1>1, <1>2, <1>3, <1>4, <1>5, <1>6, <1>7, <1>8, <1>9, <1>10, <1>11, <1>12,
     <1>13, <1>14 DEF Next

-----------------------------------------------------------------------------
(* A service that was sent a start, with ambient display switched on and   *)
(* no command on its way, runs.                                            *)
StartsFollow ==
  started /\ dozeEnabled /\ NoneOf(queue, Commands) => service = "running"

(* The steps that touch none of it. *)
LEMMA StartsQuiet ==
  ASSUME StartsFollow, UNCHANGED <<started, dozeEnabled, service>>,
         NoneOf(queue', Commands) => NoneOf(queue, Commands)
  PROVE  StartsFollow'
BY DEF StartsFollow

(* A stop is the last command only when the switch is off. *)
LEMMA StartsStep ==
  ASSUME DozeInv, StartsFollow, [Next]_vars
  PROVE  StartsFollow'
<1>1. queue \in Seq(Messages)
  BY DEF DozeInv, TypeOK
<1>2. ASSUME NEW m \in Commands, Post(m)
      PROVE  StartsFollow'
  <2>1. m \in Messages /\ queue' = Append(queue, m)
    BY <1>2 DEF Messages, Post
  <2> QED
    BY <1>1, <1>2, <2>1, PostedOfKind DEF StartsFollow
<1>3. CASE BootCompleted
  <2>1. CASE dozeEnabled /\ sensorsEnabled
    BY <1>2, <1>3, <2>1 DEF BootCompleted, Commands
  <2>2. CASE ~(dozeEnabled /\ sensorsEnabled)
    BY <1>3, <2>2, StartsQuiet DEF BootCompleted
  <2> QED
    BY <2>1, <2>2
<1>4. CASE ToggleDoze
  BY <1>2, <1>4 DEF ToggleDoze, checkDozeService, Commands
<1>5. CASE ScreenChange
  <2>1. UNCHANGED <<started, dozeEnabled, service>>
    BY <1>5 DEF ScreenChange, settings
  <2>2. queue' = queue \/ \E m \in Broadcasts : queue' = Append(queue, m)
    BY <1>5 DEF ScreenChange, Post, Broadcasts
  <2>3. \A m \in Broadcasts : m \in Messages /\ m \notin Commands
    BY DEF Messages, Commands, Broadcasts
  <2>4. NoneOf(queue', Commands) => NoneOf(queue, Commands)
    BY <1>1, <2>2, <2>3, PostedOther
  <2> QED
    BY <2>1, <2>4, StartsQuiet
<1>6. CASE \/ UNCHANGED vars \/ CoverChange \/ Tick \/ TiltEvent \/ ProximityEvent
           \/ \E g \in Gestures : SwitchGesture(g)
  <2>1. UNCHANGED <<started, dozeEnabled, service, queue>>
    BY <1>6 DEF vars, CoverChange, Tick, TiltEvent, ProximityEvent, SwitchGesture,
                settings
  <2> QED
    BY <2>1, StartsQuiet
<1>7. CASE OnCreate
  <2>1. service' = "running"
    BY <1>7 DEF OnCreate, DozeInv, TypeOK
  <2> QED
    BY <2>1 DEF StartsFollow
<1>8. CASE OnDestroy
  <2>1. /\ queue # <<>> /\ Head(queue) = "stop" /\ UNCHANGED dozeEnabled
        /\ queue' = Forgotten(Tail(queue))
    BY <1>8 DEF OnDestroy, Taken, settings
  <2> DEFINE rest == Tail(queue)
             c == IF dozeEnabled THEN "start" ELSE "stop"
  <2>2. rest \in Seq(Messages)
    BY <1>1, <2>1, Handled
  <2>3. NoneOf(queue', Commands) => NoneOf(rest, Commands)
    <3> HIDE DEF rest
    <3> QED
      BY <2>1, <2>2, ForgottenQueue DEF rest
  <2>4. LastIs(queue, Commands, c)
    BY DEF DozeInv, CommandsFollow
  <2>5. NoneOf(rest, Commands) => "stop" = c \/ "stop" \notin Commands
    <3> HIDE DEF c
    <3> QED
      BY <1>1, <2>1, <2>4, HandledKind
  <2>6. NoneOf(queue', Commands) => ~dozeEnabled
    BY <2>3, <2>5 DEF Commands
  <2> QED
    BY <2>1, <2>6 DEF StartsFollow
<1>9. CASE OnDisplayOn \/ OnDisplayOff \/ Drop
  <2>1. PICK m \in {"screenOn", "screenOff", "forgotten"} :
          Handle(m) /\ UNCHANGED service
    BY <1>9 DEF OnDisplayOn, OnDisplayOff, Drop
  <2>2. m \notin Commands
    BY DEF Commands
  <2>3. NoneOf(queue', Commands) => NoneOf(queue, Commands)
    BY <2>1, <2>2, HandleStep
  <2> QED
    BY <2>1, <2>3, StartsQuiet DEF Handle, Taken, settings
<1>10. CASE ProcessRestart
  BY <1>10 DEF ProcessRestart, StartsFollow
<1> QED
  BY <1>3, <1>4, <1>5, <1>6, <1>7, <1>8, <1>9, <1>10 DEF Next

-----------------------------------------------------------------------------
(* What was registered, and when. *)

(* A service that was sent a broadcast, with the screen off and no         *)
(* broadcast on its way, has taken the one that said so: what the          *)
(* preferences ask for is registered.                                      *)
SensorsKept ==
  /\ told => service = "running"
  /\ told /\ ~screenOn /\ NoneOf(queue, Broadcasts) /\ ~raced
       => (tiltOn <=> pref["pickUp"]) /\ (proximityOn <=> ProximityWanted)

(* The steps that touch none of it. *)
LEMMA KeptQuiet ==
  ASSUME SensorsKept,
         UNCHANGED <<told, service, screenOn, raced, tiltOn, proximityOn, pref>>,
         NoneOf(queue', Broadcasts) => NoneOf(queue, Broadcasts)
  PROVE  SensorsKept'
BY DEF SensorsKept, ProximityWanted

(* A broadcast of the screen that is off finds the preferences as they     *)
(* stay: a gesture can be switched with the screen on only.                *)
LEMMA KeptStep ==
  ASSUME DozeInv, DozeInv', SensorsKept, [Next]_vars
  PROVE  SensorsKept'
<1>1. queue \in Seq(Messages)
  BY DEF DozeInv, TypeOK
<1>2. CASE UNCHANGED vars
  BY <1>2, KeptQuiet DEF vars, settings, outside, tilt, proximity
<1>3. CASE BootCompleted \/ ToggleDoze
  <2>1. UNCHANGED <<told, service, screenOn, raced, tiltOn, proximityOn, pref>>
    BY <1>3 DEF BootCompleted, ToggleDoze, settings, outside, tilt, proximity
  <2>2. queue' = queue \/ \E m \in Commands : queue' = Append(queue, m)
    BY <1>3 DEF BootCompleted, ToggleDoze, checkDozeService, Post, Commands
  <2>3. \A m \in Commands : m \in Messages /\ m \notin Broadcasts
    BY DEF Messages, Commands, Broadcasts
  <2>4. NoneOf(queue', Broadcasts) => NoneOf(queue, Broadcasts)
    BY <1>1, <2>2, <2>3, PostedOther
  <2> QED
    BY <2>1, <2>4, KeptQuiet
<1>4. CASE \E g \in Gestures : SwitchGesture(g)
  BY <1>4 DEF SensorsKept, SwitchGesture, outside
<1>5. CASE ScreenChange
  <2>1. told' = (service = "running") /\ UNCHANGED service
    BY <1>5 DEF ScreenChange
  <2>2. ASSUME service = "running"
        PROVE  ~NoneOf(queue', Broadcasts)
    <3> DEFINE m == IF screenOn' THEN "screenOn" ELSE "screenOff"
    <3>1. m \in Messages /\ m \in Broadcasts /\ queue' = Append(queue, m)
      BY <1>5, <2>2 DEF ScreenChange, Post, Messages, Broadcasts
    <3> HIDE DEF m
    <3> QED
      BY <1>1, <3>1, PostedOfKind
  <2> QED
    BY <2>1, <2>2 DEF SensorsKept
<1>6. CASE CoverChange \/ Tick \/ TiltEvent \/ ProximityEvent
  <2>1. UNCHANGED <<told, service, screenOn, raced, tiltOn, proximityOn, pref, queue>>
    BY <1>6 DEF CoverChange, Tick, TiltEvent, ProximityEvent, settings, outside,
                tilt, proximity
  <2> QED
    BY <2>1, KeptQuiet
<1>7. CASE OnCreate
  <2>1. /\ Handle("start") /\ UNCHANGED <<tiltOn, proximityOn>>
        /\ service' = service \/ service = "stopped"
    BY <1>7 DEF OnCreate, tilt, proximity
  <2>2. "start" \notin Broadcasts
    BY DEF Broadcasts
  <2>3. /\ UNCHANGED <<told, screenOn, raced, pref>>
        /\ NoneOf(queue', Broadcasts) => NoneOf(queue, Broadcasts)
    BY <2>1, <2>2, HandleStep
  <2>4. CASE service' = service
    BY <2>1, <2>3, <2>4, KeptQuiet
  <2>5. CASE service = "stopped"
    BY <2>3, <2>5 DEF SensorsKept
  <2> QED
    BY <2>1, <2>4, <2>5
<1>8. CASE OnDestroy \/ ProcessRestart
  BY <1>8 DEF OnDestroy, ProcessRestart, SensorsKept
<1>9. CASE OnDisplayOn
  <2>1. Handle("screenOn") /\ UNCHANGED service
    BY <1>9 DEF OnDisplayOn
  <2>2. "screenOn" \in Broadcasts
    BY DEF Broadcasts
  <2>3. /\ UNCHANGED <<told, screenOn>>
        /\ NoneOf(queue', Broadcasts)
             => "screenOn" = IF screenOn THEN "screenOn" ELSE "screenOff"
    BY <2>1, <2>2, HandleStep
  <2>4. NoneOf(queue', Broadcasts) => screenOn
    BY <2>3
  <2> QED
    BY <2>1, <2>3, <2>4 DEF SensorsKept
<1>10. CASE OnDisplayOff
  <2>1. /\ Handle("screenOff") /\ UNCHANGED service
        /\ pref["pickUp"] => tiltOn' = TRUE
        /\ ProximityWanted => proximityOn' = TRUE
    BY <1>10 DEF OnDisplayOff, EnableTilt, EnableProximity
  <2>2. "screenOff" \in Broadcasts
    BY DEF Broadcasts
  <2>3. UNCHANGED <<told, screenOn, pref>> /\ service = "running"
    BY <2>1, <2>2, HandleStep
  <2>4. ~raced' => (tiltOn' => pref'["pickUp"]) /\ (proximityOn' => ProximityWanted')
    BY DEF DozeInv, ListenersWanted
  <2>5. ProximityWanted' = ProximityWanted
    BY <2>3 DEF ProximityWanted
  <2> QED
    BY <2>1, <2>3, <2>4, <2>5 DEF SensorsKept
<1>11. CASE Drop
  <2>1. Handle("forgotten") /\ UNCHANGED <<service, tiltOn, proximityOn>>
    BY <1>11 DEF Drop, tilt, proximity
  <2>2. "forgotten" \notin Broadcasts
    BY DEF Broadcasts
  <2>3. /\ UNCHANGED <<told, screenOn, raced, pref>>
        /\ NoneOf(queue', Broadcasts) => NoneOf(queue, Broadcasts)
    BY <2>1, <2>2, HandleStep
  <2> QED
    BY <2>1, <2>3, KeptQuiet
<1> QED
  BY <1>2, <1>3, <1>4, <1>5, <1>6, <1>7, <1>8, <1>9, <1>10, <1>11 DEF Next

-----------------------------------------------------------------------------
(* Covers and the pocket. *)

(* With the listener registered and no event on its way, mSawNear is       *)
(* whether the sensor is covered, and mInPocketTime is not before the      *)
(* cover began.  So an event that ends a cover, and finds mInPocketTime    *)
(* PocketMin ago, ends one of that length.                                 *)
CoverTimed ==
  /\ proximityOn /\ event = NoEvent
       => mSawNear = covered /\ (covered => pocketAge <= coverAge)
  /\ event # NoEvent => /\ proximityOn
                        /\ event.value = IF covered THEN "near" ELSE "far"
  /\ event.value = "far" /\ ~event.first /\ mSawNear /\ pocketAge >= PocketMin
       => event.long
  /\ PocketPulseWhileRegistered

(* The steps that touch none of it. *)
LEMMA CoverQuiet ==
  ASSUME CoverTimed,
         UNCHANGED <<proximityOn, event, mSawNear, covered, pocketAge, coverAge>>,
         PocketPulseWhileRegistered'
  PROVE  CoverTimed'
BY DEF CoverTimed

(* No event, no listener. *)
LEMMA CoverUnregistered ==
  ASSUME CoverTimed, proximityOn' = FALSE, event' = NoEvent, pulse' = pulse
  PROVE  CoverTimed'
BY DEF CoverTimed, NoEvent, PocketPulseWhileRegistered

(* The sensor is covered or uncovered, with no event on its way. *)
LEMMA CoverTimedChange ==
  ASSUME TypeOK, CoverTimed, CoverChange
  PROVE  CoverTimed'
<1>1. /\ event = NoEvent /\ covered' = ~covered
      /\ UNCHANGED <<proximityOn, mSawNear, pocketAge, pulse>>
  BY DEF CoverChange, history
<1>2. CASE ~proximityOn
  BY <1>1, <1>2, CoverUnregistered DEF CoverChange, TypeOK
<1>3. CASE proximityOn /\ covered
  <2> DEFINE long == coverAge >= PocketMin
  <2>1. event' = [value |-> "far", long |-> long, first |-> FALSE]
    BY <1>3 DEF CoverChange
  <2>2. pocketAge >= PocketMin => long
    BY <1>1, <1>3 DEF CoverTimed, TypeOK
  <2> HIDE DEF long
  <2>3. event'.value = "far" /\ event'.long = long /\ event' # NoEvent
    BY <2>1 DEF NoEvent
  <2> QED
    BY <1>1, <1>3, <2>2, <2>3 DEF CoverTimed, PocketPulseWhileRegistered
<1>4. CASE proximityOn /\ ~covered
  <2>1. event' = [value |-> "near", long |-> FALSE, first |-> FALSE]
    BY <1>4 DEF CoverChange
  <2>2. event'.value = "near" /\ event' # NoEvent
    BY <2>1 DEF NoEvent
  <2> QED
    BY <1>1, <1>4, <2>2 DEF CoverTimed, PocketPulseWhileRegistered
<1> QED
  BY <1>2, <1>3, <1>4 DEF TypeOK

(* An event: what mSawNear and mInPocketTime become is the cover's. *)
LEMMA CoverTimedEvent ==
  ASSUME TypeOK, CoverTimed, ProximityEvent
  PROVE  CoverTimed'
<1>1. /\ event # NoEvent /\ event' = NoEvent
      /\ mSawNear' = (event.value = "near")
      /\ UNCHANGED <<covered, coverAge, proximityOn>>
  BY DEF ProximityEvent, outside
<1>2. mSawNear' = covered
  BY <1>1 DEF CoverTimed, TypeOK
<1>3. covered => pocketAge' <= coverAge
  <2>1. covered => event.value = "near"
    BY <1>1 DEF CoverTimed
  <2>2. covered => pocketAge' = 0
    BY <2>1 DEF ProximityEvent, InPocketTime
  <2> QED
    BY <2>2 DEF TypeOK
<1>4. PocketPulseWhileRegistered'
  <2>1. CASE UNCHANGED pulse
    BY <2>1 DEF CoverTimed, PocketPulseWhileRegistered
  <2>2. CASE /\ mSawNear /\ event.value = "far" /\ shouldPulse
             /\ pulse' = [by |-> "proximity", spaced |-> TRUE,
                          pocketOnly |-> ~pref["handwave"],
                          removed |-> event.long, first |-> event.first]
    <3>1. ~pref["handwave"] => pocketAge >= PocketMin
      BY <2>2 DEF shouldPulse
    <3>2. ~pref["handwave"] /\ ~event.first => event.long
      BY <2>2, <3>1 DEF CoverTimed
    <3>3. /\ pulse'.pocketOnly = ~pref["handwave"] /\ pulse'.removed = event.long
          /\ pulse'.first = event.first
      BY <2>2
    <3> QED
      BY <3>2, <3>3 DEF PocketPulseWhileRegistered
  <2> QED
    BY <2>1, <2>2 DEF ProximityEvent
<1>5. event'.value = "none"
  BY <1>1 DEF NoEvent
<1> QED
  BY <1>1, <1>2, <1>3, <1>4, <1>5 DEF CoverTimed

(* The listener is registered, or it was already. *)
LEMMA CoverTimedEnabled ==
  ASSUME TypeOK, CoverTimed, EnableProximity,
         UNCHANGED <<covered, coverAge, pulse>>
  PROVE  CoverTimed'
<1>1. proximityOn' = TRUE /\ UNCHANGED <<mSawNear, pocketAge>>
  BY DEF EnableProximity
<1>2. PocketPulseWhileRegistered'
  BY DEF CoverTimed, PocketPulseWhileRegistered
<1>3. CASE proximityOn
  <2>1. event' = event
    BY <1>3 DEF EnableProximity
  <2> QED
    BY <1>1, <1>2, <1>3, <2>1 DEF CoverTimed
<1>4. CASE ~proximityOn
  <2> DEFINE v == IF covered THEN "near" ELSE "far"
  <2>1. event' = [value |-> v, long |-> FALSE, first |-> TRUE]
    BY <1>4 DEF EnableProximity
  <2>2. v # "none"
    OBVIOUS
  <2>3. event'.value = v /\ event'.first = TRUE /\ event' # NoEvent
    <3> HIDE DEF v
    <3> QED
      BY <2>1, <2>2 DEF NoEvent
  <2> QED
    BY <1>1, <1>2, <2>3 DEF CoverTimed
<1> QED
  BY <1>3, <1>4

(* Every step keeps it: the times advance together, and a new service      *)
(* begins with no listener.                                                *)
LEMMA CoverTimedStep ==
  ASSUME DozeInv, CoverTimed, [Next]_vars
  PROVE  CoverTimed'
<1>1. TypeOK
  BY DEF DozeInv
<1>2. ASSUME UNCHANGED <<proximityOn, event, mSawNear, covered, pocketAge, coverAge,
                         pulse>>
      PROVE  CoverTimed'
  BY <1>2, CoverQuiet DEF CoverTimed, PocketPulseWhileRegistered
<1>3. CASE \/ UNCHANGED vars \/ BootCompleted \/ ToggleDoze \/ ScreenChange \/ Drop
           \/ \E g \in Gestures : SwitchGesture(g)
  BY <1>2, <1>3
     DEF vars, BootCompleted, ToggleDoze, ScreenChange, Drop, SwitchGesture,
         Handle, Taken, settings, outside, proximity, history
<1>4. CASE CoverChange
  BY <1>1, <1>4, CoverTimedChange
<1>5. CASE Tick
  <2>1. /\ event = NoEvent
        /\ UNCHANGED <<proximityOn, mSawNear, covered, event, pulse>>
    BY <1>5 DEF Tick
  <2>2. covered /\ pocketAge <= coverAge => pocketAge' <= coverAge'
    BY <1>1, <1>5 DEF Tick, Older, TypeOK
  <2>3. event.value = "none"
    BY <2>1 DEF NoEvent
  <2> QED
    BY <2>1, <2>2, <2>3 DEF CoverTimed, PocketPulseWhileRegistered
<1>6. CASE TiltEvent
  <2>1. UNCHANGED <<proximityOn, event, mSawNear, covered, pocketAge, coverAge>>
    BY <1>6 DEF TiltEvent, outside, proximity
  <2>2. pulse' = pulse \/ pulse'.by = "tilt"
    BY <1>6 DEF TiltEvent, history
  <2>3. PocketPulseWhileRegistered'
    BY <2>2 DEF CoverTimed, PocketPulseWhileRegistered
  <2> QED
    BY <2>1, <2>3, CoverQuiet
<1>7. CASE ProximityEvent
  BY <1>1, <1>7, CoverTimedEvent
<1>8. CASE OnCreate
  <2>1. CASE service = "stopped"
    <3>1. ~proximityOn /\ UNCHANGED <<proximityOn, event, pulse>>
      BY <1>8, <2>1
         DEF DozeInv, ListenersInService, OnCreate, Handle, Taken, history
    <3>2. event = NoEvent
      BY <3>1 DEF CoverTimed
    <3> QED
      BY <1>1, <3>1, <3>2, CoverUnregistered DEF TypeOK
  <2>2. CASE service # "stopped"
    BY <1>2, <1>8, <2>2 DEF OnCreate, Handle, Taken, outside, proximity, history
  <2> QED
    BY <2>1, <2>2
<1>9. CASE OnDestroy \/ ProcessRestart
  BY <1>9, CoverUnregistered
     DEF OnDestroy, ProcessRestart, DisableProximity, Taken, history
<1>10. CASE OnDisplayOn
  <2>1. /\ UNCHANGED <<covered, coverAge, pulse>>
        /\ DisableProximity \/ UNCHANGED proximity
    BY <1>10 DEF OnDisplayOn, Handle, Taken, outside, history
  <2> QED
    BY <1>2, <2>1, CoverUnregistered DEF DisableProximity, proximity
<1>11. CASE OnDisplayOff
  <2>1. /\ UNCHANGED <<covered, coverAge, pulse>>
        /\ EnableProximity \/ UNCHANGED proximity
    BY <1>11 DEF OnDisplayOff, Handle, Taken, outside, history
  <2> QED
    BY <1>1, <1>2, <2>1, CoverTimedEnabled DEF proximity
<1> QED
  BY <1>3, <1>4, <1>5, <1>6, <1>7, <1>8, <1>9, <1>10, <1>11 DEF Next

-----------------------------------------------------------------------------
(* The theorem. *)

(* Whatever the order in which starts, stops, broadcasts, switches and     *)
(* sensor events reach the main thread: no listener outlives the service   *)
(* or, but for a switch that races a broadcast, the return of the screen;  *)
(* the sensors that are asked for are registered while it is off, but for  *)
(* a service created since; the service follows the switch either way, but *)
(* for a start never sent; tilt pulses keep their distance; a pocket pulse *)
(* that is not launched by the first value ends a cover of the pocket's    *)
(* length.                                                                 *)
THEOREM DozeSafe ==
  Spec => [](/\ TypeOK /\ ListenersInService /\ ListenersFollowScreen
             /\ ServiceFollowsSwitch /\ TiltPulsesSpaced
             /\ PocketPulseWhileRegistered)
<1> DEFINE Inv == DozeInv /\ StartsFollow /\ SensorsKept /\ CoverTimed
<1>1. Init => Inv
  <2> HAVE Init
  <2>1. DozeInv
    BY DozeInitial
  <2>2. SensorsKept
    BY DEF Init, SensorsKept
  <2>3. CoverTimed
    BY DEF Init, CoverTimed, NoEvent, PocketPulseWhileRegistered
  <2>4. StartsFollow
    BY DEF Init, StartsFollow
  <2> QED
    BY <2>1, <2>2, <2>3, <2>4
<1>2. Inv /\ [Next]_vars => Inv'
  BY DozeStep, StartsStep, KeptStep, CoverTimedStep
<1>3. Inv => /\ TypeOK /\ ListenersInService /\ ListenersFollowScreen
             /\ ServiceFollowsSwitch /\ TiltPulsesSpaced
             /\ PocketPulseWhileRegistered
  <2>1. queue = <<>> => NoneOf(queue, Commands) /\ NoneOf(queue, Broadcasts)
    BY DEF NoneOf
  <2>2. Inv => ListenersFollowScreen
    BY <2>1 DEF DozeInv, ListenersWanted, SensorsKept, ListenersFollowScreen
  <2>3. Inv => ServiceFollowsSwitch
    BY <2>1 DEF DozeInv, CommandsFollow, StartsFollow, ServiceFollowsSwitch
  <2> QED
    BY <2>2, <2>3 DEF DozeInv, TiltTimed, CoverTimed
<1> QED
  BY <1>1, <1>2, <1>3, PTL DEF Spec

(* The age of the last tilt pulse falls when TiltEvent launches one, with  *)
(* its listener registered, and so under a preference that is still on or  *)
(* after a switch that raced.                                              *)
THEOREM TiltPulsesAsked == Spec => TiltPulseAsked
<1>1. ASSUME DozeInv, [Next]_vars
      PROVE  [tiltPulseAge' < tiltPulseAge => pref["pickUp"] \/ raced]_vars
  <2>1. tiltPulseAge \in 0 .. TiltMin
    BY <1>1 DEF DozeInv, TypeOK
  <2>2. CASE TiltEvent
    <3>1. tiltOn
      BY <2>2 DEF TiltEvent
    <3> QED
      BY <1>1, <3>1 DEF DozeInv, ListenersWanted
  <2>3. CASE Tick
    <3>1. tiltPulseAge' >= tiltPulseAge
      BY <2>1, <2>3 DEF Tick, Older
    <3>2. ~(tiltPulseAge' < tiltPulseAge)
      BY <2>1, <2>3, <3>1 DEF Tick, Older
    <3> QED
      BY <3>2
  <2>4. ASSUME UNCHANGED tiltPulseAge
        PROVE  [tiltPulseAge' < tiltPulseAge => pref["pickUp"] \/ raced]_vars
    BY <2>1, <2>4
  <2>5. CASE \/ UNCHANGED vars \/ BootCompleted \/ ToggleDoze \/ ScreenChange
             \/ CoverChange \/ ProximityEvent \/ ProcessRestart
             \/ \E g \in Gestures : SwitchGesture(g)
    <3>1. UNCHANGED tiltPulseAge
      BY <2>5 DEF vars, BootCompleted, ToggleDoze, ScreenChange, CoverChange,
                  ProximityEvent, ProcessRestart, SwitchGesture, history
    <3> QED
      BY <2>4, <3>1
  <2>6. CASE OnCreate \/ OnDestroy \/ OnDisplayOn \/ OnDisplayOff \/ Drop
    <3>1. UNCHANGED tiltPulseAge
      BY <2>6 DEF OnCreate, OnDestroy, OnDisplayOn, OnDisplayOff, Drop, Handle,
                  Taken, history
    <3> QED
      BY <2>4, <3>1
  <2> QED
    BY <1>1, <2>2, <2>3, <2>5, <2>6 DEF Next
<1> QED
  BY <1>1, DozeInitial, DozeStep, PTL DEF Spec, TiltPulseAsked
=============================================================================
