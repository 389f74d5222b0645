------------------------------- MODULE Lights -------------------------------
(***************************************************************************)
(* The lights HAL (liblights/lights.c): the battery and notification       *)
(* states that share the red and the green LED, the trackball light that   *)
(* follows the backlight, the plain lights, and the sysfs files behind     *)
(* them.  g_lock serializes the calls, so a call is a list of LED          *)
(* operations, todo, that runs to its end before the next call starts; but *)
(* each operation is a step of its own, any sysfs write can fail, and the  *)
(* process can die between two steps, which resets the static variables    *)
(* and not the lights.                                                     *)
(***************************************************************************)
EXTENDS Integers, Sequences

CONSTANTS States,       \* the states asked for battery and notifications
          Backlights,   \* the colors asked for the backlight
          Rates,        \* the blink rates (on and off time) asked for, not 0
          DefaultRate,  \* external: the kernel's rate before delay_on/off
          Attention     \* the on-times asked for with LIGHT_FLASH_HARDWARE

Leds == {"red", "green"}
Steady == 0                             \* no blinking, in place of a rate
Off == 0                                \* preStatus
Blink == 1
Solid == 2
Byte == 0 .. 255
Color == [a : Byte, r : Byte, g : Byte, b : Byte]
LightState == [color : Color, rate : Rates \cup {Steady}]
Orange == [a |-> 255, r |-> 255, g |-> 98, b |-> 0]       \* #ff6200
Black == [a |-> 0, r |-> 0, g |-> 0, b |-> 0]
Unlit == [color |-> Black, rate |-> Steady]

ASSUME StatesAssumption == /\ States \subseteq LightState
                           /\ Backlights \subseteq Color
ASSUME RatesAssumption == /\ Rates \subseteq Nat \ {Steady}
                          /\ DefaultRate \in Nat \ (Rates \cup {Steady})
                          /\ Attention \subseteq Nat \ {0}

VARIABLES g_haveTrackballLight, g_notification, g_battery, g_backlight,
          g_attention,
          preStatus,    \* the static of blink_red and of blink_green
          todo,         \* the LED operations the holder of g_lock has left
          led,          \* external: trigger, brightness and rate of each LED
          jogball,      \* external: the trackball light's mode
          lcd,          \* external: the brightness of the screen
          plain,        \* external: which of the other lights are on
          trusted       \* no write failed, and no restart came, since the last
                        \* time the light was set: history, never read

statics == <<g_notification, g_battery, g_backlight, g_attention>>
screen == <<jogball, lcd, plain>>
vars == <<g_haveTrackballLight, statics, preStatus, todo, led, screen, trusted>>

Operation == [led : Leds, level : Byte, rate : Rates \cup {Steady}]
Led == [trigger : {"none", "timer"}, lit : BOOLEAN,
        rate : Rates \cup {Steady, DefaultRate}]

TypeOK == /\ g_haveTrackballLight \in BOOLEAN
          /\ g_notification \in LightState
          /\ g_battery \in LightState
          /\ g_backlight \in Byte
          /\ g_attention \in Attention \cup {0}
          /\ preStatus \in [Leds -> {Off, Blink, Solid}]
          /\ todo \in Seq(Operation)
          /\ led \in [Leds -> Led]
          /\ jogball \in Attention \cup {0} /\ lcd \in Byte
          /\ plain \subseteq {"keyboard", "buttons"}
          /\ trusted \in [Leds \cup {"jogball", "lcd"} -> BOOLEAN]

DarkLed == [trigger |-> "none", lit |-> FALSE, rate |-> Steady]

Init == /\ g_haveTrackballLight \in BOOLEAN
        /\ g_notification = Unlit
        /\ g_battery = Unlit
        /\ g_backlight = 255
        /\ g_attention = 0
        /\ preStatus = [l \in Leds |-> Off]
        /\ todo = <<>>
        /\ led = [l \in Leds |-> DarkLed]
        /\ jogball = 0 /\ lcd = 255 /\ plain = {}
        /\ trusted = [l \in Leds \cup {"jogball", "lcd"} |-> TRUE]

-----------------------------------------------------------------------------
(* What a state asks of the LEDs: set_speaker_light_locked. *)

is_lit(state) == \/ state.color.r # 0 \/ state.color.g # 0
                 \/ state.color.b # 0

Set(l, level, state) == [led |-> l, level |-> level, rate |-> state.rate]
Clear(l) == [led |-> l, level |-> 0, rate |-> Steady]

set_speaker_light(state) ==
  LET red == IF state.color.a = 0 THEN 0 ELSE state.color.r
      green == IF state.color.a = 0 THEN 0 ELSE state.color.g
  IN IF red # 0 /\ state.color = Orange
     THEN <<Set("green", red, state), Set("red", red, state)>>
     ELSE IF red # 0 THEN <<Clear("green"), Set("red", red, state)>>
     ELSE IF green # 0 THEN <<Clear("red"), Set("green", green, state)>>
     ELSE <<Clear("red"), Clear("green")>>

(* As elsewhere, a name with a suffix is a plausible bug no action uses.   *)
(* The battery owns the LEDs while it is lit.  When it is not, they are    *)
(* set to its state all the same before the notification's.                *)
handle_speaker_battery_NoWorkaround(battery, notification) ==
  set_speaker_light(IF is_lit(battery) THEN battery ELSE notification)
handle_speaker_battery_BothWays(battery, notification) ==
  set_speaker_light(battery) \o set_speaker_light(notification)
handle_speaker_battery(battery, notification) ==
  IF is_lit(battery)
  THEN set_speaker_light(battery)
  ELSE set_speaker_light(battery) \o set_speaker_light(notification)

-----------------------------------------------------------------------------
(* One LED operation: blink_red or blink_green, and the kernel's LED.      *)

now_status(op) == IF op.level = 0 THEN Off
                  ELSE IF op.rate # Steady THEN Blink ELSE Solid

(* External: a brightness of 0 also removes the trigger; setting a trigger *)
(* starts or stops the blinking; the delay files exist under "timer" only. *)
SetBrightness(h, on, ok) ==
  IF ~ok THEN h ELSE IF on THEN [h EXCEPT !.lit = TRUE] ELSE DarkLed
SetTrigger(h, trigger, ok) ==
  IF ~ok THEN h
  ELSE IF trigger = "timer"
       THEN [trigger |-> "timer", lit |-> TRUE, rate |-> DefaultRate]
       ELSE DarkLed
SetDelays(h, rate, ok) ==
  IF ok /\ h.trigger = "timer" THEN [h EXCEPT !.rate = rate] ELSE h

(* The LED after the writes for a new status; the first write is the       *)
(* trigger's, if there is one, and the wait for the delay files gives up.  *)
Written(h, status, rate, first, last) ==
  CASE status = Off -> SetBrightness(h, FALSE, last)
    [] status = Blink -> SetDelays(SetTrigger(h, "timer", first), rate, last)
    [] status = Solid -> SetBrightness(SetTrigger(h, "none", first), TRUE, last)

(* A status that was already set is not written again, whatever its rate;  *)
(* a status that was written is remembered even if a write failed.         *)
blink ==
  /\ todo # <<>>
  /\ LET op == Head(todo)  l == op.led
     IN IF preStatus[l] = now_status(op)
        THEN UNCHANGED <<preStatus, led, trusted>>
        ELSE \E first, last \in BOOLEAN :
               /\ led' = [led EXCEPT ![l] =
                            Written(@, now_status(op), op.rate, first, last)]
               /\ trusted' = [trusted EXCEPT ![l] = first /\ last]
               /\ preStatus' = [preStatus EXCEPT ![l] = now_status(op)]
  /\ todo' = Tail(todo)
  /\ UNCHANGED <<g_haveTrackballLight, statics, screen>>

-----------------------------------------------------------------------------
(* The trackball light: handle_trackball_light_locked.  g_trackball is -1  *)
(* for ever, so the test for a value that is not changing never succeeds.  *)

mode(attention, backlight) ==
  IF attention = 7 /\ backlight # 0 THEN 0 ELSE attention

(* The value it writes, by light, if there is a trackball light at all.    *)
handle_trackball_light(attention, backlight) ==
  IF g_haveTrackballLight THEN [jogball |-> mode(attention, backlight)] ELSE <<>>

(* write_int: any of the writes can fail, and their lights stay as they    *)
(* were.                                                                   *)
write_int(values) ==
  \E failed \in SUBSET DOMAIN values :
    LET new(l, old) == IF l \in DOMAIN values \ failed THEN values[l] ELSE old
    IN /\ jogball' = new("jogball", jogball)
       /\ lcd' = new("lcd", lcd)
       /\ trusted' = [l \in DOMAIN trusted |->
                        IF l \in DOMAIN values THEN l \notin failed ELSE trusted[l]]

-----------------------------------------------------------------------------
(* The set_light entry points.  A call starts when g_lock is free.         *)

LockFree == todo = <<>>

(* Weights of 77, 150 and 29 in 256. *)
rgb_to_brightness_Unscaled(c) == 77 * c.r + 150 * c.g + 29 * c.b
rgb_to_brightness(c) == (77 * c.r + 150 * c.g + 29 * c.b) \div 256

set_light_backlight_Alone(c) ==
  /\ LockFree
  /\ g_backlight' = rgb_to_brightness(c)
  /\ write_int([lcd |-> rgb_to_brightness(c)])
  /\ UNCHANGED <<g_haveTrackballLight, g_notification, g_battery, g_attention,
                 preStatus, todo, led, plain>>
set_light_backlight(c) ==
  /\ LockFree
  /\ g_backlight' = rgb_to_brightness(c)
  /\ LET ball == handle_trackball_light(g_attention, rgb_to_brightness(c))
     IN write_int([l \in {"lcd"} \cup DOMAIN ball |->
                     IF l = "lcd" THEN rgb_to_brightness(c) ELSE ball[l]])
  /\ UNCHANGED <<g_haveTrackballLight, g_notification, g_battery, g_attention,
                 preStatus, todo, led, plain>>

(* set_light_keyboard and set_light_buttons; g_buttons is never read.      *)
set_light_plain(l, state) ==
  /\ LockFree
  /\ plain' \in {plain, IF is_lit(state) THEN plain \cup {l} ELSE plain \ {l}}
  /\ UNCHANGED <<g_haveTrackballLight, statics, preStatus, todo, led, jogball, lcd,
                 trusted>>

set_light_battery(state) ==
  /\ LockFree
  /\ g_battery' = state
  /\ todo' = (IF g_haveTrackballLight THEN set_speaker_light(state) ELSE <<>>)
               \o handle_speaker_battery(state, g_notification)
  /\ UNCHANGED <<g_haveTrackballLight, g_notification, g_backlight,
                 g_attention, preStatus, led, screen, trusted>>

set_light_notifications(state) ==
  /\ LockFree
  /\ g_notification' = state
  /\ write_int(handle_trackball_light(g_attention, g_backlight))
  /\ todo' = handle_speaker_battery(g_battery, state)
  /\ UNCHANGED <<g_haveTrackballLight, g_battery, g_backlight, g_attention,
                 preStatus, led, plain>>

(* LIGHT_FLASH_HARDWARE gives an on-time, LIGHT_FLASH_NONE 0; any other    *)
(* flash mode leaves g_attention as it is.                                 *)
set_light_attention ==
  /\ LockFree
  /\ g_attention' \in Attention \cup {0}
  /\ write_int(handle_trackball_light(g_attention', g_backlight))
  /\ UNCHANGED <<g_haveTrackballLight, g_notification, g_battery, g_backlight,
                 preStatus, todo, led, plain>>

(* The process that holds the HAL dies and comes back, wherever it was. *)
Status(h) == IF h.trigger = "timer" THEN Blink ELSE IF h.lit THEN Solid ELSE Off
Restart ==
  /\ g_notification' = Unlit
  /\ g_battery' = Unlit
  /\ g_backlight' = 255
  /\ g_attention' = 0
  /\ preStatus' = [l \in Leds |-> Off]
  /\ todo' = <<>>
  /\ trusted' = [l \in DOMAIN trusted |-> CASE l = "jogball" -> jogball = 0
                                            [] l = "lcd" -> lcd = 255
                                            [] OTHER -> Status(led[l]) = Off]
  /\ UNCHANGED <<g_haveTrackballLight, led, screen>>

Next == \/ \E c \in Backlights : set_light_backlight(c)
        \/ \E s \in States : set_light_battery(s) \/ set_light_notifications(s)
        \/ \E s \in States, l \in {"keyboard", "buttons"} : set_light_plain(l, s)
        \/ set_light_attention
        \/ blink
        \/ Restart

Spec == Init /\ [][Next]_vars

-----------------------------------------------------------------------------
(* Properties. *)

Owner == IF is_lit(g_battery) THEN g_battery ELSE g_notification

(* What the owner's state asks of a LED: the operation its color names. *)
Asked(l) == LET ops == set_speaker_light(Owner)
            IN ops[CHOOSE i \in DOMAIN ops : ops[i].led = l]

(* Between calls each LED is off, blinks or is solid as the owner of the   *)
(* LEDs asks, although blink_red and blink_green skip what their static    *)
(* says is done already; and a LED that missed a write, or outlived the    *)
(* process, is right again with the first change that is written whole.    *)
LedsShowOwner ==
  todo = <<>> => \A l \in Leds :
                   /\ preStatus[l] = now_status(Asked(l))
                   /\ trusted[l] => Status(led[l]) = preStatus[l]

(* A notification blinks at its own rate, not at that of an earlier state: *)
(* the battery state that is set first, although unlit, is what makes      *)
(* blink_red and blink_green write the rate again.                         *)
NotificationRate ==
  todo = <<>> /\ ~is_lit(g_battery) =>
    \A l \in Leds : trusted[l] /\ preStatus[l] = Blink
                      => led[l].rate = g_notification.rate

(* Between calls the trackball light has the mode of the attention light,  *)
(* and does not breathe (mode 7) while the screen is lit: g_backlight says *)
(* what the LCD file holds, unless a write was lost.                       *)
JogballShowsAttention ==
  g_haveTrackballLight /\ trusted["jogball"] /\ trusted["lcd"]
    => jogball = mode(g_attention, lcd)
=============================================================================
