---------------------------- MODULE Lights_proofs ----------------------------
(* Theorems about Lights, for any states, colors and rates asked for.      *)
EXTENDS Lights, TLAPS


-----------------------------------------------------------------------------
(* The trackball light and the screen. *)

(* g_backlight is what the LCD file holds, and the trackball light has the *)
(* mode of the two statics, wherever the last write was not lost.          *)
JogballInv ==
  /\ trusted["lcd"] => lcd = g_backlight
  /\ g_haveTrackballLight /\ trusted["jogball"] =>
       jogball = mode(g_attention, g_backlight)

(* A brightness is a byte: the weights add up to 256. *)
LEMMA BrightnessByte ==
  ASSUME NEW c \in Color
  PROVE  rgb_to_brightness(c) \in Byte
<1>1. ASSUME NEW r \in Nat, NEW g \in Nat, NEW b \in Nat,
             r <= 255, g <= 255, b <= 255
      PROVE  77 * r + 150 * g + 29 * b <= 65280 /\ 77 * r + 150 * g + 29 * b \in Nat
  BY <1>1
<1>2. ASSUME NEW n \in Nat, n <= 65280
      PROVE  n \div 256 <= 255 /\ n \div 256 \in Nat
  BY <1>2
<1>3. /\ c.r \in Nat /\ c.g \in Nat /\ c.b \in Nat
      /\ c.r <= 255 /\ c.g <= 255 /\ c.b <= 255
  BY DEF Color, Byte
<1>4. rgb_to_brightness(c) <= 255 /\ rgb_to_brightness(c) \in Nat
  BY <1>1, <1>2, <1>3 DEF rgb_to_brightness
<1> QED
  BY <1>4 DEF Byte

(* A mode is an on-time or 0. *)
LEMMA ModeType ==
  ASSUME NEW a \in Attention \cup {0}, NEW b
  PROVE  mode(a, b) \in Attention \cup {0}
BY DEF mode

(* What write_int leaves of the screen and the trackball light. *)
LEMMA WriteInt ==
  ASSUME TypeOK, NEW values, write_int(values)
  PROVE  /\ trusted' \in [Leds \cup {"jogball", "lcd"} -> BOOLEAN]
         /\ \A l \in (Leds \cup {"jogball", "lcd"}) \ DOMAIN values :
              trusted'[l] = trusted[l]
         /\ jogball' = jogball \/
              ("jogball" \in DOMAIN values /\ jogball' = values["jogball"])
         /\ lcd' = lcd \/ ("lcd" \in DOMAIN values /\ lcd' = values["lcd"])
         /\ "jogball" \notin DOMAIN values => jogball' = jogball
         /\ "lcd" \notin DOMAIN values => lcd' = lcd
         /\ "jogball" \in DOMAIN values /\ trusted'["jogball"] =>
              jogball' = values["jogball"]
         /\ "lcd" \in DOMAIN values /\ trusted'["lcd"] => lcd' = values["lcd"]
<1>1. PICK failed \in SUBSET DOMAIN values :
        /\ jogball' = IF "jogball" \in DOMAIN values \ failed
                      THEN values["jogball"] ELSE jogball
        /\ lcd' = IF "lcd" \in DOMAIN values \ failed THEN values["lcd"] ELSE lcd
        /\ trusted' = [l \in DOMAIN trusted |->
                         IF l \in DOMAIN values THEN l \notin failed ELSE trusted[l]]
  BY DEF write_int
<1>2. DOMAIN trusted = Leds \cup {"jogball", "lcd"}
  BY DEF TypeOK
<1>3. \A l \in Leds \cup {"jogball", "lcd"} :
        trusted'[l] = IF l \in DOMAIN values THEN l \notin failed ELSE trusted[l]
  BY <1>1, <1>2
<1>4. trusted' \in [Leds \cup {"jogball", "lcd"} -> BOOLEAN]
  BY <1>1, <1>2 DEF TypeOK
<1> QED
  BY <1>1, <1>3, <1>4

(* What is written for the trackball light. *)
LEMMA TrackballValues ==
  ASSUME TypeOK, NEW a \in Attention \cup {0}, NEW b
  PROVE  LET v == handle_trackball_light(a, b)
         IN /\ DOMAIN v = IF g_haveTrackballLight THEN {"jogball"} ELSE {}
            /\ g_haveTrackballLight => v["jogball"] = mode(a, b)
BY DEF handle_trackball_light

(* A call that writes the trackball light for new statics. *)
LEMMA TrackballStep ==
  ASSUME TypeOK, JogballInv, g_attention' \in Attention \cup {0},
         g_haveTrackballLight' = g_haveTrackballLight,
         g_backlight' = g_backlight,
         write_int(handle_trackball_light(g_attention', g_backlight))
  PROVE  /\ JogballInv' /\ jogball' \in Attention \cup {0} /\ lcd' \in Byte
         /\ trusted' \in [Leds \cup {"jogball", "lcd"} -> BOOLEAN]
         /\ \A l \in Leds : trusted'[l] = trusted[l]
<1> DEFINE v == handle_trackball_light(g_attention', g_backlight)
<1>1. /\ DOMAIN v = IF g_haveTrackballLight THEN {"jogball"} ELSE {}
      /\ g_haveTrackballLight => v["jogball"] = mode(g_attention', g_backlight)
  BY TrackballValues
<1>2. mode(g_attention', g_backlight) \in Attention \cup {0}
  BY ModeType
<1>3. write_int(v)
  OBVIOUS
<1> HIDE DEF v
<1>4. \A l \in Leds \cup {"lcd"} : l \notin DOMAIN v
  BY <1>1 DEF Leds
<1>5. /\ trusted' \in [Leds \cup {"jogball", "lcd"} -> BOOLEAN] /\ lcd' = lcd
      /\ \A l \in Leds \cup {"lcd"} : trusted'[l] = trusted[l]
  BY <1>3, <1>4, WriteInt
<1>6. CASE g_haveTrackballLight
  <2>1. /\ jogball' \in {jogball, mode(g_attention', g_backlight)}
        /\ trusted'["jogball"] => jogball' = mode(g_attention', g_backlight)
    BY <1>1, <1>3, <1>6, WriteInt
  <2> QED
    BY <1>2, <1>5, <2>1 DEF JogballInv, TypeOK
<1>7. CASE ~g_haveTrackballLight
  <2>1. jogball' = jogball
    BY <1>1, <1>3, <1>7, WriteInt
  <2> QED
    BY <1>5, <1>7, <2>1 DEF JogballInv, TypeOK
<1> QED
  BY <1>6, <1>7

(* The backlight writes the LCD too. *)
LEMMA BacklightStep ==
  ASSUME TypeOK, JogballInv, NEW c \in Color, set_light_backlight(c)
  PROVE  /\ JogballInv' /\ jogball' \in Attention \cup {0} /\ lcd' \in Byte
         /\ trusted' \in [Leds \cup {"jogball", "lcd"} -> BOOLEAN]
         /\ \A l \in Leds : trusted'[l] = trusted[l]
<1> DEFINE b == rgb_to_brightness(c)
           v == handle_trackball_light(g_attention, b)
           w == [l \in {"lcd"} \cup DOMAIN v |-> IF l = "lcd" THEN b ELSE v[l]]
<1>1. b \in Byte
  BY BrightnessByte
<1> HIDE DEF b
<1>2. g_attention \in Attention \cup {0}
  BY DEF TypeOK
<1>3. /\ DOMAIN v = IF g_haveTrackballLight THEN {"jogball"} ELSE {}
      /\ g_haveTrackballLight => v["jogball"] = mode(g_attention, b)
  BY <1>2, TrackballValues
<1>4. mode(g_attention, b) \in Attention \cup {0}
  BY <1>2, ModeType
<1> HIDE DEF v
<1>5. /\ DOMAIN w = {"lcd"} \cup DOMAIN v /\ w["lcd"] = b
      /\ g_haveTrackballLight => w["jogball"] = mode(g_attention, b)
  BY <1>3
<1>6. /\ write_int(w) /\ g_backlight' = b
      /\ UNCHANGED <<g_attention, g_haveTrackballLight>>
  BY DEF set_light_backlight, b, v
<1> HIDE DEF w
<1>7. \A l \in Leds : l \notin DOMAIN w
  BY <1>3, <1>5 DEF Leds
<1>8. /\ trusted' \in [Leds \cup {"jogball", "lcd"} -> BOOLEAN]
      /\ \A l \in Leds : trusted'[l] = trusted[l]
      /\ lcd' \in {lcd, b} /\ (trusted'["lcd"] => lcd' = b)
  BY <1>5, <1>6, <1>7, WriteInt
<1>9. CASE g_haveTrackballLight
  <2>1. /\ jogball' \in {jogball, mode(g_attention, b)}
        /\ trusted'["jogball"] => jogball' = mode(g_attention, b)
    BY <1>3, <1>5, <1>6, <1>9, WriteInt
  <2> QED
    BY <1>1, <1>4, <1>6, <1>8, <2>1 DEF JogballInv, TypeOK
<1>10. CASE ~g_haveTrackballLight
  <2>1. jogball' = jogball
    BY <1>3, <1>5, <1>6, <1>10, WriteInt
  <2> QED
    BY <1>1, <1>6, <1>8, <1>10, <2>1 DEF JogballInv, TypeOK
<1> QED
  BY <1>9, <1>10

-----------------------------------------------------------------------------
(* What a state asks of the LEDs. *)

(* Two operations, one for each LED, that blink at the state's rate if at  *)
(* all, and turn both LEDs off for a state that is not lit.                *)
SetsBoth(state, x, y) ==
  /\ set_speaker_light(state) = <<x, y>> /\ x.led # y.led
  /\ x \in Operation /\ y \in Operation
  /\ now_status(x) = Blink => x.rate = state.rate
  /\ now_status(y) = Blink => y.rate = state.rate
  /\ ~is_lit(state) => x.level = 0 /\ y.level = 0

(* set_speaker_light asks both LEDs, whatever the colour and the rate. *)
LEMMA SpeakerLight ==
  ASSUME NEW state \in LightState
  PROVE  \E x, y : SetsBoth(state, x, y)
<1>1. /\ state.rate \in Rates \cup {Steady}
      /\ state.color.r \in Byte /\ state.color.g \in Byte /\ 0 \in Byte
  BY DEF LightState, Color, Byte
<1>2. ASSUME NEW l \in Leds, NEW level \in Byte
      PROVE  /\ Set(l, level, state) \in Operation /\ Set(l, level, state).led = l
             /\ Set(l, level, state).rate = state.rate
  BY <1>1 DEF Set, Operation
<1>3. ASSUME NEW l \in Leds
      PROVE  /\ Clear(l) \in Operation /\ Clear(l).led = l /\ Clear(l).level = 0
             /\ now_status(Clear(l)) # Blink
  BY <1>1 DEF Clear, Operation, now_status, Off, Blink
<1>4. "red" \in Leds /\ "green" \in Leds /\ "red" # "green"
  BY DEF Leds
<1> DEFINE red == IF state.color.a = 0 THEN 0 ELSE state.color.r
           green == IF state.color.a = 0 THEN 0 ELSE state.color.g
<1>5. red \in Byte /\ green \in Byte
  BY <1>1
<1>6. ~is_lit(state) => red = 0 /\ green = 0
  BY DEF is_lit
<1>7. set_speaker_light(state) =
        IF red # 0 /\ state.color = Orange
        THEN <<Set("green", red, state), Set("red", red, state)>>
        ELSE IF red # 0 THEN <<Clear("green"), Set("red", red, state)>>
        ELSE IF green # 0 THEN <<Clear("red"), Set("green", green, state)>>
        ELSE <<Clear("red"), Clear("green")>>
  BY DEF set_speaker_light
<1> HIDE DEF red, green
<1>8. CASE red # 0 /\ state.color = Orange
  <2>1. SetsBoth(state, Set("green", red, state), Set("red", red, state))
    BY <1>2, <1>4, <1>5, <1>6, <1>7, <1>8 DEF SetsBoth
  <2> QED
    BY <2>1
<1>9. CASE red # 0 /\ state.color # Orange
  <2>1. SetsBoth(state, Clear("green"), Set("red", red, state))
    BY <1>2, <1>3, <1>4, <1>5, <1>6, <1>7, <1>9 DEF SetsBoth
  <2> QED
    BY <2>1
<1>10. CASE red = 0 /\ green # 0
  <2>1. SetsBoth(state, Clear("red"), Set("green", green, state))
    BY <1>2, <1>3, <1>4, <1>5, <1>6, <1>7, <1>10 DEF SetsBoth
  <2> QED
    BY <2>1
<1>11. CASE red = 0 /\ green = 0
  <2>1. SetsBoth(state, Clear("red"), Clear("green"))
    BY <1>3, <1>4, <1>7, <1>11 DEF SetsBoth
  <2> QED
    BY <2>1
<1> QED
  BY <1>8, <1>9, <1>10, <1>11

(* What a state asks of a LED is the one of the two that names it.         *)
AskedBy(state, l) == LET ops == set_speaker_light(state)
                     IN ops[CHOOSE i \in DOMAIN ops : ops[i].led = l]

(* Each LED is named by exactly one of the two operations. *)
LEMMA AskedOf ==
  ASSUME NEW state, NEW x, NEW y, SetsBoth(state, x, y), NEW l \in Leds
  PROVE  AskedBy(state, l) = (IF x.led = l THEN x ELSE y) /\ l \in {x.led, y.led}
<1>1. x.led \in Leds /\ y.led \in Leds /\ x.led # y.led
  BY DEF SetsBoth, Operation
<1>2. DOMAIN <<x, y>> = {1, 2} /\ <<x, y>>[1] = x /\ <<x, y>>[2] = y
  OBVIOUS
<1>3. l \in {x.led, y.led}
  BY <1>1 DEF Leds
<1>4. (CHOOSE i \in {1, 2} : <<x, y>>[i].led = l) = IF x.led = l THEN 1 ELSE 2
  BY <1>1, <1>2, <1>3
<1>5. AskedBy(state, l) = <<x, y>>[CHOOSE i \in {1, 2} : <<x, y>>[i].led = l]
  BY <1>2 DEF AskedBy, SetsBoth
<1> QED
  BY <1>2, <1>3, <1>4, <1>5

-----------------------------------------------------------------------------
(* The inductive invariant of the LEDs. *)

(* The last operation left for a LED brings it where the owner wants it;   *)
(* if none is left, it is there.                                           *)
StatusInv ==
  \A l \in Leds :
    \/ \E i \in 1 .. Len(todo) :
         /\ todo[i].led = l /\ now_status(todo[i]) = now_status(Asked(l))
         /\ \A j \in i + 1 .. Len(todo) : todo[j].led # l
    \/ /\ \A j \in 1 .. Len(todo) : todo[j].led # l
       /\ preStatus[l] = now_status(Asked(l))

(* The static is right about a LED whose writes are not lost. *)
TrustInv == \A l \in Leds : trusted[l] => Status(led[l]) = preStatus[l]

(* While the notification owns the LEDs: a LED blinks at its rate, and so  *)
(* it will after every operation left; or it is still to be turned off,    *)
(* and will blink at that rate after that.                                 *)
RateRight(l) == trusted[l] /\ preStatus[l] = Blink => led[l].rate = g_notification.rate
RatesAfter(l, i) ==
  \A j \in i + 1 .. Len(todo) : todo[j].led = l /\ now_status(todo[j]) = Blink =>
                                todo[j].rate = g_notification.rate
RateInv ==
  ~is_lit(g_battery) =>
    \A l \in Leds :
      \/ RateRight(l) /\ RatesAfter(l, 0)
      \/ \E i \in 1 .. Len(todo) :
           todo[i].led = l /\ todo[i].level = 0 /\ RatesAfter(l, i)

(* All of them together. *)
LightsInv == TypeOK /\ JogballInv /\ StatusInv /\ TrustInv /\ RateInv

-----------------------------------------------------------------------------
(* One LED operation. *)

(* The LED after writes that were not lost has the status and the rate. *)
LEMMA WrittenWhole ==
  ASSUME NEW h \in Led, NEW op \in Operation, NEW first \in BOOLEAN,
         NEW last \in BOOLEAN, NEW w,
         w = Written(h, now_status(op), op.rate, first, last)
  PROVE  /\ w \in Led
         /\ first /\ last => /\ Status(w) = now_status(op)
                             /\ now_status(op) = Blink => w.rate = op.rate
<1>1. op.rate \in Rates \cup {Steady, DefaultRate}
  BY DEF Operation
<1>2. DarkLed \in Led /\ DarkLed.lit = FALSE /\ DarkLed.trigger = "none"
  BY DEF DarkLed, Led
<1>3. CASE now_status(op) = Off
  <2>1. w = IF last THEN DarkLed ELSE h
    BY <1>3 DEF Written, SetBrightness, Off, Blink, Solid
  <2> QED
    BY <1>2, <1>3, <2>1 DEF Status, Off, Blink
<1>4. CASE now_status(op) = Blink
  <2> DEFINE timer == [trigger |-> "timer", lit |-> TRUE, rate |-> DefaultRate]
             k == IF first THEN timer ELSE h
  <2>1. timer \in Led /\ timer.trigger = "timer"
    BY DEF Led
  <2>2. w = SetDelays(k, op.rate, last)
    BY <1>4 DEF Written, SetTrigger, Off, Blink, Solid
  <2> HIDE DEF timer
  <2>3. k \in Led /\ (first => k.trigger = "timer")
    BY <2>1
  <2> HIDE DEF k
  <2>4. [k EXCEPT !.rate = op.rate] \in Led
    BY <1>1, <2>3 DEF Led
  <2>5. w \in {k, [k EXCEPT !.rate = op.rate]}
    BY <2>2 DEF SetDelays
  <2>6. w \in Led
    BY <2>3, <2>4, <2>5
  <2>7. CASE first /\ last
    <3>1. w = [k EXCEPT !.rate = op.rate]
      BY <2>2, <2>3, <2>7 DEF SetDelays
    <3>2. w.rate = op.rate /\ w.trigger = k.trigger
      BY <2>3, <3>1 DEF Led
    <3> QED
      BY <1>4, <2>3, <2>6, <2>7, <3>2 DEF Status
  <2> QED
    BY <2>6, <2>7
<1>5. CASE now_status(op) = Solid
  <2> DEFINE k == IF first THEN DarkLed ELSE h
  <2>1. k = SetTrigger(h, "none", first)
    BY DEF SetTrigger
  <2>2. k \in Led /\ (first => k.trigger = "none")
    BY <1>2
  <2> HIDE DEF k
  <2>3. w = IF last THEN [k EXCEPT !.lit = TRUE] ELSE k
    BY <1>5, <2>1 DEF Written, SetBrightness, Off, Blink, Solid
  <2>4. /\ [k EXCEPT !.lit = TRUE] \in Led /\ [k EXCEPT !.lit = TRUE].lit = TRUE
        /\ [k EXCEPT !.lit = TRUE].trigger = k.trigger
    BY <2>2 DEF Led
  <2>5. w \in Led
    BY <2>2, <2>3, <2>4
  <2>6. CASE first /\ last
    <3>1. w.lit = TRUE /\ w.trigger = "none"
      BY <2>2, <2>3, <2>4, <2>6
    <3> QED
      BY <1>5, <2>5, <3>1 DEF Status, Blink, Solid
  <2> QED
    BY <2>5, <2>6
<1> QED
  BY <1>3, <1>4, <1>5 DEF now_status

(* What blink does with the first operation, and what it leaves alone. *)
Blinked(op) ==
  /\ op = todo[1] /\ op \in Operation /\ Len(todo) > 0
  /\ Len(todo') = Len(todo) - 1 /\ todo' \in Seq(Operation)
  /\ \A i \in 1 .. Len(todo) - 1 : todo'[i] = todo[i + 1]
  /\ preStatus'[op.led] = now_status(op)
  /\ \A l \in Leds \ {op.led} : /\ preStatus'[l] = preStatus[l] /\ led'[l] = led[l]
                                /\ trusted'[l] = trusted[l]
  /\ \/ /\ preStatus[op.led] = now_status(op)
        /\ led'[op.led] = led[op.led] /\ trusted'[op.led] = trusted[op.led]
     \/ /\ preStatus[op.led] # now_status(op)
        /\ trusted'[op.led] =>
             /\ Status(led'[op.led]) = now_status(op)
             /\ now_status(op) = Blink => led'[op.led].rate = op.rate
  /\ UNCHANGED <<g_haveTrackballLight, statics, screen>>
  /\ trusted'["jogball"] = trusted["jogball"] /\ trusted'["lcd"] = trusted["lcd"]
  /\ preStatus' \in [Leds -> {Off, Blink, Solid}] /\ led' \in [Leds -> Led]
  /\ trusted' \in [Leds \cup {"jogball", "lcd"} -> BOOLEAN]

(* A step of blink is one operation. *)
LEMMA BlinkFacts ==
  ASSUME TypeOK, blink
  PROVE  \E op : Blinked(op)
<1> DEFINE op == Head(todo)
<1>1. /\ todo \in Seq(Operation) /\ todo # <<>> /\ todo' = Tail(todo)
      /\ UNCHANGED <<g_haveTrackballLight, statics, screen>>
  BY DEF TypeOK, blink
<1>2. /\ op = todo[1] /\ op \in Operation /\ Len(todo) > 0
      /\ Len(todo') = Len(todo) - 1 /\ todo' \in Seq(Operation)
      /\ \A i \in 1 .. Len(todo) - 1 : todo'[i] = todo[i + 1]
  BY <1>1
<1>3. op.led \in Leds /\ now_status(op) \in {Off, Blink, Solid}
  BY <1>2 DEF Operation, now_status
<1>4. \/ /\ preStatus[op.led] = now_status(op)
         /\ UNCHANGED <<preStatus, led, trusted>>
      \/ /\ preStatus[op.led] # now_status(op)
         /\ \E first, last \in BOOLEAN :
               /\ led' = [led EXCEPT ![op.led] =
                     Written(led[op.led], now_status(op), op.rate, first, last)]
               /\ trusted' = [trusted EXCEPT ![op.led] = first /\ last]
               /\ preStatus' = [preStatus EXCEPT ![op.led] = now_status(op)]
  BY DEF blink
<1> HIDE DEF op
<1>5. op.led \in Leds \cup {"jogball", "lcd"} /\ op.led # "jogball" /\ op.led # "lcd"
  BY <1>3 DEF Leds
<1>6. CASE preStatus[op.led] = now_status(op) /\ UNCHANGED <<preStatus, led, trusted>>
  <2>1. Blinked(op)
    BY <1>1, <1>2, <1>6 DEF Blinked, TypeOK
  <2> QED
    BY <2>1
<1>7. ASSUME preStatus[op.led] # now_status(op), NEW first \in BOOLEAN,
             NEW last \in BOOLEAN,
             led' = [led EXCEPT ![op.led] =
                       Written(led[op.led], now_status(op), op.rate, first, last)],
             trusted' = [trusted EXCEPT ![op.led] = first /\ last],
             preStatus' = [preStatus EXCEPT ![op.led] = now_status(op)]
      PROVE  \E o : Blinked(o)
  <2> DEFINE w == Written(led[op.led], now_status(op), op.rate, first, last)
  <2>1. led[op.led] \in Led
    BY <1>3 DEF TypeOK
  <2>2. w \in Led /\ (first /\ last => /\ Status(w) = now_status(op)
                                       /\ now_status(op) = Blink => w.rate = op.rate)
    BY <1>2, <2>1, WrittenWhole
  <2> HIDE DEF w
  <2>3. /\ led' = [led EXCEPT ![op.led] = w] /\ led'[op.led] = w
        /\ led' \in [Leds -> Led] /\ \A l \in Leds \ {op.led} : led'[l] = led[l]
    BY <1>3, <1>7, <2>2 DEF TypeOK, w
  <2>4. /\ trusted' \in [Leds \cup {"jogball", "lcd"} -> BOOLEAN]
        /\ trusted'[op.led] = (first /\ last)
        /\ \A l \in (Leds \cup {"jogball", "lcd"}) \ {op.led} : trusted'[l] = trusted[l]
    BY <1>5, <1>7 DEF TypeOK
  <2>5. /\ preStatus' \in [Leds -> {Off, Blink, Solid}]
        /\ preStatus'[op.led] = now_status(op)
        /\ \A l \in Leds \ {op.led} : preStatus'[l] = preStatus[l]
    BY <1>3, <1>7 DEF TypeOK
  <2>6. /\ \A l \in Leds \ {op.led} : /\ preStatus'[l] = preStatus[l]
                                      /\ led'[l] = led[l] /\ trusted'[l] = trusted[l]
        /\ trusted'["jogball"] = trusted["jogball"] /\ trusted'["lcd"] = trusted["lcd"]
    BY <1>5, <2>3, <2>4, <2>5
  <2>7. trusted'[op.led] =>
          /\ Status(led'[op.led]) = now_status(op)
          /\ now_status(op) = Blink => led'[op.led].rate = op.rate
    <3> HAVE trusted'[op.led]
    <3>1. first /\ last
      BY <2>4
    <3>2. Status(w) = now_status(op) /\ (now_status(op) = Blink => w.rate = op.rate)
      BY <2>2, <3>1
    <3> QED
      BY <2>3, <3>2
  <2>8. Blinked(op)
    BY <1>1, <1>2, <1>7, <2>3, <2>4, <2>5, <2>6, <2>7 DEF Blinked
  <2> QED
    BY <2>8
<1> QED
  BY <1>4, <1>6, <1>7

(* It takes every LED one operation further. *)
LEMMA BlinkStep ==
  ASSUME LightsInv, blink
  PROVE  LightsInv'
<1> USE DEF LightsInv
<1>1. PICK op : Blinked(op)
  BY BlinkFacts
<1> DEFINE n == Len(todo)
<1>2. /\ op = todo[1] /\ op.led \in Leds /\ n \in Nat /\ n > 0
      /\ Len(todo') = n - 1 /\ \A i \in 1 .. n - 1 : todo'[i] = todo[i + 1]
  BY <1>1 DEF Blinked, Operation, TypeOK
<1>3. \A l \in Leds : Asked(l)' = Asked(l)
  BY <1>1 DEF Blinked, Asked, Owner, statics
<1>4. UNCHANGED <<g_notification, g_battery>>
  BY <1>1 DEF Blinked, statics
<1>5. /\ preStatus'[op.led] = now_status(op)
      /\ \A l \in Leds \ {op.led} : /\ preStatus'[l] = preStatus[l]
                                    /\ led'[l] = led[l] /\ trusted'[l] = trusted[l]
  BY <1>1 DEF Blinked
<1> HIDE DEF n
<1>6. TypeOK'
  BY <1>1 DEF Blinked, TypeOK, statics, screen
<1>7. JogballInv'
  BY <1>1 DEF Blinked, JogballInv, statics, screen
<1>8. TrustInv'
  <2> SUFFICES ASSUME NEW l \in Leds, trusted'[l]
               PROVE  Status(led[l])' = preStatus'[l]
    BY DEF TrustInv
  <2>1. Status(led[l])' = Status(led'[l])
    BY DEF Status
  <2>2. CASE l # op.led
    BY <1>5, <2>1, <2>2 DEF TrustInv
  <2>3. CASE l = op.led /\ preStatus[op.led] = now_status(op)
    BY <1>1, <2>1, <2>3 DEF TrustInv, Blinked
  <2>4. CASE l = op.led /\ preStatus[op.led] # now_status(op)
    BY <1>1, <2>1, <2>4 DEF Blinked
  <2> QED
    BY <2>2, <2>3, <2>4
<1>9. StatusInv'
  <2> SUFFICES ASSUME NEW l \in Leds
               PROVE  \/ \E i \in 1 .. n - 1 :
                           /\ todo'[i].led = l
                           /\ now_status(todo[i])' = now_status(Asked(l))
                           /\ \A j \in i + 1 .. n - 1 : todo'[j].led # l
                      \/ /\ \A j \in 1 .. n - 1 : todo'[j].led # l
                         /\ preStatus'[l] = now_status(Asked(l))
    BY <1>2, <1>3 DEF StatusInv, now_status
  <2>1. ASSUME NEW i \in 1 .. n, todo[i].led = l,
               now_status(todo[i]) = now_status(Asked(l)),
               \A j \in i + 1 .. n : todo[j].led # l, i # 1
        PROVE  /\ i - 1 \in 1 .. n - 1 /\ todo'[i - 1].led = l
               /\ now_status(todo[i - 1])' = now_status(Asked(l))
               /\ \A j \in i .. n - 1 : todo'[j].led # l
    <3>1. i - 1 \in 1 .. n - 1 /\ todo'[i - 1] = todo[i]
      BY <1>2, <2>1
    <3>2. now_status(todo[i - 1])' = now_status(todo[i])
      BY <3>1 DEF now_status
    <3> QED
      BY <1>2, <2>1, <3>1, <3>2
  <2>2. ASSUME todo[1].led = l, now_status(todo[1]) = now_status(Asked(l)),
               \A j \in 2 .. n : todo[j].led # l
        PROVE  /\ \A j \in 1 .. n - 1 : todo'[j].led # l
               /\ preStatus'[l] = now_status(Asked(l))
    BY <1>2, <1>5, <2>2
  <2>3. ASSUME \A j \in 1 .. n : todo[j].led # l,
               preStatus[l] = now_status(Asked(l))
        PROVE  /\ \A j \in 1 .. n - 1 : todo'[j].led # l
               /\ preStatus'[l] = now_status(Asked(l))
    BY <1>2, <1>5, <2>3
  <2> QED
    BY <1>2, <2>1, <2>2, <2>3 DEF StatusInv, n
<1>10. RateInv'
  <2> SUFFICES ASSUME ~is_lit(g_battery), NEW l \in Leds
               PROVE  \/ RateRight(l)' /\ RatesAfter(l, 0)'
                      \/ \E i \in 1 .. n - 1 : /\ todo'[i].led = l
                                               /\ todo'[i].level = 0
                                               /\ RatesAfter(l, i)'
    BY <1>2, <1>4 DEF RateInv, is_lit
  <2>1. ASSUME NEW i \in 1 .. n, RatesAfter(l, i)
        PROVE  RatesAfter(l, i - 1)'
    <3> SUFFICES ASSUME NEW j \in i .. n - 1, todo'[j].led = l,
                        now_status(todo[j])' = Blink
                 PROVE  todo'[j].rate = g_notification.rate
      BY <1>2, <1>4 DEF RatesAfter
    <3>1. todo'[j] = todo[j + 1] /\ j + 1 \in i + 1 .. n
      BY <1>2
    <3>2. now_status(todo[j])' = now_status(todo[j + 1])
      BY <3>1 DEF now_status
    <3> QED
      BY <2>1, <3>1, <3>2 DEF RatesAfter, n
  <2>2. CASE RateRight(l) /\ RatesAfter(l, 0)
    <3>1. RatesAfter(l, 1)
      BY <1>2, <2>2 DEF RatesAfter, n
    <3>2. RatesAfter(l, 0)'
      BY <1>2, <2>1, <3>1
    <3>3. CASE l # op.led
      BY <1>4, <1>5, <2>2, <3>2, <3>3 DEF RateRight
    <3>4. CASE l = op.led /\ preStatus[op.led] = now_status(op)
      BY <1>1, <1>4, <2>2, <3>2, <3>4 DEF RateRight, Blinked
    <3>5. CASE l = op.led /\ preStatus[op.led] # now_status(op)
      <4>1. now_status(op) = Blink => op.rate = g_notification.rate
        BY <1>2, <2>2, <3>5 DEF RatesAfter, n
      <4>2. RateRight(l)'
        BY <1>1, <1>4, <3>5, <4>1 DEF RateRight, Blinked
      <4> QED
        BY <3>2, <4>2
    <3> QED
      BY <3>3, <3>4, <3>5
  <2>3. ASSUME NEW i \in 1 .. n, todo[i].led = l, todo[i].level = 0, RatesAfter(l, i)
        PROVE  \/ RateRight(l)' /\ RatesAfter(l, 0)'
               \/ \E k \in 1 .. n - 1 : /\ todo'[k].led = l /\ todo'[k].level = 0
                                        /\ RatesAfter(l, k)'
    <3>1. RatesAfter(l, i - 1)'
      BY <2>1, <2>3
    <3>2. CASE i = 1
      <4>1. preStatus'[l] = Off
        BY <1>2, <1>5, <2>3, <3>2 DEF now_status
      <4> QED
        BY <3>1, <3>2, <4>1 DEF RateRight, Off, Blink
    <3>3. CASE i # 1
      <4>1. i - 1 \in 1 .. n - 1 /\ todo'[i - 1] = todo[i]
        BY <1>2, <3>3
      <4> QED
        BY <2>3, <3>1, <4>1
    <3> QED
      BY <3>2, <3>3
  <2> QED
    BY <2>2, <2>3 DEF RateInv, n
<1> QED
  BY <1>6, <1>7, <1>8, <1>9, <1>10

-----------------------------------------------------------------------------
(* The calls. *)

(* A list of operations that ends in two given ones. *)
LEMMA EndsInTwo ==
  ASSUME NEW s \in Seq(Operation), NEW x \in Operation, NEW y \in Operation,
         NEW r, r = s \o <<x, y>>
  PROVE  /\ r \in Seq(Operation) /\ Len(r) = Len(s) + 2 /\ Len(s) \in Nat
         /\ r[Len(s) + 1] = x /\ r[Len(s) + 2] = y
         /\ \A i \in 1 .. Len(s) : r[i] = s[i]
<1>1. <<x, y>> \in Seq(Operation) /\ Len(<<x, y>>) = 2
  OBVIOUS
<1> QED
  BY <1>1

(* If the operations end with what the owner asks, every LED gets there.   *)
LEMMA StatusSet ==
  ASSUME NEW s \in Seq(Operation), NEW x, NEW y,
         SetsBoth(Owner', x, y), todo' = s \o <<x, y>>
  PROVE  StatusInv' /\ todo' \in Seq(Operation)
<1> DEFINE n == Len(s)
<1>1. x \in Operation /\ y \in Operation /\ x.led # y.led
  BY DEF SetsBoth
<1>2. /\ todo' \in Seq(Operation) /\ Len(todo') = n + 2 /\ n \in Nat
      /\ todo'[n + 1] = x /\ todo'[n + 2] = y
  BY <1>1, EndsInTwo
<1> HIDE DEF n
<1>3. ASSUME NEW l \in Leds
      PROVE  \E i \in 1 .. Len(todo') :
               /\ todo'[i].led = l /\ now_status(todo[i])' = now_status(Asked(l))'
               /\ \A j \in i + 1 .. Len(todo') : todo'[j].led # l
  <2>1. Asked(l)' = AskedBy(Owner', l)
    BY DEF Asked, AskedBy, set_speaker_light, Set, Clear
  <2>2. Asked(l)' = (IF x.led = l THEN x ELSE y) /\ l \in {x.led, y.led}
    BY <2>1, AskedOf
  <2>3. CASE l = x.led
    <3>1. /\ n + 1 \in 1 .. Len(todo')
          /\ \A j \in (n + 1) + 1 .. Len(todo') : j = n + 2
      BY <1>2
    <3>2. now_status(todo[n + 1])' = now_status(Asked(l))'
      BY <1>2, <2>2, <2>3 DEF now_status
    <3>3. \A j \in (n + 1) + 1 .. Len(todo') : todo'[j].led # l
      BY <1>1, <1>2, <2>3, <3>1
    <3> QED
      BY <1>2, <2>3, <3>1, <3>2, <3>3
  <2>4. CASE l = y.led
    <3>1. /\ n + 2 \in 1 .. Len(todo')
          /\ \A j \in (n + 2) + 1 .. Len(todo') : FALSE
      BY <1>2
    <3>2. now_status(todo[n + 2])' = now_status(Asked(l))'
      BY <1>1, <1>2, <2>2, <2>4 DEF now_status
    <3> QED
      BY <1>2, <2>4, <3>1, <3>2
  <2> QED
    BY <2>2, <2>3, <2>4
<1>4. StatusInv'
  BY <1>3 DEF StatusInv
<1> QED
  BY <1>2, <1>4

(* If an unlit battery comes before the notification, the LEDs are off     *)
(* when the notification's rate is written.                                *)
LEMMA RatesSet ==
  ASSUME NEW s \in Seq(Operation), NEW c, NEW d, NEW x, NEW y,
         SetsBoth(g_battery', c, d), SetsBoth(g_notification', x, y),
         ~is_lit(g_battery'), todo' = (s \o <<c, d>>) \o <<x, y>>
  PROVE  RateInv'
<1> DEFINE n == Len(s)
           t == s \o <<c, d>>
<1>1. /\ c \in Operation /\ d \in Operation /\ c.led # d.led
      /\ x \in Operation /\ y \in Operation /\ c.level = 0 /\ d.level = 0
  BY DEF SetsBoth
<1>2. /\ t \in Seq(Operation) /\ Len(t) = n + 2 /\ n \in Nat
      /\ t[n + 1] = c /\ t[n + 2] = d
  BY <1>1, EndsInTwo
<1> HIDE DEF n, t
<1>3. todo' = t \o <<x, y>>
  BY DEF t
<1>4. /\ Len(todo') = Len(t) + 2 /\ todo'[Len(t) + 1] = x /\ todo'[Len(t) + 2] = y
      /\ \A i \in 1 .. Len(t) : todo'[i] = t[i]
  <2>1. t \in Seq(Operation) /\ x \in Operation /\ y \in Operation
    BY <1>1, <1>2
  <2> QED
    BY <1>3, <2>1, EndsInTwo
<1>5. /\ Len(todo') = n + 4 /\ todo'[n + 1] = c /\ todo'[n + 2] = d
      /\ todo'[n + 3] = x /\ todo'[n + 4] = y
  <2>1. /\ n + 1 \in 1 .. Len(t) /\ n + 2 \in 1 .. Len(t)
        /\ Len(t) + 1 = n + 3 /\ Len(t) + 2 = n + 4
    BY <1>2
  <2> QED
    BY <1>2, <1>4, <2>1
<1>6. ASSUME NEW j \in n + 2 .. n + 4, now_status(todo[j])' = Blink
      PROVE  todo'[j].rate = g_notification'.rate
  <2>1. j \in {n + 2, n + 3, n + 4}
    BY <1>2
  <2>2. CASE j = n + 2
    BY <1>1, <1>5, <1>6, <2>2 DEF now_status, Off, Blink
  <2>3. CASE j = n + 3
    <3>1. now_status(x) = Blink
      BY <1>5, <1>6, <2>3 DEF now_status
    <3> QED
      BY <1>5, <2>3, <3>1 DEF SetsBoth
  <2>4. CASE j = n + 4
    <3>1. now_status(y) = Blink
      BY <1>5, <1>6, <2>4 DEF now_status
    <3> QED
      BY <1>5, <2>4, <3>1 DEF SetsBoth
  <2> QED
    BY <2>1, <2>2, <2>3, <2>4
<1>7. ASSUME NEW l \in Leds
      PROVE  \E i \in 1 .. n + 4 : /\ todo'[i].led = l /\ todo'[i].level = 0
                                   /\ RatesAfter(l, i)'
  <2>1. l \in {c.led, d.led}
    BY AskedOf
  <2>2. RatesAfter(l, n + 1)' /\ RatesAfter(l, n + 2)'
    <3>1. /\ \A j \in (n + 1) + 1 .. n + 4 : j \in n + 2 .. n + 4
          /\ \A j \in (n + 2) + 1 .. n + 4 : j \in n + 2 .. n + 4
      BY <1>2
    <3>2. \A j \in n + 2 .. n + 4 : todo'[j].led = l /\ now_status(todo[j])' = Blink
                                    => todo'[j].rate = g_notification'.rate
      BY <1>6
    <3> QED
      BY <1>5, <3>1, <3>2 DEF RatesAfter
  <2>3. n + 1 \in 1 .. n + 4 /\ n + 2 \in 1 .. n + 4
    BY <1>2
  <2> QED
    BY <1>1, <1>5, <2>1, <2>2, <2>3
<1> QED
  BY <1>5, <1>7 DEF RateInv

(* What handle_speaker_battery_locked leaves to do, after s. *)
LEMMA SpeakerStep ==
  ASSUME NEW s \in Seq(Operation), g_battery' \in LightState,
         g_notification' \in LightState,
         todo' = s \o handle_speaker_battery(g_battery', g_notification')
  PROVE  StatusInv' /\ RateInv' /\ todo' \in Seq(Operation)
<1>1. PICK c, d : SetsBoth(g_battery', c, d)
  BY SpeakerLight
<1>2. PICK x, y : SetsBoth(g_notification', x, y)
  BY SpeakerLight
<1>3. /\ <<c, d>> \in Seq(Operation) /\ <<x, y>> \in Seq(Operation)
      /\ c \in Operation /\ d \in Operation
  BY <1>1, <1>2 DEF SetsBoth
<1>4. CASE is_lit(g_battery')
  <2>1. todo' = s \o <<c, d>> /\ Owner' = g_battery'
    BY <1>1, <1>4 DEF handle_speaker_battery, SetsBoth, Owner, is_lit
  <2>2. StatusInv' /\ todo' \in Seq(Operation)
    BY <1>1, <2>1, StatusSet
  <2>3. RateInv'
    BY <1>4 DEF RateInv, is_lit
  <2> QED
    BY <2>2, <2>3
<1>5. CASE ~is_lit(g_battery')
  <2>1. todo' = s \o (<<c, d>> \o <<x, y>>) /\ Owner' = g_notification'
    BY <1>1, <1>2, <1>5 DEF handle_speaker_battery, SetsBoth, Owner, is_lit
  <2>2. todo' = (s \o <<c, d>>) \o <<x, y>>
    BY <1>3, <2>1
  <2>3. s \o <<c, d>> \in Seq(Operation)
    BY <1>3, EndsInTwo
  <2>4. StatusInv' /\ todo' \in Seq(Operation)
    BY <1>2, <2>1, <2>2, <2>3, StatusSet
  <2>5. RateInv'
    BY <1>1, <1>2, <1>5, <2>2, RatesSet
  <2> QED
    BY <2>4, <2>5
<1> QED
  BY <1>4, <1>5

(* A call that leaves the LEDs and their states alone. *)
LEMMA LedsUntouched ==
  ASSUME LightsInv, \A l \in Leds : trusted'[l] = trusted[l],
         UNCHANGED <<g_notification, g_battery, preStatus, todo, led>>
  PROVE  StatusInv' /\ TrustInv' /\ RateInv'
<1>1. \A l \in Leds : Asked(l)' = Asked(l)
  BY DEF Asked, Owner, is_lit
<1>2. StatusInv'
  BY <1>1 DEF LightsInv, StatusInv, now_status
<1>3. TrustInv'
  BY DEF LightsInv, TrustInv, Status
<1>4. RateInv'
  BY DEF LightsInv, RateInv, RateRight, RatesAfter, is_lit, now_status
<1> QED
  BY <1>2, <1>3, <1>4

(* The battery's call; with a trackball light it sets the LEDs twice.      *)
LEMMA BatteryStep ==
  ASSUME LightsInv, NEW state \in LightState, set_light_battery(state)
  PROVE  LightsInv'
<1> USE DEF LightsInv
<1> DEFINE s == IF g_haveTrackballLight THEN set_speaker_light(state) ELSE <<>>
<1>1. s \in Seq(Operation)
  <2>1. PICK x, y : SetsBoth(state, x, y)
    BY SpeakerLight
  <2> QED
    BY <2>1 DEF SetsBoth
<1>2. /\ todo' = s \o handle_speaker_battery(g_battery', g_notification')
      /\ g_battery' = state
      /\ UNCHANGED <<g_haveTrackballLight, g_notification, g_backlight, g_attention,
                     preStatus, led, screen, trusted>>
  BY DEF set_light_battery
<1> HIDE DEF s
<1>3. StatusInv' /\ RateInv' /\ todo' \in Seq(Operation)
  BY <1>1, <1>2, SpeakerStep DEF TypeOK
<1>4. TypeOK'
  BY <1>2, <1>3 DEF TypeOK, screen
<1>5. TrustInv' /\ JogballInv'
  BY <1>2 DEF TrustInv, JogballInv, Status, screen
<1> QED
  BY <1>3, <1>4, <1>5

(* The notifications' call. *)
LEMMA NotificationStep ==
  ASSUME LightsInv, NEW state \in LightState, set_light_notifications(state)
  PROVE  LightsInv'
<1> USE DEF LightsInv
<1>1. /\ todo' = handle_speaker_battery(g_battery', g_notification')
      /\ g_notification' = state
      /\ write_int(handle_trackball_light(g_attention', g_backlight))
      /\ UNCHANGED <<g_haveTrackballLight, g_battery, g_backlight, g_attention,
                     preStatus, led, plain>>
  BY DEF set_light_notifications
<1>2. todo' = <<>> \o handle_speaker_battery(g_battery', g_notification')
      /\ <<>> \in Seq(Operation)
  <2>1. handle_speaker_battery(g_battery', g_notification') \in Seq(Operation)
    <3>1. PICK c, d : SetsBoth(g_battery', c, d)
      BY <1>1, SpeakerLight DEF TypeOK
    <3>2. PICK x, y : SetsBoth(g_notification', x, y)
      BY <1>1, SpeakerLight
    <3> QED
      BY <3>1, <3>2 DEF SetsBoth, handle_speaker_battery
  <2> QED
    BY <1>1, <2>1
<1>3. StatusInv' /\ RateInv' /\ todo' \in Seq(Operation)
  BY <1>1, <1>2, SpeakerStep DEF TypeOK
<1>4. /\ JogballInv' /\ jogball' \in Attention \cup {0} /\ lcd' \in Byte
      /\ trusted' \in [Leds \cup {"jogball", "lcd"} -> BOOLEAN]
      /\ \A l \in Leds : trusted'[l] = trusted[l]
  BY <1>1, TrackballStep DEF TypeOK
<1>5. TypeOK'
  BY <1>1, <1>3, <1>4 DEF TypeOK
<1>6. TrustInv'
  BY <1>1, <1>4 DEF TrustInv, Status
<1> QED
  BY <1>3, <1>4, <1>5, <1>6

(* The attention light, the backlight and the plain lights. *)
LEMMA OtherLightStep ==
  ASSUME LightsInv,
         \/ set_light_attention \/ \E c \in Color : set_light_backlight(c)
         \/ \E s, l : l \in {"keyboard", "buttons"} /\ set_light_plain(l, s)
  PROVE  LightsInv'
<1> USE DEF LightsInv
<1>1. UNCHANGED <<g_haveTrackballLight, g_notification, g_battery, preStatus, todo, led>>
  BY DEF set_light_attention, set_light_backlight, set_light_plain, statics
<1>2. CASE set_light_attention
  <2>1. /\ JogballInv' /\ jogball' \in Attention \cup {0} /\ lcd' \in Byte
        /\ trusted' \in [Leds \cup {"jogball", "lcd"} -> BOOLEAN]
        /\ \A l \in Leds : trusted'[l] = trusted[l]
    BY <1>2, TrackballStep DEF set_light_attention
  <2>2. TypeOK'
    BY <1>2, <2>1 DEF set_light_attention, TypeOK
  <2> QED
    BY <1>1, <2>1, <2>2, LedsUntouched
<1>3. ASSUME NEW c \in Color, set_light_backlight(c)
      PROVE  LightsInv'
  <2>1. /\ JogballInv' /\ jogball' \in Attention \cup {0} /\ lcd' \in Byte
        /\ trusted' \in [Leds \cup {"jogball", "lcd"} -> BOOLEAN]
        /\ \A l \in Leds : trusted'[l] = trusted[l]
    BY <1>3, BacklightStep
  <2>2. g_backlight' \in Byte
    BY <1>3, BrightnessByte DEF set_light_backlight
  <2>3. TypeOK'
    BY <1>3, <2>1, <2>2 DEF set_light_backlight, TypeOK
  <2> QED
    BY <1>1, <2>1, <2>3, LedsUntouched
<1>4. ASSUME NEW s, NEW l \in {"keyboard", "buttons"}, set_light_plain(l, s)
      PROVE  LightsInv'
  <2>1. plain' \subseteq {"keyboard", "buttons"}
    BY <1>4 DEF set_light_plain, TypeOK
  <2>2. UNCHANGED <<g_haveTrackballLight, statics, preStatus, todo, led, jogball, lcd,
                    trusted>>
    BY <1>4 DEF set_light_plain
  <2>3. TypeOK' /\ JogballInv'
    BY <2>1, <2>2 DEF TypeOK, JogballInv, statics
  <2> QED
    BY <1>1, <2>2, <2>3, LedsUntouched
<1> QED
  BY <1>2, <1>3, <1>4

-----------------------------------------------------------------------------
(* A HAL that starts, the first time or again, asks nothing of the LEDs. *)
LEMMA FreshStatics ==
  ASSUME NEW l \in Leds
  PROVE  Unlit \in LightState /\ ~is_lit(Unlit) /\ now_status(AskedBy(Unlit, l)) = Off
<1>1. Unlit \in LightState /\ ~is_lit(Unlit)
  BY DEF Unlit, Black, LightState, Color, Byte, is_lit
<1>2. PICK x, y : SetsBoth(Unlit, x, y)
  BY <1>1, SpeakerLight
<1>3. AskedBy(Unlit, l).level = 0
  BY <1>1, <1>2, AskedOf DEF SetsBoth
<1> QED
  BY <1>1, <1>3 DEF now_status

(* The statics agree with the LEDs of a HAL that starts for the first time. *)
LEMMA LightsInitial == Init => LightsInv
<1> HAVE Init
<1> USE DEF Init
<1>1. Unlit \in LightState /\ ~is_lit(Unlit)
      /\ \A l \in Leds : now_status(AskedBy(Unlit, l)) = Off
  BY FreshStatics DEF Leds
<1>2. DarkLed \in Led /\ Status(DarkLed) = Off
  BY DEF DarkLed, Led, Status, Off
<1>3. todo \in Seq(Operation) /\ Len(todo) = 0
  OBVIOUS
<1>4. TypeOK
  <2>1. preStatus \in [Leds -> {Off, Blink, Solid}] /\ led \in [Leds -> Led]
    BY <1>2
  <2>2. g_backlight \in Byte /\ lcd \in Byte
    BY DEF Byte
  <2> QED
    BY <1>1, <1>3, <2>1, <2>2 DEF TypeOK
<1>5. StatusInv
  <2>1. \A l \in Leds : Asked(l) = AskedBy(Unlit, l)
    BY <1>1 DEF Asked, AskedBy, Owner
  <2> QED
    BY <1>1, <1>3, <2>1 DEF StatusInv
<1>6. TrustInv
  BY <1>2 DEF TrustInv
<1>7. RateInv
  BY <1>3 DEF RateInv, RateRight, RatesAfter, Off, Blink
<1>8. JogballInv
  BY DEF JogballInv, mode
<1> QED
  BY <1>4, <1>5, <1>6, <1>7, <1>8 DEF LightsInv

(* A restart trusts only what happens to be as the fresh statics say. *)
LEMMA RestartStep ==
  ASSUME LightsInv, Restart
  PROVE  LightsInv'
<1> USE DEF Restart, LightsInv
<1>1. Unlit \in LightState /\ ~is_lit(Unlit)
      /\ \A l \in Leds : now_status(AskedBy(Unlit, l)) = Off
  BY FreshStatics DEF Leds
<1>2. todo' \in Seq(Operation) /\ Len(todo') = 0
  OBVIOUS
<1>3. DOMAIN trusted = Leds \cup {"jogball", "lcd"}
  BY DEF TypeOK
<1>4. /\ trusted' \in [Leds \cup {"jogball", "lcd"} -> BOOLEAN]
      /\ trusted'["jogball"] = (jogball = 0) /\ trusted'["lcd"] = (lcd = 255)
      /\ \A l \in Leds : trusted'[l] = (Status(led[l]) = Off)
  <2>1. \A l \in Leds : l # "jogball" /\ l # "lcd"
    BY DEF Leds
  <2> QED
    BY <1>3, <2>1
<1>5. preStatus' = [l \in Leds |-> Off]
  OBVIOUS
<1>6. TypeOK'
  <2>1. preStatus' \in [Leds -> {Off, Blink, Solid}] /\ g_backlight' \in Byte
    BY <1>5 DEF Byte
  <2> QED
    BY <1>1, <1>2, <1>4, <2>1 DEF TypeOK, screen
<1>7. StatusInv'
  <2>1. Owner' = Unlit
    BY DEF Owner
  <2>2. ASSUME NEW l \in Leds
        PROVE  Asked(l)' = AskedBy(Unlit, l)
    BY <2>1 DEF Asked, AskedBy, set_speaker_light, Set, Clear
  <2>3. ASSUME NEW l \in Leds
        PROVE  preStatus'[l] = now_status(Asked(l))'
    <3>1. now_status(Asked(l))' = now_status(AskedBy(Unlit, l))
      BY <2>2 DEF now_status
    <3> QED
      BY <1>1, <1>5, <3>1
  <2> QED
    BY <1>2, <2>3 DEF StatusInv
<1>8. TrustInv'
  BY <1>4, <1>5 DEF TrustInv, Status
<1>9. RateInv'
  BY <1>2, <1>5 DEF RateInv, RateRight, RatesAfter, Off, Blink
<1>10. JogballInv'
  BY <1>4 DEF JogballInv, mode, screen
<1> QED
  BY <1>6, <1>7, <1>8, <1>9, <1>10

(* Every step keeps the invariant. *)
LEMMA LightsStep ==
  ASSUME LightsInv, [Next]_vars
  PROVE  LightsInv'
<1>1. CASE UNCHANGED vars
  <2>1. TypeOK' /\ JogballInv'
    BY <1>1 DEF LightsInv, vars, statics, screen, TypeOK, JogballInv
  <2>2. StatusInv' /\ TrustInv' /\ RateInv'
    BY <1>1, LedsUntouched DEF vars, statics
  <2> QED
    BY <2>1, <2>2 DEF LightsInv
<1>2. States \subseteq LightState /\ Backlights \subseteq Color
  BY StatesAssumption
<1> QED
  BY <1>1, <1>2, BatteryStep, NotificationStep, OtherLightStep, BlinkStep,
     RestartStep DEF Next

(* Whichever lights are asked for in whatever order, wherever a write      *)
(* fails or the process dies: between calls a LED whose writes were not    *)
(* lost shows what its owner asks, a notification blinks at its own rate,  *)
(* and the trackball light follows the attention light and the screen.     *)
THEOREM LightsSafe ==
  Spec => [](TypeOK /\ LedsShowOwner /\ NotificationRate /\ JogballShowsAttention)
<1>1. LightsInv /\ todo = <<>> => Len(todo) = 0
  OBVIOUS
<1>2. LightsInv => LedsShowOwner
  BY <1>1 DEF LightsInv, LedsShowOwner, StatusInv, TrustInv
<1>3. LightsInv => NotificationRate
  BY <1>1 DEF LightsInv, NotificationRate, RateInv, RateRight
<1>4. LightsInv => JogballShowsAttention
  BY DEF LightsInv, JogballInv, JogballShowsAttention
<1>5. LightsInv => TypeOK
  BY DEF LightsInv
<1> QED
  BY <1>2, <1>3, <1>4, <1>5, LightsInitial, LightsStep, PTL DEF Spec
=============================================================================
