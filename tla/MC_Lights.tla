------------------------------ MODULE MC_Lights ------------------------------
(* A finite instance of Lights: a color for each way the LEDs can be set,  *)
(* one that lights nothing because its alpha is 0, and two blink rates.    *)
EXTENDS Lights

Argb(a, r, g, b) == [a |-> a, r |-> r, g |-> g, b |-> b]
Red == Argb(255, 255, 0, 0)
Green == Argb(255, 0, 255, 0)
NoAlpha == Argb(0, 255, 0, 0)
MC_States == {[color |-> Black, rate |-> 0], [color |-> Red, rate |-> 1],
              [color |-> Red, rate |-> 2], [color |-> Green, rate |-> 1],
              [color |-> Orange, rate |-> 0], [color |-> NoAlpha, rate |-> 0]}
MC_Backlights == {Black, Argb(255, 255, 255, 255)}
MC_Rates == {1, 2}
=============================================================================
