----------------------------- MODULE LedConstants ----------------------------
(* The limits of better_led.c, for BetterLed.                              *)
EXTENDS Integers

CONSTANTS
  MIN_BLINK_PERIOD_MS, MAX_BLINK_PERIOD_MS, BLINK_STEP_MS,
  MaxPresses           \* bound: presses in a behaviour

ASSUME LedAssumption ==
  /\ MIN_BLINK_PERIOD_MS \in Nat \ {0} /\ BLINK_STEP_MS \in Nat \ {0}
  /\ MAX_BLINK_PERIOD_MS \in Nat /\ MIN_BLINK_PERIOD_MS <= MAX_BLINK_PERIOD_MS
  /\ MaxPresses \in Nat
=============================================================================
