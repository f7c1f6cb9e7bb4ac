------------------------------ MODULE BetterLed -----------------------------
(***************************************************************************)
(* src/04_file_systems/better_led/better_led.c: a thread that waits for    *)
(* the buttons and changes the period of the LED, and a thread that sets a *)
(* timer to the period and toggles the LED, with a mutex between them.     *)
(*                                                                         *)
(* epoll reports an edge-triggered descriptor once, however many edges     *)
(* there were since, and in the order in which the descriptors became      *)
(* ready.  The value files of sysfs are ready when they are added, because *)
(* nobody has ever read them: all buttons are reported once at the start.  *)
(***************************************************************************)
EXTENDS Integers, SequencesExt, LedConstants

Buttons == 0 .. 2        \* the index that epoll gives back
Free    == "nobody"

VARIABLES
  presses,         \* presses so far
  ready,           \* the ready list of epoll
  events,          \* the events of the last epoll_wait still to be handled
  button_thread,   \* "wait", "lock", "update", "unlock" or "ended"
  led_thread,      \* "lock", "copy", "unlock", "settime", "read", "toggle", "ended"
  lock,            \* the thread that holds the mutex
  blink_frequ_ms,
  timer,           \* the period that set_timer_period has copied
  interval,        \* the period the timer runs with, 0 before it is set
  unset,           \* whether the last timerfd_settime has failed
  expired,         \* whether the timer has expired since it was set or read
  led_state,       \* what the thread believes of the LED
  led              \* the LED

buttons == <<ready, events, button_thread>>
blinker == <<led_thread, timer, interval, unset, expired, led_state, led>>
vars    == <<presses, buttons, blinker, lock, blink_frequ_ms>>

-----------------------------------------------------------------------------
(* main turns the LED on; the thread starts with led_state 0.              *)
Init ==
  /\ presses = 0
  /\ ready = <<0, 1, 2>> /\ events = <<>>
  /\ button_thread = "wait" /\ led_thread = "lock" /\ lock = Free
  /\ blink_frequ_ms = MAX_BLINK_PERIOD_MS
  /\ timer = 0 /\ interval = 0 /\ unset = FALSE /\ expired = FALSE
  /\ led_state = FALSE /\ led = TRUE

Press(b) ==
  /\ presses < MaxPresses
  /\ presses' = presses + 1
  /\ ready' = IF Contains(ready, b) THEN ready ELSE Append(ready, b)
  /\ UNCHANGED <<events, button_thread, blinker, lock, blink_frequ_ms>>

-----------------------------------------------------------------------------
(* button_thread_func.                                                     *)

EpollWait ==
  /\ button_thread = "wait" /\ ready # <<>>
  /\ events' = ready /\ ready' = <<>>
  /\ button_thread' = "lock"
  /\ UNCHANGED <<presses, blinker, lock, blink_frequ_ms>>

(* EINTR, when the process is stopped and continued, is an error as well.  *)
EpollFails ==
  /\ button_thread = "wait"
  /\ button_thread' = "ended"
  /\ UNCHANGED <<presses, ready, events, blinker, lock, blink_frequ_ms>>

ButtonLock ==
  /\ button_thread = "lock" /\ lock = Free
  /\ lock' = "button"
  /\ button_thread' = "update"
  /\ UNCHANGED <<presses, ready, events, blinker, blink_frequ_ms>>

(* Mutants: the limits are forgotten; the reset goes to the other end.     *)
PeriodUnlimited(b) ==
  CASE b = 0 -> blink_frequ_ms - BLINK_STEP_MS
    [] b = 1 -> MAX_BLINK_PERIOD_MS
    [] b = 2 -> blink_frequ_ms + BLINK_STEP_MS

PeriodResetLow(b) ==
  CASE b = 0 -> Max({blink_frequ_ms - BLINK_STEP_MS, MIN_BLINK_PERIOD_MS})
    [] b = 1 -> MIN_BLINK_PERIOD_MS
    [] b = 2 -> Min({blink_frequ_ms + BLINK_STEP_MS, MAX_BLINK_PERIOD_MS})

Period(b) ==
  CASE b = 0 -> Max({blink_frequ_ms - BLINK_STEP_MS, MIN_BLINK_PERIOD_MS})
    [] b = 1 -> MAX_BLINK_PERIOD_MS
    [] b = 2 -> Min({blink_frequ_ms + BLINK_STEP_MS, MAX_BLINK_PERIOD_MS})

Update ==
  /\ button_thread = "update"
  /\ blink_frequ_ms' = Period(Head(events))
  /\ events' = Tail(events)
  /\ button_thread' = "unlock"
  /\ UNCHANGED <<presses, ready, blinker, lock>>

ButtonUnlock ==
  /\ button_thread = "unlock"
  /\ lock' = Free
  /\ button_thread' = IF events = <<>> THEN "wait" ELSE "lock"
  /\ UNCHANGED <<presses, ready, events, blinker, blink_frequ_ms>>

-----------------------------------------------------------------------------
(* led_thread_func and set_timer_period.                                   *)

CreateFails ==
  /\ led_thread = "lock" /\ interval = 0
  /\ led_thread' = "ended"
  /\ UNCHANGED <<presses, buttons, timer, interval, unset, expired, led_state, led, lock, blink_frequ_ms>>

LedLock ==
  /\ led_thread = "lock" /\ lock = Free
  /\ lock' = "led"
  /\ led_thread' = "copy"
  /\ UNCHANGED <<presses, buttons, timer, interval, unset, expired, led_state, led, blink_frequ_ms>>

Copy ==
  /\ led_thread = "copy"
  /\ timer' = blink_frequ_ms
  /\ led_thread' = "unlock"
  /\ UNCHANGED <<presses, buttons, interval, unset, expired, led_state, led, lock, blink_frequ_ms>>

(* Mutant: the mutex is kept.                                              *)
LedUnlockNot ==
  /\ led_thread = "unlock"
  /\ led_thread' = "settime"
  /\ UNCHANGED <<presses, buttons, timer, interval, unset, expired, led_state, led, lock, blink_frequ_ms>>

LedUnlock ==
  /\ led_thread = "unlock"
  /\ lock' = Free
  /\ led_thread' = "settime"
  /\ UNCHANGED <<presses, buttons, timer, interval, unset, expired, led_state, led, blink_frequ_ms>>

Settime ==
  /\ led_thread = "settime"
  /\ interval' = timer /\ unset' = FALSE /\ expired' = FALSE
  /\ led_thread' = "read"
  /\ UNCHANGED <<presses, buttons, timer, led_state, led, lock, blink_frequ_ms>>

(* The failure is printed, and the timer runs on as it did, if it did.     *)
SettimeFails ==
  /\ led_thread = "settime"
  /\ unset' = TRUE
  /\ led_thread' = "read"
  /\ UNCHANGED <<presses, buttons, timer, interval, expired, led_state, led, lock, blink_frequ_ms>>

(* The timer is periodic: it expires again and again.                      *)
Expire ==
  /\ interval # 0 /\ ~expired
  /\ expired' = TRUE
  /\ UNCHANGED <<presses, buttons, led_thread, timer, interval, unset, led_state, led, lock, blink_frequ_ms>>

Read ==
  /\ led_thread = "read" /\ expired
  /\ expired' = FALSE
  /\ led_thread' = "toggle"
  /\ UNCHANGED <<presses, buttons, timer, interval, unset, led_state, led, lock, blink_frequ_ms>>

ReadFails ==
  /\ led_thread = "read"
  /\ led_thread' = "ended"
  /\ UNCHANGED <<presses, buttons, timer, interval, unset, expired, led_state, led, lock, blink_frequ_ms>>

(* Mutants: the period is set before the loop only; the LED is not toggled.*)
ToggleAlone ==
  /\ led_thread = "toggle"
  /\ led_state' = ~led_state /\ led' = ~led_state
  /\ led_thread' = "read"
  /\ UNCHANGED <<presses, buttons, timer, interval, unset, expired, lock, blink_frequ_ms>>

ToggleOn ==
  /\ led_thread = "toggle"
  /\ led' = TRUE
  /\ led_thread' = "lock"
  /\ UNCHANGED <<presses, buttons, timer, interval, unset, expired, led_state, lock, blink_frequ_ms>>

Toggle ==
  /\ led_thread = "toggle"
  /\ led_state' = ~led_state /\ led' = ~led_state
  /\ led_thread' = "lock"
  /\ UNCHANGED <<presses, buttons, timer, interval, unset, expired, lock, blink_frequ_ms>>

-----------------------------------------------------------------------------
ButtonStep == EpollWait \/ ButtonLock \/ Update \/ ButtonUnlock
LedStep    == LedLock \/ Copy \/ LedUnlock \/ Settime \/ Read \/ Toggle

Next ==
  \/ ButtonStep \/ LedStep \/ Expire
  \/ EpollFails \/ CreateFails \/ SettimeFails \/ ReadFails
  \/ \E b \in Buttons : Press(b)

Spec == Init /\ [][Next]_vars

(* The threads are scheduled, and a mutex that is free again and again is  *)
(* obtained: the LED thread sleeps for a period between two uses of it.    *)
FairSpec == Spec /\ SF_vars(ButtonStep) /\ SF_vars(LedStep) /\ WF_vars(Expire)
-----------------------------------------------------------------------------
TypeOK ==
  /\ presses \in 0 .. MaxPresses
  /\ ready \in Seq(Buttons) /\ IsInjective(ready)
  /\ events \in Seq(Buttons) /\ IsInjective(events)
  /\ button_thread \in {"wait", "lock", "update", "unlock", "ended"}
  /\ led_thread \in {"lock", "copy", "unlock", "settime", "read", "toggle", "ended"}
  /\ lock \in {Free, "button", "led"}
  /\ blink_frequ_ms \in MIN_BLINK_PERIOD_MS .. MAX_BLINK_PERIOD_MS
  /\ {timer, interval} \subseteq {0} \cup (MIN_BLINK_PERIOD_MS .. MAX_BLINK_PERIOD_MS)
  /\ unset \in BOOLEAN /\ expired \in BOOLEAN /\ led_state \in BOOLEAN /\ led \in BOOLEAN

(* The buttons that epoll reports at the start although nobody pressed     *)
(* them leave the period where it was: the reset comes after the first     *)
(* button, and the third cannot go beyond the maximum.                     *)
QuietStart ==
  presses = 0 /\ button_thread = "wait" => blink_frequ_ms = MAX_BLINK_PERIOD_MS

(* A press is handled, as long as the thread lives.                        *)
PressesAreServed ==
  \A b \in Buttons : Contains(ready, b) ~> ~Contains(ready, b) \/ button_thread = "ended"

(* When the presses are over, the timer comes to run with the period of    *)
(* the last one, as long as the threads live, unless setting it goes on to *)
(* fail.                                                                   *)
LastPeriodApplies ==
  []<>(led_thread = "ended" \/ unset \/ interval = blink_frequ_ms)

(* The LED goes on and off for ever, whatever the buttons do, even when    *)
(* their thread has ended, and when the timer could not be set anew; only  *)
(* one that could never be set keeps the thread waiting.                   *)
KeepsBlinking == /\ []<>(led \/ led_thread = "ended" \/ interval = 0)
                 /\ []<>(~led \/ led_thread = "ended" \/ interval = 0)
=============================================================================
