----------------------------- MODULE FanRegister -----------------------------
(***************************************************************************)
(* What the fan driver promises of the attributes manual_mode and          *)
(* frequency, as a register that changes atomically.  Users set the mode   *)
(* at any time and the frequency in manual mode only.  A run of the timer  *)
(* callback that finds the register in automatic mode samples the          *)
(* temperature, and later replaces the frequency by an entry of the table  *)
(* or gives up; it does so even if a user has taken over meanwhile, so the *)
(* callbacks that have started to sample are part of the state.            *)
(***************************************************************************)
EXTENDS Integers

CONSTANTS
  Callers,      \* the contexts that run the callback
  Frequencies,  \* what users write
  Table         \* the entries of the lookup table

VARIABLES
  manual,       \* is the register in manual mode?
  frequency,    \* the frequency in force
  sampling      \* the callbacks that found automatic mode and may still write

vars == <<manual, frequency, sampling>>

Init == manual = FALSE /\ frequency = 0 /\ sampling = {}

SetMode(m) ==
  /\ manual' = m
  /\ UNCHANGED <<frequency, sampling>>

SetFrequency(f) ==
  /\ manual
  /\ frequency' = f
  /\ UNCHANGED <<manual, sampling>>

Sample(c) ==
  /\ ~manual /\ c \notin sampling
  /\ sampling' = sampling \cup {c}
  /\ UNCHANGED <<manual, frequency>>

(* The sample is applied, or the reading failed.                           *)
Apply(c) ==
  /\ c \in sampling
  /\ frequency' \in Table \cup {frequency}
  /\ sampling' = sampling \ {c}
  /\ UNCHANGED manual

(* The device is bound again.                                              *)
Reset ==
  /\ sampling = {} /\ sampling' = {}
  /\ manual' = FALSE /\ frequency' = 0

Next ==
  \/ \E m \in BOOLEAN : SetMode(m)
  \/ \E f \in Frequencies : SetFrequency(f)
  \/ \E c \in Callers : Sample(c) \/ Apply(c)
  \/ Reset

Spec == Init /\ [][Next]_vars
=============================================================================
