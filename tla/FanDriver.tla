------------------------------ MODULE FanDriver ------------------------------
(***************************************************************************)
(* The fan-controller kernel module, src/07_miniproj/fan_driver/skeleton.c *)
(*                                                                         *)
(* One struct fan_ctrl is shared by the processes that write the sysfs     *)
(* attributes, by the timer callback fan_toggle_timer, which runs in the   *)
(* timer softirq (and once, from probe, in process context), and by the    *)
(* process that binds and unbinds the driver.  Only manual_mode and        *)
(* frequency are accessed under fc->lock; gpio_state, the pin and the      *)
(* timer are not.  Every access that another context can interleave with   *)
(* is a step of its own.                                                   *)
(***************************************************************************)
EXTENDS Integers

CONSTANTS
  Writers,      \* processes that write manual_mode and frequency in sysfs
  Binder,       \* the process that runs probe and remove
  Softirq,      \* the timer softirq
  None,         \* no context
  Frequencies,  \* the values written to the attribute frequency
  Temps,        \* the readings of the thermal zone, in millidegrees
  Word,         \* how many values a u32 has (2^32 in the code)
  TickInLock    \* may the softirq interrupt the process that holds fc->lock?

Procs   == Writers \cup {Binder}    \* contexts a softirq can interrupt
Callers == {Binder, Softirq}        \* contexts that run fan_toggle_timer
U32     == 0 .. (Word - 1)

ASSUME FanAssumption ==
  /\ Binder # Softirq
  /\ Binder \notin Writers /\ Softirq \notin Writers
  /\ None \notin Writers \cup {Binder, Softirq}
  /\ Word \in Nat /\ Word > 20
  /\ Frequencies \subseteq U32
  /\ Temps \subseteq Int
  /\ TickInLock \in BOOLEAN

VARIABLES
  manual_mode, frequency, gpio_state,  \* the fields of struct fan_ctrl
  timer,        \* fc->timer: "unset" (zeroed), "idle" or "pending"
  lock,         \* the holder of fc->lock, or None
  gpio,         \* the level of the fan pin
  gpio_owned,   \* has gpio_request succeeded and gpio_free not been called?
  attrs,        \* do the sysfs attributes exist?
  pc,           \* where each context is
  val,          \* the argument of the store a writer executes
  freq,         \* the local variable freq of fan_toggle_timer
  interrupted,  \* the process the softirq interrupted inside its critical section
  fault         \* "none", or the fault that ended the behaviour

fields == <<manual_mode, frequency, gpio_state>>
pin    == <<gpio, gpio_owned>>
locals == <<val, freq>>
vars   == <<fields, timer, lock, pin, attrs, pc, locals, interrupted, fault>>

WriterPC == {"idle", "m_lock", "m_in", "f_lock", "f_in",
             "f_test", "f_off", "f_pin", "f_rearm"}
TogglePC == {"t_lock", "t_in", "t_sample", "t_update", "t_update_in",
             "t_decide", "t_low", "t_pin", "t_rearm"}
ProbePC  == {"unbound", "p_request", "p_output", "p_fields", "p_groups"}
RemovePC == {"r_low", "r_free", "r_hide", "r_drain"}

(***************************************************************************)
(* The lookup table.  The tests are made in the order of the code.         *)
(***************************************************************************)
(* Mutant: the fan rests while it is cool.                                 *)
temp_to_freqOff(temp_mc) ==
  IF temp_mc < 35000 THEN 0
  ELSE IF temp_mc > 40000 THEN 5
  ELSE IF temp_mc < 45000 THEN 10
  ELSE 20

temp_to_freq(temp_mc) ==
  IF temp_mc < 35000 THEN 2
  ELSE IF temp_mc > 40000 THEN 5
  ELSE IF temp_mc < 45000 THEN 10
  ELSE 20

TableFrequencies == {2, 5, 10, 20}

Runs(p)     == interrupted # p
Goto(p, l)  == pc' = [pc EXCEPT ![p] = l]

(* spin_lock(&fc->lock): the step of a context that waits at label from.   *)
SpinLock(p, from, to) ==
  /\ pc[p] = from /\ Runs(p)
  /\ lock = None
  /\ lock' = p
  /\ Goto(p, to)
  /\ UNCHANGED <<fields, timer, pin, attrs, locals, interrupted, fault>>

-----------------------------------------------------------------------------
(* manual_mode_store: a user writes 0 or 1 to manual_mode.                 *)

ManualModeWrite(w) ==
  /\ attrs /\ pc[w] = "idle"
  /\ \E v \in {0, 1} : val' = [val EXCEPT ![w] = v]
  /\ Goto(w, "m_lock")
  /\ UNCHANGED <<fields, timer, lock, pin, attrs, freq, interrupted, fault>>

ManualModeLock(w) == SpinLock(w, "m_lock", "m_in")

ManualModeSet(w) ==
  /\ pc[w] = "m_in" /\ Runs(w)
  /\ manual_mode' = (val[w] = 1)
  /\ lock' = None
  /\ val' = [val EXCEPT ![w] = 0]
  /\ Goto(w, "idle")
  /\ UNCHANGED <<frequency, gpio_state, timer, pin, attrs, freq, interrupted, fault>>

-----------------------------------------------------------------------------
(* frequency_store.  After the unlock the code reads fc->frequency again.  *)

FrequencyWrite(w) ==
  /\ attrs /\ pc[w] = "idle"
  /\ \E v \in Frequencies : val' = [val EXCEPT ![w] = v]
  /\ Goto(w, "f_lock")
  /\ UNCHANGED <<fields, timer, lock, pin, attrs, freq, interrupted, fault>>

FrequencyLock(w) == SpinLock(w, "f_lock", "f_in")

(* Mutant: the mode is not tested.                                         *)
FrequencySetAlways(w) ==
  /\ pc[w] = "f_in" /\ Runs(w)
  /\ frequency' = val[w]
  /\ Goto(w, "f_test")
  /\ lock' = None
  /\ val' = [val EXCEPT ![w] = 0]
  /\ UNCHANGED <<manual_mode, gpio_state, timer, pin, attrs, freq, interrupted, fault>>

(* In automatic mode the store fails with -EPERM.                          *)
FrequencySet(w) ==
  /\ pc[w] = "f_in" /\ Runs(w)
  /\ frequency' = IF manual_mode THEN val[w] ELSE frequency
  /\ Goto(w, IF manual_mode THEN "f_test" ELSE "idle")
  /\ lock' = None
  /\ val' = [val EXCEPT ![w] = 0]
  /\ UNCHANGED <<manual_mode, gpio_state, timer, pin, attrs, freq, interrupted, fault>>

(* Mutant: "a running callback will rearm the timer itself".               *)
FrequencyTestLazy(w) ==
  /\ pc[w] = "f_test"
  /\ Goto(w, IF frequency = 0 THEN "f_off"
             ELSE IF pc[Softirq] # "idle" THEN "idle" ELSE "f_rearm")
  /\ UNCHANGED <<fields, timer, lock, pin, attrs, locals, interrupted, fault>>

FrequencyTest(w) ==
  /\ pc[w] = "f_test"
  /\ Goto(w, IF frequency = 0 THEN "f_off" ELSE "f_rearm")
  /\ UNCHANGED <<fields, timer, lock, pin, attrs, locals, interrupted, fault>>

FrequencyOff(w) ==
  /\ pc[w] = "f_off"
  /\ gpio_state' = 0
  /\ Goto(w, "f_pin")
  /\ UNCHANGED <<manual_mode, frequency, timer, lock, pin, attrs, locals, interrupted, fault>>

FrequencyPin(w) ==
  /\ pc[w] = "f_pin"
  /\ gpio' = 0
  /\ Goto(w, "idle")
  /\ UNCHANGED <<fields, timer, lock, gpio_owned, attrs, locals, interrupted, fault>>

(* mod_timer on a timer without a callback is a BUG in the kernel.         *)
FrequencyRearm(w) ==
  /\ pc[w] = "f_rearm"
  /\ IF timer = "unset"
     THEN fault' = "unset_timer" /\ timer' = timer
     ELSE fault' = fault /\ timer' = "pending"
  /\ Goto(w, "idle")
  /\ UNCHANGED <<fields, lock, pin, attrs, locals, interrupted>>

-----------------------------------------------------------------------------
(* fan_toggle_timer, run by c: the softirq, or probe in process context.   *)

(* The timer expires.  The softirq runs on the CPU that armed the timer,   *)
(* on top of whatever process that CPU was executing.  Interrupting a      *)
(* process outside its critical section only delays it, which interleaving *)
(* covers; the one case of its own is the process that holds fc->lock.     *)
TimerExpire ==
  /\ timer = "pending" /\ pc[Softirq] = "idle"
  /\ pc[Binder] # "unbound"
  /\ timer' = "idle"
  /\ Goto(Softirq, "t_lock")
  /\ \/ interrupted' = None
     \/ /\ TickInLock /\ lock \in Procs
        /\ interrupted' = lock
  /\ UNCHANGED <<fields, lock, pin, attrs, locals, fault>>

(* A timer still pending when its fan_ctrl is gone expires in freed memory. *)
TimerExpireFreed ==
  /\ timer = "pending" /\ pc[Binder] = "unbound"
  /\ fault' = "use_after_free"
  /\ UNCHANGED <<fields, timer, lock, pin, attrs, pc, locals, interrupted>>

ToggleLock(c) == SpinLock(c, "t_lock", "t_in")

ToggleSnapshot(c) ==
  /\ pc[c] = "t_in" /\ Runs(c)
  /\ freq' = [freq EXCEPT ![c] = frequency]
  /\ lock' = None
  /\ Goto(c, IF manual_mode THEN "t_decide" ELSE "t_sample")
  /\ UNCHANGED <<fields, timer, pin, attrs, val, interrupted, fault>>

(* thermal_zone_get_temp fails, or answers one of Temps.                   *)
ToggleSample(c) ==
  /\ pc[c] = "t_sample"
  /\ \/ /\ Goto(c, "t_decide")
        /\ freq' = freq
     \/ \E t \in Temps : /\ freq' = [freq EXCEPT ![c] = temp_to_freq(t)]
                         /\ Goto(c, "t_update")
  /\ UNCHANGED <<fields, timer, lock, pin, attrs, val, interrupted, fault>>

ToggleUpdateLock(c) == SpinLock(c, "t_update", "t_update_in")

(* The mode is not looked at again.                                        *)
ToggleUpdate(c) ==
  /\ pc[c] = "t_update_in" /\ Runs(c)
  /\ frequency' = freq[c]
  /\ lock' = None
  /\ Goto(c, "t_decide")
  /\ UNCHANGED <<manual_mode, gpio_state, timer, pin, attrs, locals, interrupted, fault>>

ToggleStop(c) ==
  /\ pc[c] = "t_decide" /\ freq[c] = 0
  /\ gpio_state' = 0
  /\ Goto(c, "t_low")
  /\ UNCHANGED <<manual_mode, frequency, timer, lock, pin, attrs, locals, interrupted, fault>>

(* Mutants: gpio_state++ and gpio_state |= 1 for gpio_state ^= 1.           *)
ToggleCount(c) ==
  /\ pc[c] = "t_decide" /\ freq[c] # 0
  /\ gpio_state' = gpio_state + 1
  /\ Goto(c, "t_pin")
  /\ UNCHANGED <<manual_mode, frequency, timer, lock, pin, attrs, locals, interrupted, fault>>

ToggleSet(c) ==
  /\ pc[c] = "t_decide" /\ freq[c] # 0
  /\ gpio_state' = 1
  /\ Goto(c, "t_pin")
  /\ UNCHANGED <<manual_mode, frequency, timer, lock, pin, attrs, locals, interrupted, fault>>

ToggleFlip(c) ==
  /\ pc[c] = "t_decide" /\ freq[c] # 0
  /\ gpio_state' = 1 - gpio_state
  /\ Goto(c, "t_pin")
  /\ UNCHANGED <<manual_mode, frequency, timer, lock, pin, attrs, locals, interrupted, fault>>

(* The end of the callback; probe returns 0 once its direct call is done.  *)
Return(c) ==
  /\ Goto(c, IF c = Binder THEN "bound" ELSE "idle")
  /\ freq' = [freq EXCEPT ![c] = 0]
  /\ interrupted' = IF c = Softirq THEN None ELSE interrupted

(* Mutants: the pin is not written, and the return of line 79 is missing.   *)
ToggleLowForgotten(c) ==
  /\ pc[c] = "t_low"
  /\ Return(c)
  /\ UNCHANGED <<fields, timer, lock, pin, attrs, val, fault>>

ToggleLowFallThrough(c) ==
  /\ pc[c] = "t_low"
  /\ gpio' = 0
  /\ Goto(c, "t_rearm")
  /\ UNCHANGED <<fields, timer, lock, gpio_owned, attrs, locals, interrupted, fault>>

ToggleLow(c) ==
  /\ pc[c] = "t_low"
  /\ gpio' = 0
  /\ Return(c)
  /\ UNCHANGED <<fields, timer, lock, gpio_owned, attrs, val, fault>>

TogglePin(c) ==
  /\ pc[c] = "t_pin"
  /\ gpio' = gpio_state
  /\ Goto(c, "t_rearm")
  /\ UNCHANGED <<fields, timer, lock, gpio_owned, attrs, locals, interrupted, fault>>

ToggleRearm(c) ==
  /\ pc[c] = "t_rearm"
  /\ timer' = "pending"
  /\ Return(c)
  /\ UNCHANGED <<fields, lock, pin, attrs, val, fault>>

-----------------------------------------------------------------------------
(* fan_ctrl_probe.  A failure before gpio_request changes nothing.         *)

ProbeRequestGpio ==
  /\ pc[Binder] = "unbound" /\ timer = "unset"
  /\ gpio_owned' = TRUE
  /\ Goto(Binder, "p_request")
  /\ UNCHANGED <<fields, timer, lock, gpio, attrs, locals, interrupted, fault>>

(* Mutant: the last error path forgets gpio_free.                           *)
ProbeFailLeaking(from) ==
  /\ pc[Binder] = from
  /\ gpio_owned' = (from = "p_fields")
  /\ Goto(Binder, "unbound")
  /\ UNCHANGED <<fields, timer, lock, gpio, attrs, locals, interrupted, fault>>

(* An error path of probe: gpio_free and return.                           *)
ProbeFail(from) ==
  /\ pc[Binder] = from
  /\ gpio_owned' = FALSE
  /\ Goto(Binder, "unbound")
  /\ UNCHANGED <<fields, timer, lock, gpio, attrs, locals, interrupted, fault>>

ProbeOutput ==
  /\ pc[Binder] = "p_request"
  /\ gpio' = 0
  /\ Goto(Binder, "p_output")
  /\ UNCHANGED <<fields, timer, lock, gpio_owned, attrs, locals, interrupted, fault>>

ProbeFields ==
  /\ pc[Binder] = "p_output"
  /\ manual_mode' = FALSE
  /\ frequency' = 0
  /\ gpio_state' = 0
  /\ Goto(Binder, "p_fields")
  /\ UNCHANGED <<timer, lock, pin, attrs, locals, interrupted, fault>>

ProbeGroups ==
  /\ pc[Binder] = "p_fields"
  /\ attrs' = TRUE
  /\ Goto(Binder, "p_groups")
  /\ UNCHANGED <<fields, timer, lock, pin, locals, interrupted, fault>>

(* timer_setup, then the direct call of fan_toggle_timer.                  *)
ProbeTimer ==
  /\ pc[Binder] = "p_groups"
  /\ timer' = "idle"
  /\ Goto(Binder, "t_lock")
  /\ UNCHANGED <<fields, lock, pin, attrs, locals, interrupted, fault>>

-----------------------------------------------------------------------------
(* fan_ctrl_remove, then the release of the managed resources: the groups  *)
(* go first, once the stores in progress have returned, then the memory.   *)

(* del_timer_sync: a pending timer is deactivated once no callback runs.   *)
RemoveDelTimer ==
  /\ pc[Binder] = "bound" /\ pc[Softirq] = "idle"
  /\ timer' = "idle"
  /\ Goto(Binder, "r_low")
  /\ UNCHANGED <<fields, lock, pin, attrs, locals, interrupted, fault>>

RemoveLow ==
  /\ pc[Binder] = "r_low"
  /\ gpio' = 0
  /\ Goto(Binder, "r_free")
  /\ UNCHANGED <<fields, timer, lock, gpio_owned, attrs, locals, interrupted, fault>>

RemoveFreeGpio ==
  /\ pc[Binder] = "r_free"
  /\ gpio_owned' = FALSE
  /\ Goto(Binder, "r_hide")
  /\ UNCHANGED <<fields, timer, lock, gpio, attrs, locals, interrupted, fault>>

RemoveHide ==
  /\ pc[Binder] = "r_hide"
  /\ attrs' = FALSE
  /\ Goto(Binder, "r_drain")
  /\ UNCHANGED <<fields, timer, lock, pin, locals, interrupted, fault>>

(* Mutant: the release does not wait for the stores in progress.           *)
RemoveReleaseEarly ==
  /\ pc[Binder] = "r_drain"
  /\ timer' = IF timer = "idle" THEN "unset" ELSE timer
  /\ fault' = IF pc[Softirq] # "idle" THEN "use_after_free" ELSE fault
  /\ Goto(Binder, "unbound")
  /\ UNCHANGED <<fields, lock, pin, attrs, locals, interrupted>>

(* The memory of fan_ctrl is freed, whatever the timer and its callback do. *)
RemoveRelease ==
  /\ pc[Binder] = "r_drain"
  /\ \A w \in Writers : pc[w] = "idle"
  /\ timer' = IF timer = "idle" THEN "unset" ELSE timer
  /\ fault' = IF pc[Softirq] # "idle" THEN "use_after_free" ELSE fault
  /\ Goto(Binder, "unbound")
  /\ UNCHANGED <<fields, lock, pin, attrs, locals, interrupted>>

-----------------------------------------------------------------------------
Init ==
  /\ manual_mode = FALSE /\ frequency = 0 /\ gpio_state = 0
  /\ timer = "unset"
  /\ lock = None
  /\ gpio = 0 /\ gpio_owned = FALSE
  /\ attrs = FALSE
  /\ pc = [p \in Procs \cup {Softirq} |-> IF p = Binder THEN "unbound" ELSE "idle"]
  /\ val = [w \in Writers |-> 0]
  /\ freq = [c \in Callers |-> 0]
  /\ interrupted = None
  /\ fault = "none"

StoreBegin(w) == ManualModeWrite(w) \/ FrequencyWrite(w)

StoreStep(w) ==
  \/ ManualModeLock(w) \/ ManualModeSet(w)
  \/ FrequencyLock(w) \/ FrequencySet(w) \/ FrequencyTest(w)
  \/ FrequencyOff(w) \/ FrequencyPin(w) \/ FrequencyRearm(w)

ToggleStep(c) ==
  \/ ToggleLock(c) \/ ToggleSnapshot(c) \/ ToggleSample(c)
  \/ ToggleUpdateLock(c) \/ ToggleUpdate(c)
  \/ ToggleStop(c) \/ ToggleFlip(c)
  \/ ToggleLow(c) \/ TogglePin(c) \/ ToggleRearm(c)

ProbeStep ==
  \/ ProbeRequestGpio
  \/ ProbeOutput \/ ProbeFields \/ ProbeGroups \/ ProbeTimer
  \/ \E from \in {"p_request", "p_output", "p_fields"} : ProbeFail(from)

RemoveStep ==
  RemoveDelTimer \/ RemoveLow \/ RemoveFreeGpio \/ RemoveHide \/ RemoveRelease

DriverStep ==
  \/ \E w \in Writers : StoreBegin(w) \/ StoreStep(w)
  \/ TimerExpire \/ TimerExpireFreed
  \/ \E c \in Callers : ToggleStep(c)
  \/ ProbeStep \/ RemoveStep

(* A behaviour is followed up to its first fault.                          *)
Running == fault = "none" /\ DriverStep
Halted  == fault # "none" /\ UNCHANGED vars

Next == Running \/ Halted

Spec == Init /\ [][Next]_vars

(***************************************************************************)
(* Fairness: a pending timer expires; interrupt context always runs; a     *)
(* store that has begun is scheduled until it returns.  Strong, because    *)
(* the arm64 spinlock is a FIFO queue, so that a context which finds it    *)
(* free again and again obtains it.  No user is obliged to write and the   *)
(* driver need not be bound.                                               *)
(***************************************************************************)
Fairness ==
  /\ WF_vars(Running /\ TimerExpire)
  /\ \A c \in Callers : SF_vars(Running /\ ToggleStep(c))
  /\ \A w \in Writers : SF_vars(Running /\ StoreStep(w))

FairSpec == Spec /\ Fairness

-----------------------------------------------------------------------------
(* Every variable has its type; a u32 stays a u32.                         *)
TypeOK ==
  /\ manual_mode \in BOOLEAN /\ frequency \in U32 /\ gpio_state \in {0, 1}
  /\ timer \in {"unset", "idle", "pending"}
  /\ lock \in Procs \cup {Softirq, None}
  /\ gpio \in {0, 1} /\ gpio_owned \in BOOLEAN
  /\ attrs \in BOOLEAN
  /\ pc \in [Procs \cup {Softirq} ->
             WriterPC \cup TogglePC \cup ProbePC \cup RemovePC \cup {"bound"}]
  /\ \A w \in Writers : pc[w] \in WriterPC
  /\ pc[Softirq] \in {"idle"} \cup TogglePC
  /\ pc[Binder] \in TogglePC \cup ProbePC \cup RemovePC \cup {"bound"}
  /\ val \in [Writers -> U32]
  /\ freq \in [Callers -> U32]
  /\ interrupted \in Procs \cup {None}
  /\ fault \in {"none", "unset_timer", "use_after_free"}

Bound    == pc[Binder] = "bound"
Storing  == \E w \in Writers : pc[w] \in {"f_test", "f_rearm"}
Toggling == pc[Softirq] # "idle"
Quiet    == Bound /\ \A w \in Writers : pc[w] = "idle"

(* A driver whose timer has died is a driver that was told to stop: with   *)
(* no callback running and no frequency_store about to look at the         *)
(* frequency, an idle timer means that the frequency is zero.  No          *)
(* interleaving of stores, callback and late thermal update (lines 67 to   *)
(* 71) leaves a frequency in force that nobody acts on.                    *)
StoppedOnlyAtZero ==
  Bound /\ timer = "idle" /\ ~Toggling /\ ~Storing => frequency = 0

(* The pin is never left high: it goes high only at line 84 and 85, and    *)
(* whoever raised it, or a timer, is still there to lower it.              *)
HighIsAttended ==
  Bound /\ gpio = 1 => timer = "pending" \/ Toggling

(* Every path of probe that fails gives the GPIO back, and so does remove  *)
(* (lines 212, 220, 233, 252); and the sysfs attributes never outlive it.  *)
UnboundOwnsNothing ==
  pc[Binder] = "unbound" => ~gpio_owned /\ ~attrs

(* A store arms a timer that has not been set up only if it comes between  *)
(* the creation of the attributes at line 231 and timer_setup at line 237, *)
(* never while the driver is bound, removed and bound again.               *)
UnsetTimerOnlyInProbe == fault = "unset_timer" => pc[Binder] = "p_groups"

(* A store that has found the frequency different from 0 (line 146) divides*)
(* by 0 at line 150 only if another store sets it to 0 in between: neither *)
(* the callback nor a new probe can do that.                               *)
ZeroComesFromAStore ==
  [][\A w \in Writers :
       pc[w] = "f_rearm" /\ frequency # 0 /\ frequency' = 0
         => \E v \in Writers \ {w} : pc[v] = "f_in" /\ val[v] = 0]_vars

(* The inductive invariant behind them: the driver is being probed    *)
(* only while no callback runs and the timer is not set up; a frequency    *)
(* other than 0 always has somebody who will act on it; the values in      *)
(* hand are entries of the table and values that users wrote.              *)
ProbeIsAlone ==
  fault = "none" /\ pc[Binder] \in ProbePC =>
    ~Toggling /\ (pc[Binder] # "unbound" => timer = "unset")

TimerOutlivesProbe == timer = "unset" => pc[Binder] \in ProbePC

Alive(c) ==
  \/ pc[c] \in {"t_lock", "t_in", "t_update", "t_update_in", "t_pin", "t_rearm"}
  \/ pc[c] \in {"t_sample", "t_decide"} /\ freq[c] # 0

NonzeroIsAttended ==
  pc[Binder] \in TogglePC \cup {"bound"} /\ frequency # 0 =>
    timer = "pending" \/ Storing \/ \E c \in Callers : Alive(c)

ValuesInHand ==
  /\ \A c \in Callers : pc[c] \in {"t_update", "t_update_in"} => freq[c] \in TableFrequencies
  /\ \A w \in Writers : pc[w] \in {"f_lock", "f_in"} => val[w] \in Frequencies

OwnedWhileInUse ==
  /\ gpio_owned => pc[Binder] \notin {"unbound", "r_hide", "r_drain"}
  /\ attrs => pc[Binder] \notin {"unbound", "p_request", "p_output", "p_fields", "r_drain"}

(* Behind the last two: no store is in progress before the attributes exist.*)
StoresNeedAttributes ==
  pc[Binder] \in {"unbound", "p_request", "p_output", "p_fields"} =>
    \A w \in Writers : pc[w] = "idle"

IInv ==
  /\ TypeOK
  /\ ProbeIsAlone /\ TimerOutlivesProbe
  /\ ValuesInHand /\ NonzeroIsAttended
  /\ HighIsAttended /\ OwnedWhileInUse

(* The softirq waits for a lock whose holder it has itself interrupted:    *)
(* the CPU spins for ever.                                                 *)
SelfDeadlock ==
  /\ pc[Softirq] \in {"t_lock", "t_update"}
  /\ interrupted # None /\ lock = interrupted

(* "Spinlock to protect sysfs attributes" (line 27): a store can take the  *)
(* lock safely.  (Probe, which calls the callback itself, runs the same    *)
(* risk as the stores.)                                                    *)
LockIsSafe == ~(SelfDeadlock /\ lock \in Writers)

(* "In automatic mode, the fan frequency is adjusted according to the CPU  *)
(* temperature": as long as the driver is in automatic mode, the callback  *)
(* that samples the temperature is running or scheduled.                   *)
AutomaticIsSampled ==
  Quiet /\ ~manual_mode => timer = "pending" \/ Toggling

(* When the user has settled on frequency 0 the fan comes to rest: the pin *)
(* stays low and the timer dies.                                           *)
ZeroStops ==
  <>[](Quiet /\ manual_mode /\ frequency = 0)
    => <>[](gpio = 0 /\ timer = "idle")

(* While a frequency other than 0 is in force the pin keeps toggling.      *)
KeepsToggling ==
  <>[](Quiet /\ frequency # 0) => []<>(gpio = 0) /\ []<>(gpio = 1)

(* The two attributes behave as an atomic register: a frequency is         *)
(* accepted in manual mode only, and in manual mode the thermal loop       *)
(* writes at most once for each callback that was sampling already.        *)
SamplePC == {"t_sample", "t_update", "t_update_in"}
Sampling == {c \in Callers : pc[c] \in SamplePC}

Register == INSTANCE FanRegister WITH
  Table <- TableFrequencies, manual <- manual_mode, sampling <- Sampling

IsRegister == Register!Spec
=============================================================================
