--------------------------- MODULE FanDriverProofs ---------------------------
(***************************************************************************)
(* Proofs about FanDriver for every set of writers, every frequency, every *)
(* temperature and every word size, whether or not the softirq interrupts  *)
(* critical sections.                                                      *)
(***************************************************************************)
EXTENDS FanDriver, TLAPS

(* The table answers one of its entries; none of them is 0, all are u32.   *)
LEMMA TableLemma ==
  ASSUME NEW t \in Int
  PROVE  /\ temp_to_freq(t) \in TableFrequencies
         /\ temp_to_freq(t) # 0
         /\ temp_to_freq(t) \in U32
BY FanAssumption DEF temp_to_freq, TableFrequencies, U32

(* The initial state has the types.                                        *)
LEMMA InitType == Init => TypeOK
<1> SUFFICES ASSUME Init PROVE TypeOK
  OBVIOUS
<1> USE FanAssumption DEF Init, Procs, Callers
<1>1. /\ pc \in [Procs \cup {Softirq} ->
               WriterPC \cup TogglePC \cup ProbePC \cup RemovePC \cup {"bound"}]
      /\ \A w \in Writers : pc[w] \in WriterPC
      /\ pc[Softirq] \in {"idle"} \cup TogglePC
      /\ pc[Binder] \in TogglePC \cup ProbePC \cup RemovePC \cup {"bound"}
  BY DEF WriterPC, ProbePC
<1>2. val \in [Writers -> U32] /\ freq \in [Callers -> U32] /\ frequency \in U32
  BY DEF U32
<1>3. QED
  BY <1>1, <1>2 DEF TypeOK

(* A step of a store keeps the types.                                      *)
LEMMA StoreType ==
  ASSUME NEW w \in Writers, TypeOK, StoreBegin(w) \/ StoreStep(w)
  PROVE  TypeOK'
<1> USE FanAssumption DEF TypeOK, Goto, Procs, U32, WriterPC, fields, pin, locals
<1>1. CASE ManualModeWrite(w)
  BY <1>1, SMTT(30) DEF ManualModeWrite
<1>2. CASE ManualModeLock(w)
  BY <1>2, SMTT(30) DEF ManualModeLock, SpinLock
<1>3. CASE ManualModeSet(w)
  BY <1>3, SMTT(30) DEF ManualModeSet
<1>4. CASE FrequencyWrite(w)
  BY <1>4, SMTT(30) DEF FrequencyWrite
<1>5. CASE FrequencyLock(w)
  BY <1>5, SMTT(30) DEF FrequencyLock, SpinLock
<1>6. CASE FrequencySet(w)
  BY <1>6, SMTT(30) DEF FrequencySet
<1>7. CASE FrequencyTest(w)
  BY <1>7, SMTT(30) DEF FrequencyTest
<1>8. CASE FrequencyOff(w)
  BY <1>8, SMTT(30) DEF FrequencyOff
<1>9. CASE FrequencyPin(w)
  BY <1>9, SMTT(30) DEF FrequencyPin
<1>10. CASE FrequencyRearm(w)
  BY <1>10, SMTT(30) DEF FrequencyRearm
<1>11. QED
  BY <1>1, <1>2, <1>3, <1>4, <1>5, <1>6, <1>7, <1>8, <1>9, <1>10
     DEF StoreBegin, StoreStep
(* A step of the timer callback keeps the types.                           *)
LEMMA ToggleType ==
  ASSUME NEW c \in Callers, TypeOK, ToggleStep(c)
  PROVE  TypeOK'
<1> USE FanAssumption DEF TypeOK, Goto, Procs, Callers, U32, TogglePC, fields, pin, locals
<1>1. CASE ToggleLock(c)
  BY <1>1, SMTT(30) DEF ToggleLock, SpinLock
<1>2. CASE ToggleSnapshot(c)
  BY <1>2, SMTT(30) DEF ToggleSnapshot
<1>3. CASE ToggleSample(c)
  BY <1>3, TableLemma, SMTT(30) DEF ToggleSample
<1>4. CASE ToggleUpdateLock(c)
  BY <1>4, SMTT(30) DEF ToggleUpdateLock, SpinLock
<1>5. CASE ToggleUpdate(c)
  BY <1>5, SMTT(30) DEF ToggleUpdate
<1>6. CASE ToggleStop(c)
  BY <1>6, SMTT(30) DEF ToggleStop
<1>7. CASE ToggleFlip(c)
  BY <1>7, SMTT(30) DEF ToggleFlip
<1>8. CASE ToggleLow(c)
  <2>1. CASE c = Binder
    BY <1>8, <2>1, SMTT(30) DEF ToggleLow, Return
  <2>2. CASE c = Softirq
    BY <1>8, <2>2, SMTT(30) DEF ToggleLow, Return, WriterPC
  <2>3. QED
    BY <2>1, <2>2
<1>9. CASE TogglePin(c)
  BY <1>9, SMTT(30) DEF TogglePin
<1>10. CASE ToggleRearm(c)
  <2>1. CASE c = Binder
    BY <1>10, <2>1, SMTT(30) DEF ToggleRearm, Return
  <2>2. CASE c = Softirq
    BY <1>10, <2>2, SMTT(30) DEF ToggleRearm, Return, WriterPC
  <2>3. QED
    BY <2>1, <2>2
<1>11. QED
  BY <1>1, <1>2, <1>3, <1>4, <1>5, <1>6, <1>7, <1>8, <1>9, <1>10 DEF ToggleStep

(* A step of the kernel timer, of probe or of remove keeps the types.      *)
LEMMA BindType ==
  ASSUME TypeOK, TimerExpire \/ TimerExpireFreed \/ ProbeStep \/ RemoveStep
  PROVE  TypeOK'
<1> USE FanAssumption DEF TypeOK, Goto, Procs, U32, TogglePC, ProbePC, RemovePC, fields, pin, locals
<1>1. CASE TimerExpire
  BY <1>1, SMTT(30) DEF TimerExpire
<1>2. CASE TimerExpireFreed
  BY <1>2, SMTT(30) DEF TimerExpireFreed
<1>3. CASE ProbeRequestGpio
  BY <1>3, SMTT(30) DEF ProbeRequestGpio
<1>4. CASE ProbeOutput
  BY <1>4, SMTT(30) DEF ProbeOutput
<1>5. CASE ProbeFields
  <2>1. manual_mode' \in BOOLEAN
    BY <1>5, Zenon DEF ProbeFields
  <2>2. QED
    BY <1>5, <2>1, SMTT(30) DEF ProbeFields
<1>6. CASE ProbeGroups
  BY <1>6, SMTT(30) DEF ProbeGroups
<1>7. CASE ProbeTimer
  BY <1>7, SMTT(30) DEF ProbeTimer
<1>8. CASE \E from \in {"p_request", "p_output", "p_fields"} : ProbeFail(from)
  <2>1. gpio_owned' \in BOOLEAN
    BY <1>8, Zenon DEF ProbeFail
  <2>2. QED
    BY <1>8, <2>1, SMTT(30) DEF ProbeFail
<1>9. CASE RemoveDelTimer
  BY <1>9, SMTT(30) DEF RemoveDelTimer
<1>10. CASE RemoveLow
  BY <1>10, SMTT(30) DEF RemoveLow
<1>11. CASE RemoveFreeGpio
  <2>1. gpio_owned' \in BOOLEAN
    BY <1>11, Zenon DEF RemoveFreeGpio
  <2>2. QED
    BY <1>11, <2>1, SMTT(30) DEF RemoveFreeGpio
<1>12. CASE RemoveHide
  <2>1. attrs' \in BOOLEAN
    BY <1>12, Zenon DEF RemoveHide
  <2>2. QED
    BY <1>12, <2>1, SMTT(30) DEF RemoveHide
<1>13. CASE RemoveRelease
  BY <1>13, SMTT(30) DEF RemoveRelease
<1>14. QED
  BY <1>1, <1>2, <1>3, <1>4, <1>5, <1>6, <1>7, <1>8, <1>9, <1>10, <1>11, <1>12, <1>13
     DEF ProbeStep, RemoveStep

(* Whatever happens, every variable keeps its type.                        *)
THEOREM TypeCorrect == Spec => []TypeOK
<1>1. Init => TypeOK
  BY InitType
<1>2. TypeOK /\ [Next]_vars => TypeOK'
  <2> SUFFICES ASSUME TypeOK, [Next]_vars PROVE TypeOK'
    OBVIOUS
  <2>1. CASE DriverStep
    BY <2>1, StoreType, ToggleType, BindType DEF DriverStep
  <2>2. CASE UNCHANGED vars
    BY <2>2 DEF TypeOK, vars, fields, pin, locals
  <2>3. QED
    BY <2>1, <2>2 DEF Next, Running, Halted
<1>3. QED
  BY <1>1, <1>2, PTL DEF Spec

(* A step of a store preserves the inductive invariant.                    *)
LEMMA StoreInv ==
  ASSUME NEW w \in Writers, IInv, TypeOK', fault = "none",
         StoreBegin(w) \/ StoreStep(w)
  PROVE  IInv'
<1> USE FanAssumption DEF IInv, TypeOK, ProbeIsAlone, TimerOutlivesProbe, ValuesInHand,
      NonzeroIsAttended, HighIsAttended, OwnedWhileInUse, Alive, Storing, Toggling, Bound,
      Goto, Procs, Callers, TogglePC, ProbePC, RemovePC, TableFrequencies, fields, pin, locals
<1>1. CASE ManualModeWrite(w)
  BY <1>1, SMTT(30) DEF ManualModeWrite
<1>2. CASE ManualModeLock(w)
  BY <1>2, SMTT(30) DEF ManualModeLock, SpinLock
<1>3. CASE ManualModeSet(w)
  BY <1>3, SMTT(30) DEF ManualModeSet
<1>4. CASE FrequencyWrite(w)
  BY <1>4, SMTT(30) DEF FrequencyWrite
<1>5. CASE FrequencyLock(w)
  BY <1>5, SMTT(30) DEF FrequencyLock, SpinLock
<1>6. CASE FrequencySet(w)
  BY <1>6, SMTT(30) DEF FrequencySet
<1>7. CASE FrequencyTest(w)
  BY <1>7, SMTT(30) DEF FrequencyTest
<1>8. CASE FrequencyOff(w)
  BY <1>8, SMTT(30) DEF FrequencyOff
<1>9. CASE FrequencyPin(w)
  BY <1>9, SMTT(30) DEF FrequencyPin
<1>10. CASE FrequencyRearm(w)
  BY <1>10, SMTT(30) DEF FrequencyRearm
<1>11. QED
  BY <1>1, <1>2, <1>3, <1>4, <1>5, <1>6, <1>7, <1>8, <1>9, <1>10
     DEF StoreBegin, StoreStep

(* A step of the timer callback preserves the inductive invariant.         *)
LEMMA ToggleInv ==
  ASSUME NEW c \in Callers, IInv, TypeOK', fault = "none", ToggleStep(c)
  PROVE  IInv'
<1> USE FanAssumption DEF IInv, TypeOK, ProbeIsAlone, TimerOutlivesProbe, ValuesInHand,
      NonzeroIsAttended, HighIsAttended, OwnedWhileInUse, Alive, Storing, Toggling, Bound,
      Goto, Procs, Callers, TogglePC, ProbePC, RemovePC, TableFrequencies, fields, pin, locals
<1>1. CASE ToggleLock(c)
  BY <1>1, SMTT(30) DEF ToggleLock, SpinLock
<1>2. CASE ToggleSnapshot(c)
  BY <1>2, SMTT(30) DEF ToggleSnapshot
<1>3. CASE ToggleSample(c)
  BY <1>3, TableLemma, SMTT(30) DEF ToggleSample
<1>4. CASE ToggleUpdateLock(c)
  BY <1>4, SMTT(30) DEF ToggleUpdateLock, SpinLock
<1>5. CASE ToggleUpdate(c)
  BY <1>5, SMTT(30) DEF ToggleUpdate
<1>6. CASE ToggleStop(c)
  BY <1>6, SMTT(30) DEF ToggleStop
<1>7. CASE ToggleFlip(c)
  BY <1>7, SMTT(30) DEF ToggleFlip
<1>8. CASE ToggleLow(c)
  BY <1>8, SMTT(30) DEF ToggleLow, Return
<1>9. CASE TogglePin(c)
  BY <1>9, SMTT(30) DEF TogglePin
<1>10. CASE ToggleRearm(c)
  BY <1>10, SMTT(30) DEF ToggleRearm, Return
<1>11. QED
  BY <1>1, <1>2, <1>3, <1>4, <1>5, <1>6, <1>7, <1>8, <1>9, <1>10
     DEF ToggleStep

(* A step of the kernel timer, probe or remove preserves it.               *)
LEMMA BindInv ==
  ASSUME IInv, TypeOK', fault = "none",
         TimerExpire \/ TimerExpireFreed \/ ProbeStep \/ RemoveStep
  PROVE  IInv'
<1> USE FanAssumption DEF IInv, TypeOK, ProbeIsAlone, TimerOutlivesProbe, ValuesInHand,
      NonzeroIsAttended, HighIsAttended, OwnedWhileInUse, Alive, Storing, Toggling, Bound,
      Goto, Procs, Callers, TogglePC, ProbePC, RemovePC, TableFrequencies, fields, pin, locals
<1>1. CASE TimerExpire
  BY <1>1, SMTT(30) DEF TimerExpire
<1>2. CASE TimerExpireFreed
  BY <1>2, SMTT(30) DEF TimerExpireFreed
<1>3. CASE ProbeRequestGpio
  BY <1>3, SMTT(30) DEF ProbeRequestGpio
<1>4. CASE ProbeOutput
  BY <1>4, SMTT(30) DEF ProbeOutput
<1>5. CASE ProbeFields
  BY <1>5, SMTT(30) DEF ProbeFields
<1>6. CASE ProbeGroups
  BY <1>6, SMTT(30) DEF ProbeGroups
<1>7. CASE ProbeTimer
  BY <1>7, SMTT(30) DEF ProbeTimer
<1>8. CASE \E from \in {"p_request", "p_output", "p_fields"} : ProbeFail(from)
  BY <1>8, SMTT(30) DEF ProbeFail
<1>9. CASE RemoveDelTimer
  BY <1>9, SMTT(30) DEF RemoveDelTimer
<1>10. CASE RemoveLow
  BY <1>10, SMTT(30) DEF RemoveLow
<1>11. CASE RemoveFreeGpio
  BY <1>11, SMTT(30) DEF RemoveFreeGpio
<1>12. CASE RemoveHide
  BY <1>12, SMTT(30) DEF RemoveHide
<1>13. CASE RemoveRelease
  BY <1>13, SMTT(30) DEF RemoveRelease
<1>14. QED
  BY <1>1, <1>2, <1>3, <1>4, <1>5, <1>6, <1>7, <1>8, <1>9, <1>10, <1>11, <1>12, <1>13
     DEF ProbeStep, RemoveStep

(* The inductive invariant holds throughout.                               *)
THEOREM Invariance == Spec => []IInv
<1>1. Init => IInv
  <2> SUFFICES ASSUME Init PROVE IInv
    OBVIOUS
  <2> USE FanAssumption DEF Init, Procs, Callers
  <2>1. /\ pc[Binder] = "unbound" /\ pc[Softirq] = "idle"
        /\ \A w \in Writers : pc[w] = "idle"
    OBVIOUS
  <2>2. TypeOK
    BY InitType
  <2>3. ValuesInHand
    BY <2>1 DEF ValuesInHand
  <2>4. QED
    BY <2>1, <2>2, <2>3 DEF IInv, ProbeIsAlone, TimerOutlivesProbe, NonzeroIsAttended,
       HighIsAttended, OwnedWhileInUse, Toggling, Bound, ProbePC, TogglePC
<1>2. IInv /\ [Next]_vars => IInv'
  <2> SUFFICES ASSUME IInv, [Next]_vars PROVE IInv'
    OBVIOUS
  <2>1. CASE fault = "none" /\ DriverStep
    <3>1. TypeOK'
      BY <2>1, StoreType, ToggleType, BindType DEF DriverStep, IInv
    <3>2. QED
      BY <2>1, <3>1, StoreInv, ToggleInv, BindInv DEF DriverStep
  <2>2. CASE UNCHANGED vars
    BY <2>2 DEF IInv, TypeOK, ProbeIsAlone, TimerOutlivesProbe, ValuesInHand,
       NonzeroIsAttended, HighIsAttended, OwnedWhileInUse, Alive, Storing, Toggling, Bound,
       vars, fields, pin, locals
  <2>3. QED
    BY <2>1, <2>2 DEF Next, Running, Halted
<1>3. QED
  BY <1>1, <1>2, PTL DEF Spec

(* The timer dies at frequency 0 only, whatever stores and callbacks race. *)
THEOREM StopsOnlyAtZero == Spec => []StoppedOnlyAtZero
<1>1. IInv => StoppedOnlyAtZero
  <2> SUFFICES ASSUME IInv, Bound, timer = "idle", ~Toggling, ~Storing
               PROVE  frequency = 0
    BY DEF StoppedOnlyAtZero
  <2>1. ~ \E c \in Callers : Alive(c)
    BY DEF Alive, Callers, Bound, Toggling
  <2>2. QED
    BY <2>1 DEF IInv, NonzeroIsAttended, Bound
<1>2. QED
  BY <1>1, Invariance, PTL

(* The pin is never left high with nobody to lower it.                     *)
THEOREM NeverLeftHigh == Spec => []HighIsAttended
<1>1. IInv => HighIsAttended
  BY DEF IInv
<1>2. QED
  BY <1>1, Invariance, PTL

(* No path out of probe or remove keeps the GPIO or the attributes.        *)
THEOREM NothingOwned == Spec => []UnboundOwnsNothing
<1>1. IInv => UnboundOwnsNothing
  BY DEF IInv, OwnedWhileInUse, UnboundOwnsNothing
<1>2. QED
  BY <1>1, Invariance, PTL

(* Stores begin while the attributes exist, and they are waited for when   *)
(* these go: none is in progress while the driver is unbound or probes.    *)
LEMMA StoresInvariance == Spec => [](StoresNeedAttributes /\ UnsetTimerOnlyInProbe)
<1> USE FanAssumption DEF Procs, Callers
<1>1. Init => StoresNeedAttributes /\ UnsetTimerOnlyInProbe
  BY DEF Init, StoresNeedAttributes, UnsetTimerOnlyInProbe
<1>2. /\ IInv /\ StoresNeedAttributes /\ UnsetTimerOnlyInProbe
      /\ [Next]_vars
      => StoresNeedAttributes' /\ UnsetTimerOnlyInProbe'
  <2> SUFFICES ASSUME IInv, StoresNeedAttributes, UnsetTimerOnlyInProbe, [Next]_vars
               PROVE  StoresNeedAttributes' /\ UnsetTimerOnlyInProbe'
    OBVIOUS
  <2> USE DEF IInv, TypeOK, TimerOutlivesProbe, OwnedWhileInUse, StoresNeedAttributes,
              UnsetTimerOnlyInProbe, Goto, ProbePC, TogglePC, RemovePC, fields, pin, locals
  <2>1. CASE fault = "none" /\ \E w \in Writers : StoreBegin(w) \/ StoreStep(w)
    BY <2>1, SMTT(90) DEF StoreBegin, StoreStep, ManualModeWrite, ManualModeLock, ManualModeSet,
       FrequencyWrite, FrequencyLock, FrequencySet, FrequencyTest, FrequencyOff,
       FrequencyPin, FrequencyRearm, SpinLock
  <2>2. CASE fault = "none" /\ \E c \in Callers : ToggleStep(c)
    BY <2>2, SMTT(90) DEF ToggleStep, ToggleLock, ToggleSnapshot, ToggleSample, ToggleUpdateLock,
       ToggleUpdate, ToggleStop, ToggleFlip, ToggleLow, TogglePin, ToggleRearm, Return, SpinLock
  <2>3. CASE fault = "none" /\ (TimerExpire \/ TimerExpireFreed \/ ProbeStep \/ RemoveStep)
    BY <2>3, SMTT(90) DEF TimerExpire, TimerExpireFreed, ProbeStep, ProbeRequestGpio, ProbeOutput,
       ProbeFields, ProbeGroups, ProbeTimer, ProbeFail, RemoveStep, RemoveDelTimer, RemoveLow,
       RemoveFreeGpio, RemoveHide, RemoveRelease
  <2>4. CASE UNCHANGED vars
    BY <2>4 DEF vars
  <2>5. QED
    BY <2>1, <2>2, <2>3, <2>4 DEF Next, Running, Halted, DriverStep
<1>3. QED
  BY <1>1, <1>2, Invariance, PTL DEF Spec

(* A timer that is not set up is armed in one window of probe only.        *)
THEOREM UnsetOnlyInProbe == Spec => []UnsetTimerOnlyInProbe
BY StoresInvariance, PTL

(* Only another store of 0 makes the divisor of a store 0: the table of    *)
(* the callback has no 0, and no store is in progress when probe clears    *)
(* the frequency.                                                          *)
THEOREM DivisorIsRaced == Spec => ZeroComesFromAStore
<1> DEFINE A == \A w \in Writers :
                  pc[w] = "f_rearm" /\ frequency # 0 /\ frequency' = 0
                    => \E v \in Writers \ {w} : pc[v] = "f_in" /\ val[v] = 0
<1>1. IInv /\ StoresNeedAttributes /\ [Next]_vars => A
  <2> SUFFICES ASSUME IInv, StoresNeedAttributes, [Next]_vars, NEW w \in Writers,
                      pc[w] = "f_rearm", frequency # 0, frequency' = 0
               PROVE  \E v \in Writers \ {w} : pc[v] = "f_in" /\ val[v] = 0
    OBVIOUS
  <2>1. CASE \E v \in Writers : FrequencySet(v)
    BY <2>1 DEF FrequencySet
  <2>2. CASE \E c \in Callers : ToggleUpdate(c)
    BY <2>2 DEF ToggleUpdate, IInv, ValuesInHand, TableFrequencies
  <2>3. CASE ProbeFields
    BY <2>3 DEF ProbeFields, StoresNeedAttributes
  <2>4. QED
    BY <2>1, <2>2, <2>3 DEF Next, Running, Halted, DriverStep, vars, fields, pin, locals,
       StoreBegin, StoreStep, ManualModeWrite, ManualModeLock, ManualModeSet,
       FrequencyWrite, FrequencyLock, FrequencyTest, FrequencyOff, FrequencyPin, FrequencyRearm,
       ToggleStep, ToggleLock, ToggleSnapshot, ToggleSample, ToggleUpdateLock, ToggleStop,
       ToggleFlip, ToggleLow, TogglePin, ToggleRearm, Return, SpinLock,
       TimerExpire, TimerExpireFreed, ProbeStep, ProbeRequestGpio, ProbeOutput, ProbeGroups,
       ProbeTimer, ProbeFail, RemoveStep, RemoveDelTimer, RemoveLow, RemoveFreeGpio,
       RemoveHide, RemoveRelease
<1>2. QED
  BY <1>1, Invariance, StoresInvariance, PTL DEF Spec, ZeroComesFromAStore

(* A step of a store leaves the register alone, sets its mode, or, in      *)
(* manual mode, its frequency.                                             *)
LEMMA StoreRegister ==
  ASSUME NEW w \in Writers, IInv, StoreBegin(w) \/ StoreStep(w)
  PROVE  [Register!Next]_Register!vars
<1> USE FanAssumption DEF IInv, TypeOK, Goto, Procs, Callers, fields, pin, locals
<1>1. Sampling' = Sampling
  <2>1. \A c \in Callers : pc'[c] = pc[c]
    BY SMTT(60) DEF StoreBegin, StoreStep, ManualModeWrite, ManualModeLock, ManualModeSet,
       FrequencyWrite, FrequencyLock, FrequencySet, FrequencyTest, FrequencyOff,
       FrequencyPin, FrequencyRearm, SpinLock
  <2>2. QED
    BY <2>1 DEF Sampling
<1>2. CASE ManualModeSet(w)
  BY <1>1, <1>2 DEF ManualModeSet, Register!Next, Register!SetMode
<1>3. CASE FrequencySet(w) /\ manual_mode
  BY <1>1, <1>3 DEF FrequencySet, ValuesInHand, Register!Next, Register!SetFrequency
<1>4. CASE FrequencySet(w) /\ ~manual_mode
  BY <1>1, <1>4 DEF FrequencySet, Register!vars
<1>5. CASE UNCHANGED <<manual_mode, frequency>>
  BY <1>1, <1>5 DEF Register!vars
<1>6. QED
  BY <1>2, <1>3, <1>4, <1>5
     DEF StoreBegin, StoreStep, ManualModeWrite, ManualModeLock, FrequencyWrite,
         FrequencyLock, FrequencyTest, FrequencyOff, FrequencyPin, FrequencyRearm, SpinLock

(* The callback enters the set of samplers when it finds automatic mode,   *)
(* and leaves it when it writes the frequency or the reading fails.        *)
LEMMA ToggleRegister ==
  ASSUME NEW c \in Callers, IInv, ToggleStep(c)
  PROVE  [Register!Next]_Register!vars
<1> USE FanAssumption DEF IInv, TypeOK, Goto, Procs, Callers, SamplePC, fields, pin, locals
<1>1. CASE ToggleSnapshot(c) /\ ~manual_mode
  <2>1. c \notin Sampling /\ Sampling' = Sampling \cup {c}
    BY <1>1 DEF ToggleSnapshot, Sampling
  <2>2. Register!Sample(c)
    BY <1>1, <2>1 DEF ToggleSnapshot, Register!Sample
  <2>3. QED
    BY <2>2 DEF Register!Next
<1>2. CASE ToggleSample(c) /\ pc'[c] = "t_decide"
  <2>1. c \in Sampling /\ Sampling' = Sampling \ {c}
    BY <1>2 DEF ToggleSample, Sampling
  <2>2. Register!Apply(c)
    BY <1>2, <2>1 DEF ToggleSample, Register!Apply
  <2>3. QED
    BY <2>2 DEF Register!Next
<1>3. CASE ToggleUpdate(c)
  <2>1. c \in Sampling /\ Sampling' = Sampling \ {c}
    BY <1>3 DEF ToggleUpdate, Sampling
  <2>2. Register!Apply(c)
    BY <1>3, <2>1 DEF ToggleUpdate, ValuesInHand, Register!Apply
  <2>3. QED
    BY <2>2 DEF Register!Next
<1>4. CASE /\ UNCHANGED <<manual_mode, frequency>>
           /\ pc'[c] \in SamplePC <=> pc[c] \in SamplePC
           /\ \A d \in Callers : d # c => pc'[d] = pc[d]
  BY <1>4 DEF Sampling, Register!vars
<1>5. QED
  BY <1>1, <1>2, <1>3, <1>4, SMTT(60)
     DEF ToggleStep, ToggleLock, ToggleSnapshot, ToggleSample, ToggleUpdateLock, ToggleStop,
         ToggleFlip, ToggleLow, TogglePin, ToggleRearm, Return, SpinLock

(* The kernel timer, probe and remove leave it alone or reset it; when     *)
(* they reset it no callback is sampling.                                  *)
LEMMA BindRegister ==
  ASSUME IInv, fault = "none", TimerExpire \/ TimerExpireFreed \/ ProbeStep \/ RemoveStep
  PROVE  [Register!Next]_Register!vars
<1> USE FanAssumption DEF IInv, TypeOK, Goto, Procs, Callers, TogglePC, ProbePC, RemovePC,
        SamplePC, fields, pin, locals
<1>1. Sampling' = Sampling
  <2>1. \A c \in Callers : pc'[c] \in SamplePC <=> pc[c] \in SamplePC
    BY SMTT(60) DEF TimerExpire, TimerExpireFreed, ProbeStep, ProbeRequestGpio, ProbeOutput,
       ProbeFields, ProbeGroups, ProbeTimer, ProbeFail, RemoveStep, RemoveDelTimer, RemoveLow,
       RemoveFreeGpio, RemoveHide, RemoveRelease
  <2>2. QED
    BY <2>1 DEF Sampling
<1>2. CASE ProbeFields
  <2>1. Sampling = {}
    BY <1>2 DEF ProbeFields, ProbeIsAlone, Toggling, Sampling
  <2>2. QED
    BY <1>1, <1>2, <2>1 DEF ProbeFields, Register!Next, Register!Reset
<1>3. CASE UNCHANGED <<manual_mode, frequency>>
  BY <1>1, <1>3 DEF Register!vars
<1>4. QED
  BY <1>2, <1>3
     DEF TimerExpire, TimerExpireFreed, ProbeStep, ProbeRequestGpio, ProbeOutput, ProbeGroups,
         ProbeTimer, ProbeFail, RemoveStep, RemoveDelTimer, RemoveLow, RemoveFreeGpio,
         RemoveHide, RemoveRelease

(* The driver implements the atomic register: a frequency is accepted in   *)
(* manual mode only, and a callback writes at most once after the user has *)
(* taken over, and only if it was sampling already.                        *)
THEOREM ImplementsRegister == Spec => IsRegister
<1>1. Init => Register!Init
  BY FanAssumption DEF Init, Register!Init, Sampling, SamplePC, Callers, Procs
<1>2. IInv /\ [Next]_vars => [Register!Next]_Register!vars
  <2> SUFFICES ASSUME IInv, [Next]_vars PROVE [Register!Next]_Register!vars
    OBVIOUS
  <2>1. CASE fault = "none" /\ DriverStep
    BY <2>1, StoreRegister, ToggleRegister, BindRegister DEF DriverStep
  <2>2. CASE UNCHANGED vars
    BY <2>2 DEF vars, fields, Register!vars, Sampling
  <2>3. QED
    BY <2>1, <2>2 DEF Next, Running, Halted
<1>3. QED
  BY <1>1, <1>2, Invariance, PTL DEF Spec, IsRegister, Register!Spec
=============================================================================
