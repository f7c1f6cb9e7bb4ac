-------------------------- MODULE FanControlProofs ---------------------------
(***************************************************************************)
(* Proofs about FanControl, for every range, step, table and request.      *)
(***************************************************************************)
EXTENDS FanControl, TLAPS

(* The two properties do not depend on each other.                         *)
ControlInv ==
  /\ manual \in BOOLEAN /\ fan_manual_mode \in BOOLEAN
  /\ frequency \in Int /\ freq \in Int
  /\ daemon \in {"idle", "write_mode", "write_frequency", "faster", "slower"}
  /\ CopyIsRight /\ FrequencyInRange

(* One step up or down stays within the limits, from any frequency that is *)
(* within them or 0.                                                       *)
LEMMA StepLemma ==
  ASSUME FrequencyInRange, "frequency" \notin written, NEW b \in {"faster", "slower"}
  PROVE  Step(b) \in FAN_FREQUENCY_MIN .. FAN_FREQUENCY_MAX
<1> frequency \in Int
  BY ControlAssumption DEF FrequencyInRange
<1>1. CASE b = "faster"
  BY <1>1, ControlAssumption DEF Step, FrequencyInRange
<1>2. CASE b = "slower"
  BY <1>2, ControlAssumption DEF Step, FrequencyInRange
<1>3. QED
  BY <1>1, <1>2

(* The callback, the buttons and the handlers preserve the invariant.      *)
LEMMA ControlLemma ==
  ASSUME ControlInv, Next
  PROVE  ControlInv'
<1> USE ControlAssumption DEF ControlInv, CopyIsRight, FrequencyInRange
<1>1. CASE Callback
  <2>1. manual' = manual /\ frequency' \in Table \cup {frequency}
    BY <1>1 DEF Callback, Driver!Sample, Driver!Apply
  <2>2. UNCHANGED <<written, fan_manual_mode, daemon, freq>>
    BY <1>1 DEF Callback
  <2>3. QED
    BY <2>1, <2>2
<1>2. CASE Intervene
  <2>1. UNCHANGED <<fan_manual_mode, daemon, freq>>
    BY <1>2 DEF Intervene
  <2>2. ASSUME NEW m \in BOOLEAN, Driver!SetMode(m), written' = written \cup {"manual_mode"}
        PROVE  ControlInv'
    BY <2>1, <2>2 DEF Driver!SetMode
  <2>3. ASSUME NEW f \in Requested \cap Nat, Driver!SetFrequency(f),
               written' = written \cup {"frequency"}
        PROVE  ControlInv'
    BY <2>1, <2>3 DEF Driver!SetFrequency
  <2>4. QED
    BY <1>2, <2>2, <2>3 DEF Intervene
<1>3. ASSUME NEW b \in Buttons, Push(b) PROVE ControlInv'
  BY <1>3 DEF Push, register
<1>4. ASSUME NEW b \in Buttons, ButtonEvent(b) PROVE ControlInv'
  <2>1. UNCHANGED <<manual, frequency, freq, written>>
    BY <1>4 DEF ButtonEvent, register
  <2>2. fan_manual_mode' \in BOOLEAN
    BY <1>4, Zenon DEF ButtonEvent
  <2>3. daemon = "idle" /\ daemon' \in {"idle", "write_mode", "faster", "slower"}
    BY <1>4 DEF ButtonEvent
  <2>4. daemon' # "write_mode" => fan_manual_mode' = fan_manual_mode
    <3>1. daemon' # "write_mode" => ~(level[b] /\ b = "mode")
      BY <1>4 DEF ButtonEvent
    <3>2. fan_manual_mode' = (fan_manual_mode # (level[b] /\ b = "mode"))
      BY <1>4 DEF ButtonEvent
    <3>3. ~(level[b] /\ b = "mode") => (fan_manual_mode # (level[b] /\ b = "mode")) = fan_manual_mode
      OBVIOUS
    <3>4. QED
      BY <3>1, <3>2, <3>3
  <2>5. QED
    BY <2>1, <2>2, <2>3, <2>4
<1>5. ASSUME NEW b \in Buttons, ReadFrequency(b) PROVE ControlInv'
  <2>1. "frequency" \notin written => freq' \in FAN_FREQUENCY_MIN .. FAN_FREQUENCY_MAX
    BY <1>5, StepLemma DEF ReadFrequency
  <2>2. freq' \in Int
    BY <1>5 DEF ReadFrequency, Step
  <2>3. QED
    BY <1>5, <2>1, <2>2 DEF ReadFrequency, register
<1>6. ASSUME NEW m \in BOOLEAN, RequestMode(m) PROVE ControlInv'
  BY <1>6 DEF RequestMode, Reply, Request, register
<1>7. ASSUME NEW f \in Requested, RequestFrequency(f) PROVE ControlInv'
  BY <1>7 DEF RequestFrequency, Reply, Request, register
<1>8. CASE Query \/ RequestUnknown
  BY <1>8 DEF Query, RequestUnknown, Reply, register
<1>9. CASE WriteMode
  BY <1>9 DEF WriteMode, Driver!SetMode
<1>10. CASE WriteFrequency
  <2>1. manual' = manual /\ frequency' \in {freq, frequency}
    BY <1>10 DEF WriteFrequency, Driver!SetFrequency, register
  <2>2. daemon = "write_frequency" /\ daemon' = "idle" /\ freq' = 0
    BY <1>10 DEF WriteFrequency
  <2>3. UNCHANGED <<written, fan_manual_mode>>
    BY <1>10 DEF WriteFrequency
  <2>4. QED
    BY <2>1, <2>2, <2>3
<1>11. QED
  BY <1>1, <1>2, <1>3, <1>4, <1>5, <1>6, <1>7, <1>8, <1>9, <1>10 DEF Next, DaemonStep

(* Together.                                                               *)
LEMMA ControlInvariance == Spec => []ControlInv
<1>1. Init => ControlInv
  BY ControlAssumption DEF Init, ControlInv, CopyIsRight, FrequencyInRange
<1>2. ControlInv /\ [Next]_vars => ControlInv'
  <2>1. ControlInv /\ Next => ControlInv'
    BY ControlLemma
  <2>2. ControlInv /\ UNCHANGED vars => ControlInv'
    BY DEF vars, register, ControlInv, CopyIsRight, FrequencyInRange
  <2>3. QED
    BY <2>1, <2>2
<1>3. QED
  BY <1>1, <1>2, PTL DEF Spec

(* The daemon's copy of the mode is right whenever a handler looks at it.  *)
THEOREM CopyStaysRight == Spec => []CopyIsRight
<1>1. ControlInv => CopyIsRight
  BY DEF ControlInv
<1>2. QED
  BY <1>1, ControlInvariance, PTL

(* The frequency never leaves the range, whatever table within the range   *)
(* the driver has and whatever the clients ask for.                        *)
THEOREM FrequencyStaysInRange == Spec => []FrequencyInRange
<1>1. ControlInv => FrequencyInRange
  BY DEF ControlInv
<1>2. QED
  BY <1>1, ControlInvariance, PTL

-----------------------------------------------------------------------------
Wanted == {"nothing", "mode", "frequency", "get-mode", "get-freq", "get-temp", "unknown"}

(* A client is told 0 after its frequency was written: the handler looked  *)
(* at a copy of the mode that was right, and the register is still in      *)
(* manual mode when the write comes.                                       *)
ReplyInv ==
  /\ reply \in [status : {"none", "ok", "error"}, done : BOOLEAN,
                wanted : Wanted]
  /\ daemon = "write_frequency" /\ reply.wanted # "nothing" =>
       fan_manual_mode /\ freq \in FAN_FREQUENCY_MIN .. FAN_FREQUENCY_MAX
  /\ daemon \in {"faster", "slower"} => reply.wanted = "nothing"
  /\ OkMeansDone

(* A reply that is given at once.                                          *)
LEMMA ReplyAtOnce ==
  ASSUME ReplyInv, NEW wanted \in Wanted, NEW status \in {"ok", "error"}, NEW done \in BOOLEAN,
         Reply(wanted, status, done),
         status = "ok" /\ wanted # "get-temp" /\ "manual_mode" \notin written => done
  PROVE  ReplyInv'
<1>1. /\ reply'.status = status /\ reply'.wanted = wanted /\ reply'.done = done
      /\ reply' \in [status : {"none", "ok", "error"}, done : BOOLEAN, wanted : Wanted]
  BY DEF Reply
<1>2. UNCHANGED written /\ daemon' = "idle"
  BY DEF Reply
<1>3. OkMeansDone'
  BY <1>1, <1>2, Zenon DEF OkMeansDone
<1>4. QED
  BY <1>1, <1>2, <1>3 DEF ReplyInv, Wanted

(* A reply that is completed when the attribute has been written.          *)
LEMMA ReplyLater ==
  ASSUME ReplyInv, NEW done \in BOOLEAN, reply' = Answered(done), daemon' = "idle",
         UNCHANGED written,
         reply.wanted # "nothing" /\ "manual_mode" \notin written => done
  PROVE  ReplyInv'
<1>1. CASE reply.wanted = "nothing"
  BY <1>1 DEF Answered, ReplyInv, OkMeansDone
<1>2. CASE reply.wanted # "nothing"
  <2>1. /\ reply'.wanted = reply.wanted /\ reply'.done = done
        /\ reply' \in [status : {"none", "ok", "error"}, done : BOOLEAN, wanted : Wanted]
    BY <1>2 DEF Answered, ReplyInv, Wanted
  <2>2. OkMeansDone'
    BY <1>2, <2>1, Zenon DEF OkMeansDone
  <2>3. QED
    BY <2>1, <2>2 DEF ReplyInv, Wanted
<1>3. QED
  BY <1>1, <1>2

(* Every step preserves it.                                                *)
LEMMA ReplyLemma ==
  ASSUME ControlInv, ReplyInv, [Next]_vars
  PROVE  ReplyInv'
<1>1. CASE Callback
  BY <1>1 DEF Callback, ReplyInv, OkMeansDone
<1>2. CASE Intervene
  BY <1>2 DEF Intervene, ReplyInv, OkMeansDone
<1>3. ASSUME NEW b \in Buttons, Push(b) PROVE ReplyInv'
  BY <1>3 DEF Push, ReplyInv, OkMeansDone
<1>4. ASSUME NEW b \in Buttons, ButtonEvent(b) PROVE ReplyInv'
  <2>1. reply' = NoReply
    BY <1>4 DEF ButtonEvent
  <2>2. reply'.status = "none" /\ reply'.wanted = "nothing"
    BY <2>1 DEF NoReply
  <2>3. QED
    BY <2>1, <2>2 DEF NoReply, ReplyInv, OkMeansDone, Wanted
<1>5. ASSUME NEW b \in Buttons, ReadFrequency(b) PROVE ReplyInv'
  BY <1>5, ControlAssumption DEF ReadFrequency, ReplyInv, OkMeansDone, ControlInv
<1>6. ASSUME NEW m \in BOOLEAN, RequestMode(m) PROVE ReplyInv'
  <2>1. CASE fan_manual_mode = m /\ Reply("mode", "ok", manual = m)
    <3> DEFINE done == manual = m
    <3>1. "manual_mode" \notin written => done
      BY <2>1 DEF Reply, ControlInv, CopyIsRight
    <3>2. done \in BOOLEAN /\ Reply("mode", "ok", done)
      BY <2>1
    <3> HIDE DEF done
    <3>3. QED
      BY <3>1, <3>2, ReplyAtOnce DEF Wanted
  <2>2. CASE Request("mode") /\ daemon' = "write_mode"
    BY <2>2 DEF Request, ReplyInv, OkMeansDone, Wanted
  <2>3. QED
    BY <1>6, <2>1, <2>2 DEF RequestMode
<1>7. ASSUME NEW f \in Requested, RequestFrequency(f) PROVE ReplyInv'
  <2>1. CASE Reply("frequency", "error", FALSE)
    BY <2>1, ReplyAtOnce DEF Wanted
  <2>2. CASE /\ fan_manual_mode /\ f \in FAN_FREQUENCY_MIN .. FAN_FREQUENCY_MAX
             /\ Request("frequency") /\ freq' = f /\ UNCHANGED fan_manual_mode
             /\ daemon' = "write_frequency"
    BY <2>2 DEF Request, ReplyInv, OkMeansDone, Wanted
  <2>3. QED
    BY <1>7, <2>1, <2>2 DEF RequestFrequency
<1>8. CASE Query \/ RequestUnknown
  <2>1. CASE Reply("get-mode", "ok", fan_manual_mode = manual)
    <3> DEFINE done == fan_manual_mode = manual
    <3>1. "manual_mode" \notin written => done
      BY <2>1 DEF Reply, ControlInv, CopyIsRight
    <3>2. done \in BOOLEAN /\ Reply("get-mode", "ok", done)
      BY <2>1
    <3> HIDE DEF done
    <3>3. QED
      BY <3>1, <3>2, ReplyAtOnce DEF Wanted
  <2>2. CASE Reply("get-freq", "ok", TRUE) \/ Reply("get-temp", "ok", TRUE)
    BY <2>2, ReplyAtOnce DEF Wanted
  <2>3. CASE Reply("get-temp", "ok", FALSE)
    BY <2>3, ReplyAtOnce DEF Wanted
  <2>4. CASE RequestUnknown
    BY <2>4, ReplyAtOnce DEF RequestUnknown, Wanted
  <2>5. QED
    BY <1>8, <2>1, <2>2, <2>3, <2>4 DEF Query
<1>9. CASE WriteMode
  BY <1>9, ReplyLater DEF WriteMode
<1>10. CASE WriteFrequency
  <2>1. UNCHANGED written /\ daemon' = "idle" /\ daemon = "write_frequency"
    BY <1>10 DEF WriteFrequency
  <2>2. reply.wanted # "nothing" /\ "manual_mode" \notin written => manual /\ freq >= 0
    BY <2>1, ControlAssumption DEF ReplyInv, ControlInv, CopyIsRight
  <2>3. reply' = Answered(TRUE) \/ (reply' = Answered(FALSE) /\ (freq < 0 \/ ~manual))
    BY <1>10 DEF WriteFrequency
  <2>4. freq \in Int
    BY DEF ControlInv
  <2>5. CASE reply' = Answered(TRUE)
    BY <2>1, <2>5, ReplyLater
  <2>6. CASE reply' = Answered(FALSE) /\ (freq < 0 \/ ~manual)
    <3>1. ~(reply.wanted # "nothing" /\ "manual_mode" \notin written)
      BY <2>2, <2>4, <2>6
    <3>2. QED
      BY <2>1, <2>6, <3>1, ReplyLater
  <2>7. QED
    BY <2>3, <2>5, <2>6
<1>11. CASE UNCHANGED vars
  BY <1>11 DEF vars, ReplyInv, OkMeansDone
<1>12. QED
  BY <1>1, <1>2, <1>3, <1>4, <1>5, <1>6, <1>7, <1>8, <1>9, <1>10, <1>11 DEF Next, DaemonStep

(* A client is told 0 only if it has had its way, or was told the truth.   *)
THEOREM OkIsTrue == Spec => []OkMeansDone
<1>1. Init => ReplyInv
  BY DEF Init, ReplyInv, OkMeansDone, NoReply, Wanted
<1>2. ControlInv /\ ReplyInv /\ [Next]_vars => ReplyInv'
  BY ReplyLemma
<1>3. ReplyInv => OkMeansDone
  BY DEF ReplyInv
<1>4. QED
  BY <1>1, <1>2, <1>3, ControlInvariance, PTL DEF Spec

-----------------------------------------------------------------------------
(* The LED follows the last level that was read, and an edge that is not   *)
(* handled keeps the panel from resting.                                   *)
THEOREM LedComesToRest == Spec => []LedRests
<1>1. Init => LedRests
  BY DEF Init, LedRests
<1>2. LedRests /\ [Next]_vars => LedRests'
  <2> SUFFICES ASSUME LedRests, [Next]_vars PROVE LedRests'
    OBVIOUS
  <2>1. CASE UNCHANGED panel
    BY <2>1 DEF panel, LedRests
  <2>2. ASSUME NEW b \in Buttons, Push(b) PROVE LedRests'
    BY <2>2 DEF Push, LedRests
  <2>3. ASSUME NEW b \in Buttons, ButtonEvent(b) PROVE LedRests'
    <3>1. led' = level[b] /\ level' = level
      BY <2>3 DEF ButtonEvent
    <3>2. QED
      BY <3>1 DEF LedRests
  <2>4. UNCHANGED panel \/ \E b \in Buttons : Push(b) \/ ButtonEvent(b)
    BY DEF Next, DaemonStep, Callback, Intervene, ReadFrequency, RequestMode, RequestFrequency,
       Query, RequestUnknown, Reply, Request, WriteMode, WriteFrequency, vars
  <2>5. QED
    BY <2>1, <2>2, <2>3, <2>4
<1>3. QED
  BY <1>1, <1>2, PTL DEF Spec

-----------------------------------------------------------------------------
(* What the typing needs beyond the invariants above.                      *)
PlaceInv ==
  /\ frequency \in Nat /\ sampling \subseteq Callers
  /\ written \subseteq {"manual_mode", "frequency"}
  /\ level \in [Buttons -> BOOLEAN] /\ edge \subseteq Buttons /\ led \in BOOLEAN

LEMMA PlaceLemma ==
  ASSUME ControlInv, PlaceInv, [Next]_vars
  PROVE  PlaceInv'
<1>1. CASE Callback
  <2>1. UNCHANGED <<written, level, edge, led>>
    BY <1>1 DEF Callback, panel
  <2>2. frequency' \in Table \cup {frequency} /\ sampling' \subseteq Callers
    BY <1>1 DEF Callback, Driver!Sample, Driver!Apply, PlaceInv
  <2>3. QED
    BY <2>1, <2>2, ControlAssumption DEF PlaceInv
<1>2. CASE Intervene
  <2>1. UNCHANGED <<sampling, level, edge, led>>
    BY <1>2 DEF Intervene, panel, Driver!SetMode, Driver!SetFrequency
  <2>2. frequency' \in Nat /\ written' \subseteq {"manual_mode", "frequency"}
    BY <1>2 DEF Intervene, Driver!SetMode, Driver!SetFrequency, PlaceInv
  <2>3. QED
    BY <2>1, <2>2 DEF PlaceInv
<1>3. ASSUME NEW b \in Buttons, Push(b) PROVE PlaceInv'
  BY <1>3 DEF Push, register, PlaceInv
<1>4. ASSUME NEW b \in Buttons, ButtonEvent(b) PROVE PlaceInv'
  BY <1>4 DEF ButtonEvent, register, PlaceInv
<1>5. CASE WriteMode
  BY <1>5 DEF WriteMode, Driver!SetMode, panel, PlaceInv
<1>6. CASE WriteFrequency
  <2>1. UNCHANGED <<sampling, written, level, edge, led>>
    BY <1>6 DEF WriteFrequency, Driver!SetFrequency, panel, register
  <2>2. frequency' = frequency \/ (freq >= 0 /\ frequency' = freq)
    BY <1>6 DEF WriteFrequency, Driver!SetFrequency, register
  <2>3. freq \in Int
    BY DEF ControlInv
  <2>4. QED
    BY <2>1, <2>2, <2>3 DEF PlaceInv
<1>7. CASE UNCHANGED <<register, written, panel>>
  BY <1>7 DEF register, panel, PlaceInv
<1>8. \/ UNCHANGED <<register, written, panel>>
      \/ Callback \/ Intervene \/ WriteMode \/ WriteFrequency
      \/ \E b \in Buttons : Push(b) \/ ButtonEvent(b)
  BY DEF Next, DaemonStep, ReadFrequency, RequestMode, RequestFrequency, Query,
     RequestUnknown, Reply, Request, vars
<1>9. QED
  BY <1>1, <1>2, <1>3, <1>4, <1>5, <1>6, <1>7, <1>8

(* Type correctness.                                                       *)
THEOREM TypeCorrect == Spec => []TypeOK
<1>1. Init => PlaceInv
  <2>1. Table \cup {0} \subseteq Nat
    BY ControlAssumption
  <2>2. QED
    BY <2>1 DEF Init, PlaceInv
<1>2. ControlInv /\ PlaceInv /\ [Next]_vars => PlaceInv'
  BY PlaceLemma
<1>3. Init => ReplyInv
  BY DEF Init, ReplyInv, OkMeansDone, NoReply, Wanted
<1>4. ControlInv /\ ReplyInv /\ [Next]_vars => ReplyInv'
  BY ReplyLemma
<1>5. ControlInv /\ PlaceInv /\ ReplyInv => TypeOK
  BY DEF ControlInv, PlaceInv, ReplyInv, TypeOK, Wanted
<1>6. QED
  BY <1>1, <1>2, <1>3, <1>4, <1>5, ControlInvariance, PTL DEF Spec

-----------------------------------------------------------------------------
(* A handler on its way to a write of the frequency has looked at a copy   *)
(* that says manual, and nothing has changed the copy since; what it will  *)
(* write is not negative.                                                  *)
WriteInv ==
  /\ daemon \in {"faster", "slower", "write_frequency"} => fan_manual_mode
  /\ daemon = "write_frequency" => freq >= 0

LEMMA WriteStep ==
  ASSUME ControlInv, PlaceInv, WriteInv, [Next]_vars
  PROVE  WriteInv'
<1> USE ControlAssumption
<1>1. CASE UNCHANGED <<daemon, fan_manual_mode, freq>>
  BY <1>1 DEF WriteInv
<1>2. ASSUME NEW b \in Buttons, ButtonEvent(b) PROVE WriteInv'
  <2>1. daemon' = "idle" \/ daemon' = "write_mode"
          \/ (daemon' = b /\ b # "mode" /\ fan_manual_mode)
    BY <1>2 DEF ButtonEvent
  <2>2. CASE daemon' = b /\ b # "mode" /\ fan_manual_mode
    <3>1. b \in {"faster", "slower"}
      BY <2>2
    <3>2. fan_manual_mode' = (fan_manual_mode # (level[b] /\ b = "mode"))
      BY <1>2 DEF ButtonEvent
    <3>3. fan_manual_mode' = TRUE
      BY <2>2, <3>2
    <3>4. QED
      BY <2>2, <3>1, <3>3 DEF WriteInv
  <2>3. QED
    BY <2>1, <2>2 DEF WriteInv
<1>3. ASSUME NEW b \in Buttons, ReadFrequency(b) PROVE WriteInv'
  <2>1. b \in {"faster", "slower"}
    BY <1>3 DEF ReadFrequency, ControlInv
  <2>2. Step(b) >= 0
    BY <2>1 DEF Step, PlaceInv
  <2>3. QED
    BY <1>3, <2>1, <2>2 DEF ReadFrequency, WriteInv
<1>4. ASSUME NEW f \in Requested, RequestFrequency(f) PROVE WriteInv'
  BY <1>4 DEF RequestFrequency, Request, Reply, WriteInv
<1>5. CASE daemon' \in {"idle", "write_mode"}
  BY <1>5 DEF WriteInv
<1>6. ASSUME NEW m \in BOOLEAN, RequestMode(m)
      PROVE  UNCHANGED <<daemon, fan_manual_mode, freq>> \/ daemon' = "write_mode"
  BY <1>6 DEF RequestMode, Reply
<1>7. \/ Query \/ RequestUnknown \/ Callback \/ Intervene
      \/ (\E b \in Buttons : Push(b)) \/ UNCHANGED vars
      => UNCHANGED <<daemon, fan_manual_mode, freq>>
  BY DEF Query, RequestUnknown, Reply, Callback, Intervene, Push, vars
<1>8. WriteMode \/ WriteFrequency => daemon' = "idle"
  BY DEF WriteMode, WriteFrequency
<1>9. QED
  BY <1>1, <1>2, <1>3, <1>4, <1>5, <1>6, <1>7, <1>8 DEF Next, DaemonStep

LEMMA WriteInvariance == Spec => [](ControlInv /\ PlaceInv /\ WriteInv)
<1>1. Init => PlaceInv /\ WriteInv
  <2>1. Table \cup {0} \subseteq Nat
    BY ControlAssumption
  <2>2. QED
    BY <2>1 DEF Init, PlaceInv, WriteInv
<1>2. ControlInv /\ PlaceInv /\ [Next]_vars => PlaceInv'
  BY PlaceLemma
<1>3. ControlInv /\ PlaceInv /\ WriteInv /\ [Next]_vars => WriteInv'
  BY WriteStep
<1>4. QED
  BY <1>1, <1>2, <1>3, ControlInvariance, PTL DEF Spec

(* The daemon does not look at the result of a write of the frequency.  It *)
(* need not: as long as nobody else has written manual_mode, the driver    *)
(* takes every one of them, although the handler tests a copy of the mode, *)
(* and calls of its own and of others come between the test and the write. *)
THEOREM NoWriteIsRefused ==
  Spec => [][WriteFrequency /\ "manual_mode" \notin written => Driver!SetFrequency(freq)]_vars
<1>1. ASSUME ControlInv, WriteInv, WriteFrequency, "manual_mode" \notin written
      PROVE  Driver!SetFrequency(freq)
  <2>1. daemon = "write_frequency" /\ fan_manual_mode /\ freq >= 0 /\ freq \in Int
    BY <1>1 DEF WriteFrequency, WriteInv, ControlInv
  <2>2. manual
    BY <1>1, <2>1 DEF ControlInv, CopyIsRight
  <2>3. ~(freq < 0)
    BY <2>1
  <2>4. QED
    BY <1>1, <2>2, <2>3, Zenon DEF WriteFrequency
<1>2. ControlInv /\ PlaceInv /\ WriteInv /\ [Next]_vars =>
        [WriteFrequency /\ "manual_mode" \notin written => Driver!SetFrequency(freq)]_vars
  BY <1>1
<1>3. QED
  BY <1>2, WriteInvariance, PTL DEF Spec

-----------------------------------------------------------------------------
(* The register as the driver sees it when the daemon is its only writer   *)
(* of frequencies: users that write values of the range.                   *)
InRange == INSTANCE FanRegister WITH Frequencies <- FAN_FREQUENCY_MIN .. FAN_FREQUENCY_MAX

(* As long as no other process has written the attribute frequency, what   *)
(* happens to the register is a behaviour of FanRegister whose users write *)
(* values between the limits, whatever the clients put in their requests   *)
(* and whenever the callback comes in between.  FanDriver, for its part,   *)
(* keeps this register for any users (FanDriverProofs!ImplementsRegister). *)
THEOREM DaemonKeepsRange ==
  Spec => [][("frequency" \notin written)' => [InRange!Next]_register]_vars
<1>1. ASSUME ControlInv, [Next]_vars, "frequency" \notin written'
      PROVE  InRange!Next \/ UNCHANGED register
  <2> USE <1>1
  <2>1. CASE Callback
    <3>1. PICK c \in Callers : Driver!Sample(c) \/ Driver!Apply(c)
      BY <2>1 DEF Callback
    <3>2. InRange!Sample(c) \/ InRange!Apply(c)
      BY <3>1 DEF Driver!Sample, Driver!Apply, InRange!Sample, InRange!Apply
    <3>3. QED
      BY <3>2 DEF InRange!Next
  <2>2. CASE Intervene
    <3>1. PICK m \in BOOLEAN : Driver!SetMode(m)
      BY <2>2 DEF Intervene
    <3>2. InRange!SetMode(m)
      BY <3>1 DEF Driver!SetMode, InRange!SetMode
    <3>3. QED
      BY <3>2 DEF InRange!Next
  <2>3. CASE WriteMode
    <3>1. PICK m \in BOOLEAN : m = fan_manual_mode
      BY DEF ControlInv
    <3>2. InRange!SetMode(m)
      BY <2>3, <3>1 DEF WriteMode, Driver!SetMode, InRange!SetMode
    <3>3. QED
      BY <3>2 DEF InRange!Next
  <2>4. CASE WriteFrequency
    <3>1. "frequency" \notin written
      BY <2>4 DEF WriteFrequency
    <3>2. PICK f \in FAN_FREQUENCY_MIN .. FAN_FREQUENCY_MAX : f = freq
      BY <2>4, <3>1 DEF WriteFrequency, ControlInv, FrequencyInRange
    <3>3. InRange!SetFrequency(f) \/ UNCHANGED register
      BY <2>4, <3>2 DEF WriteFrequency, Driver!SetFrequency, InRange!SetFrequency
    <3>4. QED
      BY <3>3 DEF InRange!Next
  <2>5. CASE UNCHANGED register
    BY <2>5
  <2>6. Callback \/ Intervene \/ WriteMode \/ WriteFrequency \/ UNCHANGED register
    BY DEF Next, DaemonStep, Push, ButtonEvent, ReadFrequency, RequestMode, RequestFrequency,
       Query, RequestUnknown, Reply, Request, vars
  <2>7. QED
    BY <2>1, <2>2, <2>3, <2>4, <2>5, <2>6
<1>2. ControlInv /\ [Next]_vars =>
        [("frequency" \notin written)' => [InRange!Next]_register]_vars
  BY <1>1
<1>3. QED
  BY <1>2, ControlInvariance, PTL DEF Spec
=============================================================================
