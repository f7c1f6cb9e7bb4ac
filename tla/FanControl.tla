----------------------------- MODULE FanControl -----------------------------
(***************************************************************************)
(* What the daemon does to the fan: src/07_miniproj/daemon/fan.c, gpios.c  *)
(* and the handlers of main.c and socket.c that call them, on top of the   *)
(* driver's register.  The daemon is one thread and handles one event at a *)
(* time, but a handler reads and writes the register in separate system    *)
(* calls, and between them the driver's callback, the buttons and any      *)
(* other process that writes the attributes go on.  The daemon never reads *)
(* manual_mode back: it keeps a copy of its own.                           *)
(***************************************************************************)
EXTENDS Integers

CONSTANTS
  Buttons,            \* "faster", "slower" and "mode", or some of them
  Callers, Table,     \* see FanRegister
  FAN_FREQUENCY_MIN, FAN_FREQUENCY_MAX, FAN_FREQUENCY_STEP,
  Requested           \* the values that clients put in their requests

ASSUME ControlAssumption ==
  /\ Buttons \subseteq {"faster", "slower", "mode"}
  /\ FAN_FREQUENCY_MIN \in Nat \ {0}
  /\ FAN_FREQUENCY_MAX \in Nat /\ FAN_FREQUENCY_MIN <= FAN_FREQUENCY_MAX
  /\ FAN_FREQUENCY_STEP \in Nat /\ FAN_FREQUENCY_MIN <= FAN_FREQUENCY_STEP
  /\ Table \subseteq FAN_FREQUENCY_MIN .. FAN_FREQUENCY_MAX
  /\ Requested \subseteq Int

VARIABLES
  manual, frequency, sampling,  \* the register of the driver
  written,          \* the attributes that other processes have written
  fan_manual_mode,  \* the daemon's copy of manual
  daemon,           \* "idle", or the system call its handler makes next
  freq,             \* the frequency the handler is about to write
  reply,            \* the response to the request being handled, or the last one
  level,            \* which buttons are down
  edge,             \* buttons whose level changed since it was last read
  led               \* the power LED

register == <<manual, frequency, sampling>>
panel    == <<level, edge, led>>
vars     == <<register, written, fan_manual_mode, daemon, freq, reply, panel>>

Driver == INSTANCE FanRegister WITH Frequencies <- Requested

NoReply == [status |-> "none", wanted |-> "nothing", done |-> FALSE]

-----------------------------------------------------------------------------
(* The surroundings: the driver's callback, a button, another process.     *)

Callback ==
  /\ \E c \in Callers : Driver!Sample(c) \/ Driver!Apply(c)
  /\ UNCHANGED <<written, fan_manual_mode, daemon, freq, reply, panel>>

Push(b) ==
  /\ level' = [level EXCEPT ![b] = ~level[b]]
  /\ edge' = edge \cup {b}
  /\ UNCHANGED <<register, written, fan_manual_mode, daemon, freq, reply, led>>

Intervene ==
  /\ \/ /\ \E m \in BOOLEAN : Driver!SetMode(m)
        /\ written' = written \cup {"manual_mode"}
     \/ /\ \E f \in Requested \cap Nat : Driver!SetFrequency(f)
        /\ written' = written \cup {"frequency"}
  /\ UNCHANGED <<fan_manual_mode, daemon, freq, reply, panel>>

-----------------------------------------------------------------------------
(* BUTTON1_PRESS to BUTTON3_PRESS.  The level is read now, not when the    *)
(* edge was; reading it acknowledges every edge so far.                    *)

(* Mutants: the mode button does not turn the LED off; the mode button is  *)
(* handled like the others.                                                *)
ButtonEventLit(b) ==
  /\ daemon = "idle" /\ b \in edge
  /\ led' = (level[b] \/ (b = "mode" /\ led))
  /\ edge' = edge \ {b}
  /\ daemon' = IF ~level[b] THEN "idle"
               ELSE IF b = "mode" THEN "write_mode"
               ELSE IF fan_manual_mode THEN b ELSE "idle"
  /\ fan_manual_mode' = (fan_manual_mode # (level[b] /\ b = "mode"))
  /\ reply' = NoReply
  /\ UNCHANGED <<register, written, freq, level>>

ButtonEventAlike(b) ==
  /\ daemon = "idle" /\ b \in edge
  /\ led' = level[b]
  /\ edge' = edge \ {b}
  /\ daemon' = IF level[b] /\ fan_manual_mode THEN b ELSE "idle"
  /\ reply' = NoReply
  /\ UNCHANGED <<register, written, fan_manual_mode, freq, level>>

ButtonEvent(b) ==
  /\ daemon = "idle" /\ b \in edge
  /\ led' = level[b]
  /\ edge' = edge \ {b}
  /\ daemon' = IF ~level[b] THEN "idle"
               ELSE IF b = "mode" THEN "write_mode"
               ELSE IF fan_manual_mode THEN b ELSE "idle"
  /\ fan_manual_mode' = (fan_manual_mode # (level[b] /\ b = "mode"))
  /\ reply' = NoReply
  /\ UNCHANGED <<register, written, freq, level>>

(* Mutant: the frequency is not limited.                                   *)
StepUnlimited(b) ==
  IF b = "faster" THEN frequency + FAN_FREQUENCY_STEP ELSE frequency - FAN_FREQUENCY_STEP

(* fan_increase_frequency and fan_decrease_frequency: one limit each.      *)
Step(b) ==
  LET up   == frequency + FAN_FREQUENCY_STEP
      down == frequency - FAN_FREQUENCY_STEP
  IN  IF b = "faster"
      THEN IF up > FAN_FREQUENCY_MAX THEN FAN_FREQUENCY_MAX ELSE up
      ELSE IF down < FAN_FREQUENCY_MIN THEN FAN_FREQUENCY_MIN ELSE down

ReadFrequency(b) ==
  /\ daemon = b
  /\ freq' = Step(b)
  /\ daemon' = "write_frequency"
  /\ UNCHANGED <<register, written, fan_manual_mode, reply, panel>>

-----------------------------------------------------------------------------
(* The system calls that write the attributes.  The daemon does not look   *)
(* at their results; a response to a client says 0 (status "ok").          *)

Answered(done) ==
  IF reply.wanted = "nothing" THEN reply
  ELSE [reply EXCEPT !.status = "ok", !.done = done]

WriteMode ==
  /\ daemon = "write_mode"
  /\ Driver!SetMode(fan_manual_mode)
  /\ daemon' = "idle"
  /\ reply' = Answered(TRUE)
  /\ UNCHANGED <<written, fan_manual_mode, freq, panel>>

(* The store of the driver refuses what it cannot parse as a u32, and      *)
(* everything in automatic mode.                                           *)
WriteFrequency ==
  /\ daemon = "write_frequency"
  /\ \/ /\ freq >= 0 /\ Driver!SetFrequency(freq)
        /\ reply' = Answered(TRUE)
     \/ /\ freq < 0 \/ ~manual
        /\ UNCHANGED register
        /\ reply' = Answered(FALSE)
  /\ daemon' = "idle"
  /\ freq' = 0
  /\ UNCHANGED <<written, fan_manual_mode, panel>>

-----------------------------------------------------------------------------
(* socket_handle_client.  done says whether the request had its effect.    *)

Request(wanted) ==
  /\ daemon = "idle"
  /\ UNCHANGED <<register, written, panel>>
  /\ reply' = [status |-> "none", wanted |-> wanted, done |-> FALSE]

Reply(wanted, status, done) ==
  /\ daemon = "idle"
  /\ UNCHANGED <<register, written, panel, fan_manual_mode, daemon, freq>>
  /\ reply' = [status |-> status, wanted |-> wanted, done |-> done]

(* Mutant: the copy is changed and not written.                            *)
RequestModeForgotten(m) ==
  /\ daemon = "idle"
  /\ fan_manual_mode' = m
  /\ reply' = [status |-> "ok", wanted |-> "mode", done |-> manual = m]
  /\ UNCHANGED <<register, written, panel, daemon, freq>>

(* CMD_SET_MODE writes only if the copy differs.                           *)
RequestMode(m) ==
  \/ /\ fan_manual_mode = m
     /\ Reply("mode", "ok", manual = m)
  \/ /\ fan_manual_mode # m
     /\ Request("mode")
     /\ fan_manual_mode' = m
     /\ daemon' = "write_mode"
     /\ freq' = freq

(* Mutant: the mode is not tested.                                         *)
RequestFrequencyAny(f) ==
  \/ /\ f \notin FAN_FREQUENCY_MIN .. FAN_FREQUENCY_MAX
     /\ Reply("frequency", "error", FALSE)
  \/ /\ f \in FAN_FREQUENCY_MIN .. FAN_FREQUENCY_MAX
     /\ Request("frequency")
     /\ freq' = f
     /\ daemon' = "write_frequency"
     /\ UNCHANGED fan_manual_mode

(* CMD_SET_FREQUENCY: -EPERM by the copy of the mode, -ERANGE, or a write. *)
RequestFrequency(f) ==
  \/ /\ ~fan_manual_mode \/ f \notin FAN_FREQUENCY_MIN .. FAN_FREQUENCY_MAX
     /\ Reply("frequency", "error", FALSE)
  \/ /\ fan_manual_mode /\ f \in FAN_FREQUENCY_MIN .. FAN_FREQUENCY_MAX
     /\ Request("frequency")
     /\ freq' = f
     /\ daemon' = "write_frequency"
     /\ UNCHANGED fan_manual_mode

(* CMD_GET_MODE, CMD_GET_FREQUENCY and CMD_GET_TEMP.  A failed reading is  *)
(* the temperature -1, and -1 / 1000 is 0 degrees with status 0.           *)
Query ==
  \/ Reply("get-mode", "ok", fan_manual_mode = manual)
  \/ Reply("get-freq", "ok", TRUE)
  \/ Reply("get-temp", "ok", TRUE)
  \/ Reply("get-temp", "ok", FALSE)

(* -EINVAL for a request that does not come in one piece, or does not come *)
(* at all; -ENOSYS for a command that does not exist.                      *)
RequestUnknown == Reply("unknown", "error", FALSE)

-----------------------------------------------------------------------------
(* fan_init reads manual_mode once; gpios_init reads every button, which   *)
(* acknowledges the edges so far.                                          *)
Init ==
  /\ manual \in BOOLEAN /\ frequency \in Table \cup {0} /\ sampling = {}
  /\ fan_manual_mode = manual /\ written = {}
  /\ daemon = "idle" /\ freq = 0 /\ reply = NoReply
  /\ level = [b \in Buttons |-> FALSE] /\ edge = {} /\ led = FALSE

DaemonStep ==
  \/ \E b \in Buttons : ButtonEvent(b) \/ ReadFrequency(b)
  \/ \E m \in BOOLEAN : RequestMode(m)
  \/ \E f \in Requested : RequestFrequency(f)
  \/ Query \/ RequestUnknown
  \/ WriteMode \/ WriteFrequency

Next ==
  \/ DaemonStep
  \/ Callback \/ Intervene
  \/ \E b \in Buttons : Push(b)

Spec == Init /\ [][Next]_vars
-----------------------------------------------------------------------------
TypeOK ==
  /\ manual \in BOOLEAN /\ frequency \in Nat /\ sampling \subseteq Callers
  /\ fan_manual_mode \in BOOLEAN /\ written \subseteq {"manual_mode", "frequency"}
  /\ daemon \in {"idle", "write_mode", "write_frequency", "faster", "slower"}
  /\ freq \in Int
  /\ reply \in [status : {"none", "ok", "error"}, done : BOOLEAN,
                wanted : {"nothing", "mode", "frequency", "get-mode", "get-freq", "get-temp", "unknown"}]
  /\ level \in [Buttons -> BOOLEAN] /\ edge \subseteq Buttons /\ led \in BOOLEAN

(* As long as nobody else has written manual_mode, the daemon's copy is    *)
(* right whenever a handler looks at it: buttons and requests never cross. *)
CopyIsRight ==
  "manual_mode" \notin written /\ daemon # "write_mode" => fan_manual_mode = manual

(* A fan that runs stays in the range as long as nobody else has written   *)
(* frequency: neither the buttons, nor a client, nor a thermal value that  *)
(* arrives between the daemon's read and its write, nor another writer of  *)
(* the mode brings it out.  The frequency is 0 only if the driver has      *)
(* never got a temperature.                                                *)
FrequencyInRange ==
  "frequency" \notin written =>
    /\ frequency \in {0} \cup (FAN_FREQUENCY_MIN .. FAN_FREQUENCY_MAX)
    /\ daemon = "write_frequency" => freq \in FAN_FREQUENCY_MIN .. FAN_FREQUENCY_MAX

(* When all buttons are up and all their edges have been handled the LED   *)
(* is off: no order of edges and handlers leaves it on.                    *)
LedRests == edge = {} /\ (\A b \in Buttons : ~level[b]) => ~led

(* "0 = ok, negative = error": a client that is told 0 has had its way, or *)
(* has been told the truth.  Two things are excepted: a temperature may    *)
(* not have been read, and another process may have written manual_mode,   *)
(* of which the daemon does not learn.                                     *)
OkMeansDone ==
  reply.status = "ok" /\ reply.wanted # "get-temp" /\ "manual_mode" \notin written => reply.done
=============================================================================
