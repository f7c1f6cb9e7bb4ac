------------------------------ MODULE Workspace ------------------------------
(***************************************************************************)
(* The programs of the workspace that have nothing to do with each other:  *)
(* one of them runs, the others have not been started.  Each one is a      *)
(* module of its own with its own properties, which are repeated here for  *)
(* the program that runs.                                                  *)
(***************************************************************************)
EXTENDS PairConstants, LedConstants, Sequences

CONSTANTS
  Files, Buffers, Bytes, Messages, Nothing, Garbage, Pending,  \* ConfigDevice
  HighestFd, Signals, MaxSignals, MaxSleep,                    \* DaemonProcess
  Frequencies, Temperatures, MaxChanges, MaxLosses, Lossy      \* Display

VARIABLES
  running,
  pair_pc, pair_caught, open, queue, sent, logged, failed,
  presses, ready, events, button_thread, led_thread, lock, blink_frequ_ms, timer, interval,
  unset, led_expired, led_state, led,
  config_module, config_pc, p, msg, pos, answer, data, heap, text, fault, raced, last,
  solution, kick_module, kick_pc, stop, queued, is_kicked,
  program, daemon_pc, after, leader, fds, inherited, logfd, fd, daemon_caught, t, arrived, calm,
  refused,
  manual, frequency, temp_mc, changes, losses, screen_expired, daemon, shown, drawn, bus, settings, lit,
  row, col, ram, flaws

pair   == <<pair_pc, pair_caught, open, queue, sent, logged, failed>>
leds   == <<presses, ready, events, button_thread, led_thread, lock, blink_frequ_ms, timer,
            interval, unset, led_expired, led_state, led>>
config == <<config_module, config_pc, p, msg, pos, answer, data, heap, text, fault, raced, last>>
kick   == <<solution, kick_module, kick_pc, stop, queued, is_kicked>>
detach == <<program, daemon_pc, after, leader, fds, inherited, logfd, fd, daemon_caught, t, arrived,
            calm, refused>>
screen == <<manual, frequency, temp_mc, changes, losses, screen_expired, daemon, shown, drawn, bus,
            settings, lit, row, col, ram, flaws>>
vars   == <<running, pair, leds, config, kick, detach, screen>>

Pair   == INSTANCE SocketPair WITH pc <- pair_pc, caught <- pair_caught
Leds   == INSTANCE BetterLed WITH expired <- led_expired
Config == INSTANCE ConfigDevice WITH module <- config_module, pc <- config_pc
Kick   == INSTANCE KthreadKick WITH module <- kick_module, pc <- kick_pc
Detach == INSTANCE DaemonProcess WITH pc <- daemon_pc, caught <- daemon_caught, signals <- arrived
Screen == INSTANCE Display WITH expired <- screen_expired

(* kmalloc returns no buffer at NULL; a message has an end.                *)
ASSUME ConfigAssumption ==
  /\ Nothing \notin Buffers /\ Messages \subseteq Seq(Bytes)
  /\ Garbage \notin Seq(Bytes) /\ Pending \notin Seq(Bytes)

(* There is room for the log and the null device above what is inherited.  *)
ASSUME DetachAssumption ==
  /\ HighestFd \in Nat /\ HighestFd >= 5 /\ Signals \in Nat \ {0}
  /\ MaxSignals \in Nat /\ MaxSleep \in Nat

(* A frequency fits in its row, and no chip reaches 1000 degrees.          *)
ASSUME DisplayAssumption ==
  /\ \A f \in Frequencies : f \in Int /\ Screen!Digits(f) \in 1 .. 8
  /\ \A d \in Temperatures : d \in Int /\ Screen!Digits(Screen!Degrees(d)) \in 1 .. 3

-----------------------------------------------------------------------------
(* A program that has not been started is in one of its initial states.    *)
(* Bound: the first values on the display are automatic and the longest.   *)
Init ==
  /\ running \in {"pair", "leds", "config", "kick", "detach", "screen"}
  /\ Pair!Init /\ Leds!Init /\ Config!Init
  /\ Kick!Init   /\ (running = "kick" \/ solution = "student")
  /\ Detach!Init /\ (running = "detach" \/ (program = "daemon" /\ ~leader /\ inherited = {3}))
  /\ Screen!Init /\ (running = "screen" \/ bus)
  /\ ~manual /\ \A f \in Frequencies : f <= frequency
  /\ \A d \in Temperatures : d <= temp_mc

(* A step A of program x.                                                  *)
Run(x, A) ==
  /\ running = x /\ A
  /\ UNCHANGED running
  /\ IF x = "pair" THEN TRUE ELSE UNCHANGED pair
  /\ IF x = "leds" THEN TRUE ELSE UNCHANGED leds
  /\ IF x = "config" THEN TRUE ELSE UNCHANGED config
  /\ IF x = "kick" THEN TRUE ELSE UNCHANGED kick
  /\ IF x = "detach" THEN TRUE ELSE UNCHANGED detach
  /\ IF x = "screen" THEN TRUE ELSE UNCHANGED screen

Next ==
  \/ Run("pair", Pair!Next) \/ Run("leds", Leds!Next) \/ Run("config", Config!Next)
  \/ Run("kick", Kick!Next) \/ Run("detach", Detach!Next) \/ Run("screen", Screen!Next)

Spec == Init /\ [][Next]_vars

(* Each program is scheduled with the fairness of its own module: up to    *)
(* three processes or devices of one that run, and the two threads of      *)
(* better_led, which obtain a mutex that is free again and again.  The     *)
(* program is always the same one, so its steps may stand side by side.    *)
FirstStep ==
  \/ Run("pair", Pair!ParentStep) \/ Run("kick", Kick!KickerStep) \/ Run("detach", Detach!Step)
  \/ Run("screen", Screen!DaemonStep)

SecondStep ==
  \/ Run("pair", Pair!ChildStep) \/ Run("kick", Kick!WaiterStep) \/ Run("screen", Screen!Expire)
  \/ Run("leds", Leds!Expire)

FairSpec ==
  /\ Spec
  /\ WF_vars(FirstStep) /\ WF_vars(SecondStep) /\ WF_vars(Run("kick", Kick!ExitStep))
  /\ SF_vars(Run("leds", Leds!ButtonStep)) /\ SF_vars(Run("leds", Leds!LedStep))
-----------------------------------------------------------------------------
(* What each program promises; the comments are with the definitions.      *)

TypeOK ==
  Pair!TypeOK /\ Leds!TypeOK /\ Config!TypeOK /\ Kick!TypeOK /\ Detach!TypeOK /\ Screen!TypeOK

(* The conversation of the socket pair: the child never writes to a parent *)
(* that has shut down by itself, unless one of its calls has failed, and   *)
(* the parent logs the messages in their order, none twice.                *)
ConversationIsSound == Pair!ChildOutlivesClose /\ Pair!LogIsInOrder

(* The buttons that epoll reports at the start of better_led change nothing*)
QuietStart == Leds!QuietStart

(* The modules of exercises 5 and 7: without a race of a write with another*)
(* operation nothing is used or freed wrongly, the kicks are not counted   *)
(* below zero, and no buffer and no thread outlives its module.            *)
ModulesAreSound ==
  /\ Config!FaultsNeedARace /\ Config!NothingIsLeaked
  /\ Kick!NeverBelowZero /\ Kick!NobodyRunsOn

(* The body of a daemon is cut off from session, files and streams, and a  *)
(* daemon gives up only for a call that failed or a signal in its set-up.  *)
DaemonsAreDetached == Detach!BodyIsDetached /\ Detach!FailsForAReason

(* Mode and temperature are displayed without remains of older ones, and no*)
(* refresh touches the other rows.                                         *)
DisplayIsClean == Screen!ShownExactly /\ Screen!HeadersStay

(* What is to end ends: the two processes of the socket pair, whatever     *)
(* signals arrive and whatever reads merge; rmmod of exercise 7, wherever  *)
(* its threads are; the daemons of the examples, signalled or not.         *)
EachEnds ==
  /\ running = "pair" => Pair!BothEnd
  /\ running = "kick" => Kick!ExitEnds
  /\ running = "detach" => Detach!EndsByItself

(* Readers of exercise 5 get the last message from the position of their   *)
(* file on, a piece of it at a time, and the end only when there is no more*)
ReadsAreExact ==
  [][\A f \in Files :
       ~raced /\ answer[f] = Pending /\ answer'[f] # Pending => Config!Exact(f)]_vars

(* Every input has its effect: what is written is what is read; a press is *)
(* served, the timer comes to run with its period and the LED blinks on; a *)
(* kick is not slept through; the display comes to show what the driver has*)
InputsTakeEffect ==
  /\ ReadsAreExact
  /\ running = "leds" => Leds!PressesAreServed /\ Leds!LastPeriodApplies /\ Leds!KeepsBlinking
  /\ running = "kick" => Kick!KicksAreSeen
  /\ running = "screen" => Screen!DisplaySettles
=============================================================================
