---------------------------- MODULE DaemonProcess ----------------------------
(***************************************************************************)
(* How a process becomes a daemon: src/01_environment/daemon/daemon.c,     *)
(* which process.c next to it follows without its first three steps, and   *)
(* daemonize of src/07_miniproj/daemon/main.c.  The process is the one that*)
(* the others leave behind: fork ends the parent.                          *)
(*                                                                         *)
(* The handler of the examples calls syslog.  The C library keeps the      *)
(* number of a descriptor for it, opens it when it is needed, and opens it *)
(* again, after a close, when it cannot be written to; it holds a lock     *)
(* meanwhile, and a handler that interrupts it there waits for ever.       *)
(***************************************************************************)
EXTENDS Integers, FiniteSets, FiniteSetsExt

CONSTANTS
  HighestFd,     \* bound: OPEN_MAX - 1
  Signals,       \* bound: how many of the six signals there are
  MaxSignals,    \* bound: signals in a behaviour
  MaxSleep       \* bound: the seconds that the daemon sleeps

NoLog == -1
Std   == 0 .. 2

VARIABLES
  program,    \* "daemon", "process" or "fan-daemon"
  pc,         \* what the program does next; "ended", "failed", "killed", "stuck"
  after,      \* what it does after syslog
  leader,     \* whether it leads its session
  fds,        \* "file", "null", "log" or "closed"
  inherited,  \* history: the descriptors that were open at the start
  logfd,      \* the descriptor of syslog
  fd,         \* the next one to close; of daemonize, devnull
  caught,     \* how many handlers are installed
  t,          \* the seconds left to sleep
  signals,    \* signals so far
  calm,       \* history: no handler has run before the set-up was over
  refused     \* history: a system call has failed

vars == <<program, pc, after, leader, fds, inherited, logfd, fd, caught, t, signals, calm, refused>>

Example == program # "fan-daemon"
Over    == pc \in {"ended", "failed", "killed", "stuck"}

Lowest(f) == Min({n \in DOMAIN f : f[n] = "closed"})

-----------------------------------------------------------------------------
(* What is open, and where the log is, after openlog with LOG_NDELAY and   *)
(* after syslog.  The system's logger may not be there.                    *)

Opened(f) == {[fds |-> [f EXCEPT ![Lowest(f)] = "log"], logfd |-> Lowest(f)],
              [fds |-> f, logfd |-> NoLog]}

Openlog(f, l) == IF l = NoLog THEN Opened(f) ELSE {[fds |-> f, logfd |-> l]}

Logged(f, l) == IF l = NoLog \/ f[l] = "log" THEN Openlog(f, l)
                                             ELSE Opened([f EXCEPT ![l] = "closed"])

Becomes(outcomes) == \E o \in outcomes : fds' = o.fds /\ logfd' = o.logfd

Goto(there) == pc' = there /\ UNCHANGED after

(* syslog, and then there.                                                 *)
Say(there) == pc' = "syslog" /\ after' = there

Logging == pc \in {"openlog", "syslog", "closelog"}

-----------------------------------------------------------------------------
Init ==
  /\ program \in {"daemon", "process", "fan-daemon"}
  /\ pc = (CASE program = "daemon" -> "fork_1" [] program = "process" -> "sigaction"
             [] program = "fan-daemon" -> "openlog")
  /\ after = "ended"
  /\ leader \in BOOLEAN
  /\ inherited \in {std \cup {3} : std \in SUBSET Std}
  /\ fds = [n \in 0 .. HighestFd |-> IF n \in inherited THEN "file" ELSE "closed"]
  /\ logfd = NoLog /\ fd = HighestFd /\ caught = 0 /\ t = MaxSleep
  /\ signals = 0 /\ calm = TRUE /\ refused = FALSE

(* A call fails: the error is logged, and the program exits.               *)
Fails(there) ==
  /\ pc = there
  /\ refused' = TRUE
  /\ Say("failed")
  /\ UNCHANGED <<program, leader, fds, inherited, logfd, fd, caught, t, signals, calm>>

Syslog ==
  /\ pc = "syslog"
  /\ Becomes(Logged(fds, logfd))
  /\ pc' = after /\ UNCHANGED after
  /\ UNCHANGED <<program, leader, inherited, fd, caught, t, signals, calm, refused>>

-----------------------------------------------------------------------------
(* The session.                                                            *)

Fork(now, next) ==
  /\ pc = now
  /\ leader' = FALSE
  /\ Goto(next)
  /\ UNCHANGED <<program, fds, inherited, logfd, fd, caught, t, signals, calm, refused>>

Fork1 == Fork("fork_1", "setsid")
Fork2 == Fork("fork_2", IF Example THEN "sigaction" ELSE "chdir")

(* Mutant: daemonize and the example go on as leaders of their session.    *)
SetsidAlone ==
  /\ pc = "setsid"
  /\ leader' = TRUE
  /\ Goto(IF Example THEN "sigaction" ELSE "chdir")
  /\ UNCHANGED <<program, fds, inherited, logfd, fd, caught, t, signals, calm, refused>>

Setsid ==
  /\ pc = "setsid"
  /\ leader' = TRUE
  /\ Goto("fork_2")
  /\ UNCHANGED <<program, fds, inherited, logfd, fd, caught, t, signals, calm, refused>>

-----------------------------------------------------------------------------
(* daemon.c and process.c: steps 4 to 13.                                  *)

Sigaction ==
  /\ pc = "sigaction"
  /\ caught' = caught + 1
  /\ Goto(IF caught + 1 = Signals THEN "chdir" ELSE "sigaction")
  /\ UNCHANGED <<program, leader, fds, inherited, logfd, fd, t, signals, calm, refused>>

Chdir ==
  /\ pc = "chdir"
  /\ Goto(IF Example THEN "close" ELSE "open")
  /\ UNCHANGED <<program, leader, fds, inherited, logfd, fd, caught, t, signals, calm, refused>>

(* Mutant: the loop ends one too early.                                    *)
CloseShort ==
  /\ pc = "close"
  /\ fds' = [fds EXCEPT ![fd] = "closed"]
  /\ fd' = fd - 1
  /\ Goto(IF fd = 1 THEN "open" ELSE "close")
  /\ UNCHANGED <<program, leader, inherited, logfd, caught, t, signals, calm, refused>>

Close ==
  /\ pc = "close"
  /\ fds' = [fds EXCEPT ![fd] = "closed"]
  /\ fd' = fd - 1
  /\ Goto(IF fd = 0 THEN "open" ELSE "close")
  /\ UNCHANGED <<program, leader, inherited, logfd, caught, t, signals, calm, refused>>

(* The example takes for a failure what is not descriptor 0.               *)
OpenNull ==
  /\ pc = "open"
  /\ fds' = [fds EXCEPT ![Lowest(fds)] = "null"]
  /\ IF Example THEN UNCHANGED fd ELSE fd' = Lowest(fds)
  /\ IF Example /\ Lowest(fds) # 0 THEN Say("failed")
     ELSE Goto(IF Example THEN "dup2_1" ELSE "dup2_0")
  /\ UNCHANGED <<program, leader, inherited, logfd, caught, t, signals, calm, refused>>

Dup2(n, now, next) ==
  /\ pc = now
  /\ LET from == IF Example THEN 0 ELSE fd IN
     IF fds[from] = "closed" THEN Say("failed") /\ UNCHANGED fds
                             ELSE fds' = [fds EXCEPT ![n] = fds[from]] /\ Goto(next)
  /\ UNCHANGED <<program, leader, inherited, logfd, fd, caught, t, signals, calm, refused>>

Dup2In  == Dup2(0, "dup2_0", "dup2_1")
Dup2Out == Dup2(1, "dup2_1", "dup2_2")
Dup2Err == Dup2(2, "dup2_2", IF Example THEN "openlog" ELSE "close_null")

(* The example says that it has started; daemonize comes after openlog.    *)
OpenLog ==
  /\ pc = "openlog"
  /\ Becomes(Openlog(fds, logfd))
  /\ IF Example THEN Say("getpwnam") ELSE Goto("fork_1")
  /\ UNCHANGED <<program, leader, inherited, fd, caught, t, signals, calm, refused>>

Getpwnam ==
  /\ pc = "getpwnam"
  /\ Goto("chroot")
  /\ UNCHANGED <<program, leader, fds, inherited, logfd, fd, caught, t, signals, calm, refused>>

Chroot ==
  /\ pc = "chroot"
  /\ Goto("setegid")
  /\ UNCHANGED <<program, leader, fds, inherited, logfd, fd, caught, t, signals, calm, refused>>

Setegid ==
  /\ pc = "setegid"
  /\ Goto("seteuid")
  /\ UNCHANGED <<program, leader, fds, inherited, logfd, fd, caught, t, signals, calm, refused>>

Seteuid ==
  /\ pc = "seteuid"
  /\ Goto("body")
  /\ UNCHANGED <<program, leader, fds, inherited, logfd, fd, caught, t, signals, calm, refused>>

(* Mutant: a sleep that is over begins again.                              *)
SleepAgain ==
  /\ pc = "body" /\ Example
  /\ t' = MaxSleep
  /\ Goto("body")
  /\ UNCHANGED <<program, leader, fds, inherited, logfd, fd, caught, signals, calm, refused>>

Sleep ==
  /\ pc = "body" /\ Example
  /\ t' = 0
  /\ Say("closelog")
  /\ UNCHANGED <<program, leader, fds, inherited, logfd, fd, caught, signals, calm, refused>>

Closelog ==
  /\ pc = "closelog"
  /\ fds' = IF logfd = NoLog THEN fds ELSE [fds EXCEPT ![logfd] = "closed"]
  /\ logfd' = NoLog
  /\ Goto("ended")
  /\ UNCHANGED <<program, leader, inherited, fd, caught, t, signals, calm, refused>>

-----------------------------------------------------------------------------
(* The end of daemonize, and a message of the daemon after it.             *)

CloseNull ==
  /\ pc = "close_null"
  /\ fds' = IF fd \in Std THEN fds ELSE [fds EXCEPT ![fd] = "closed"]
  /\ Goto("body")
  /\ UNCHANGED <<program, leader, inherited, logfd, fd, caught, t, signals, calm, refused>>

Report ==
  /\ pc = "body" /\ ~Example
  /\ Say("body")
  /\ UNCHANGED <<program, leader, fds, inherited, logfd, fd, caught, t, signals, calm, refused>>

-----------------------------------------------------------------------------
(* Signals.                                                                *)

Kill(s) ==
  /\ ~Over /\ signals < MaxSignals /\ s > caught
  /\ signals' = signals + 1
  /\ pc' = "killed" /\ UNCHANGED after
  /\ UNCHANGED <<program, leader, fds, inherited, logfd, fd, caught, t, calm, refused>>

SetUp == pc \in {"sigaction", "chdir", "close", "open", "dup2_1", "dup2_2"}

(* The handler runs between two steps; it cuts a sleep short, which returns*)
(* the whole seconds that are left.                                        *)
Catch(s) ==
  /\ ~Over /\ signals < MaxSignals /\ s <= caught
  /\ signals' = signals + 1
  /\ Becomes(Logged(fds, logfd))
  /\ IF pc # "body" THEN UNCHANGED <<t, pc, after>>
     ELSE \E left \in 0 .. t - 1 : t' = left /\ IF left = 0 THEN Say("closelog") ELSE Goto("body")
  /\ calm' = (calm /\ ~SetUp)
  /\ UNCHANGED <<program, leader, inherited, fd, caught, refused>>

(* It interrupts the C library while that holds the lock of the log.       *)
CatchInside(s) ==
  /\ Logging /\ signals < MaxSignals /\ s <= caught
  /\ signals' = signals + 1
  /\ pc' = "stuck" /\ UNCHANGED after
  /\ UNCHANGED <<program, leader, fds, inherited, logfd, fd, caught, t, calm, refused>>

-----------------------------------------------------------------------------
Step ==
  \/ Syslog \/ Fork1 \/ Fork2 \/ Setsid \/ Sigaction \/ Chdir \/ Close \/ OpenNull
  \/ Dup2In \/ Dup2Out \/ Dup2Err \/ OpenLog \/ Getpwnam \/ Chroot \/ Setegid \/ Seteuid
  \/ Sleep \/ Closelog \/ CloseNull

Failure ==
  \E there \in {"fork_1", "setsid", "fork_2", "chdir", "open", "getpwnam", "chroot",
                "setegid", "seteuid"} : Fails(there)

Next == Step \/ Failure \/ Report \/ \E s \in 1 .. Signals : Kill(s) \/ Catch(s) \/ CatchInside(s)

Spec == Init /\ [][Next]_vars

FairSpec == Spec /\ WF_vars(Step)

-----------------------------------------------------------------------------
TypeOK ==
  /\ DOMAIN fds = 0 .. HighestFd
  /\ \A n \in DOMAIN fds : fds[n] \in {"file", "null", "log", "closed"}
  /\ logfd \in DOMAIN fds \cup {NoLog} /\ fd \in -1 .. HighestFd
  /\ caught \in 0 .. Signals /\ t \in 0 .. MaxSleep /\ signals \in 0 .. MaxSignals
  /\ pc = "syslog" => after \in {"failed", "getpwnam", "closelog", "body"}

(* In its body a daemon does not lead its session, so that no terminal     *)
(* becomes its own; the examples have inherited no open file; and the three*)
(* streams go to /dev/null, unless a handler has opened the log among them *)
(* while they were being set up, or daemonize was started without one of   *)
(* them and the log is in its place.  Even then the input of a process     *)
(* that was started with all three is /dev/null.                           *)
BodyIsDetached ==
  pc = "body" =>
    /\ program # "process" => ~leader
    /\ Example => \A n \in DOMAIN fds : fds[n] # "file"
    /\ calm /\ (Example \/ Std \subseteq inherited) => \A n \in Std : fds[n] = "null"
    /\ Std \subseteq inherited => fds[0] = "null"

(* No program gives up without a reason: a system call that failed, or a   *)
(* signal whose handler has taken the descriptor meant for /dev/null.      *)
FailsForAReason == pc = "failed" => refused \/ ~calm

(* The examples end, whatever signals cut their sleep short, unless one    *)
(* comes while the log is locked, and unless they are killed before.       *)
EndsByItself == (~Over /\ Example) ~> Over
=============================================================================
