-------------------------- MODULE WorkspaceProofs ---------------------------
(***************************************************************************)
(* How a process becomes a daemon and how the screen is drawn, each of them*)
(* an instance in Workspace; and what follows for every program of the     *)
(* workspace from the proofs about it: here and in ExerciseProofs.         *)
(***************************************************************************)
EXTENDS ExerciseProofs, WellFoundedInduction, NaturalsInduction

(* A set of numbers has a least element.                                   *)
LEMMA LeastElement ==
  ASSUME NEW T \in SUBSET Nat, T # {}
  PROVE  \E x \in T : \A y \in T : x <= y
<1>1. PICK x \in T : \A y \in T : ~ (<<y, x>> \in OpToRel(<, Nat))
  BY NatLessThanWellFounded, WFMin
<1>2. \A y \in T : ~ (y < x)
  BY <1>1 DEF OpToRel
<1> QED  BY <1>2

-----------------------------------------------------------------------------
(* How a process becomes a daemon.                                         *)

(* Where the program is; syslog is a part of the step that goes on there.  *)
At == IF daemon_pc = "syslog" THEN after ELSE daemon_pc

Descriptors == 0 .. HighestFd
Contents    == {"file", "null", "log", "closed"}

BeforeClose == {"fork_1", "setsid", "fork_2", "sigaction", "chdir"}
AfterDup    == {"openlog", "getpwnam", "chroot", "setegid", "seteuid", "body", "closelog"}
Dups        == {"dup2_0", "dup2_1", "dup2_2"}

ExamplePlaces ==
  BeforeClose \cup {"close", "open", "dup2_1", "dup2_2"} \cup AfterDup
  \cup {"ended", "failed", "killed", "stuck"}

FanPlaces ==
  BeforeClose \cup {"openlog", "open", "close_null", "body", "failed", "killed"} \cup Dups

DetachTypeOK ==
  /\ program \in {"daemon", "process", "fan-daemon"}
  /\ At \in (IF Detach!Example THEN ExamplePlaces ELSE FanPlaces \ {"sigaction"})
  /\ fds \in [Descriptors -> Contents] /\ logfd \in Descriptors \cup {Detach!NoLog}
  /\ fd \in Int /\ -1 <= fd /\ fd <= HighestFd
  /\ daemon_caught \in 0 .. Signals /\ t \in 0 .. MaxSleep /\ arrived \in 0 .. MaxSignals
  /\ leader \in BOOLEAN /\ calm \in BOOLEAN /\ refused \in BOOLEAN
  /\ daemon_pc = "syslog" => after \in {"failed", "getpwnam", "closelog", "body"}
  /\ daemon_pc = "sigaction" => daemon_caught < Signals
  /\ daemon_pc = "close" => fd >= 0
  /\ ~Detach!Example \/ daemon_pc \in {"fork_1", "setsid", "fork_2"} => daemon_caught = 0

(* Above what was inherited nothing is open but the log, and the null      *)
(* device on its way: there is room for one more.                          *)
RoomIsLeft ==
  At # "killed" => \A n \in 4 .. HighestFd :
    fds[n] # "closed" => n = logfd \/ (~Detach!Example /\ At \in Dups \cup {"close_null"} /\ n = fd)

(* The loop leaves nothing open behind it but the log of a handler.        *)
LoopCloses ==
  Detach!Example =>
    /\ At \in BeforeClose => fd = HighestFd
    /\ At = "close" => \A n \in Descriptors : n > fd /\ fds[n] # "closed" => n = logfd /\ fds[n] = "log"
    /\ At = "open" => \A n \in Descriptors : fds[n] # "closed" => n = logfd /\ fds[n] = "log"
    /\ At \in {"dup2_1", "dup2_2"} \cup AfterDup => \A n \in Descriptors : fds[n] # "file"

(* No leader after the second fork.                                        *)
LeadsNothing ==
  /\ program = "daemon" /\ At \notin {"fork_1", "setsid", "fork_2"} =>
       At \in {"failed", "killed", "stuck"} \/ ~leader
  /\ program = "fan-daemon" /\ At \notin {"openlog", "fork_1", "setsid", "fork_2"} =>
       At \in {"failed", "killed", "stuck"} \/ ~leader

(* The streams below k go to the null device, and the log is not there.    *)
AreNull(k) == \A n \in Detach!Std : n < k => fds[n] = "null" /\ n # logfd

(* The log of an example keeps off descriptor 0 if that was inherited.     *)
InputIsKept ==
  Detach!Example /\ Detach!Std \subseteq inherited =>
    /\ At \in BeforeClose \cup {"close"} => fds[0] = "file" /\ logfd # 0
    /\ At = "open" /\ fds[0] = "closed" => logfd # 0
    /\ At \in {"dup2_1", "dup2_2"} \cup AfterDup => AreNull(1)

(* Without a handler there is no log until the three streams are set up.   *)
CalmIsExact ==
  Detach!Example /\ calm =>
    /\ At \in BeforeClose \cup {"close", "open", "dup2_1", "dup2_2"} => logfd = Detach!NoLog
    /\ At = "dup2_1" => AreNull(1)
    /\ At = "dup2_2" => AreNull(2)
    /\ At \in AfterDup => AreNull(3)

(* daemonize keeps its null device until it is copied three times, and its *)
(* log beyond what was inherited.                                          *)
DaemonizeIsExact ==
  ~Detach!Example =>
    /\ At \in Dups => fd \in Descriptors /\ fds[fd] = "null"
    /\ Detach!Std \subseteq inherited /\ At \notin {"failed", "killed"} =>
         /\ logfd \notin Detach!Std /\ \A n \in Detach!Std : fds[n] # "closed"
         /\ At \in Dups \cup {"close_null"} => fd \notin Detach!Std
         /\ At = "dup2_1" => AreNull(1)
         /\ At = "dup2_2" => AreNull(2)
         /\ At \in {"close_null", "body"} => AreNull(3)

ReasonIsThere == At = "failed" => refused \/ ~calm

DetachInv ==
  /\ DetachTypeOK /\ RoomIsLeft /\ LoopCloses /\ LeadsNothing /\ InputIsKept /\ CalmIsExact
  /\ DaemonizeIsExact /\ ReasonIsThere

LEMMA DetachInit == Detach!Init => DetachInv
<1> SUFFICES ASSUME Detach!Init PROVE DetachInv
  OBVIOUS
<1> USE DetachAssumption DEF Detach!Init
<1>1. At = daemon_pc /\ \/ program = "daemon" /\ daemon_pc = "fork_1"
                        \/ program = "process" /\ daemon_pc = "sigaction"
                        \/ program = "fan-daemon" /\ daemon_pc = "openlog"
  BY DEF At
<1>2. /\ inherited \subseteq 0 .. 3
      /\ \A n \in Descriptors : fds[n] = IF n \in inherited THEN "file" ELSE "closed"
      /\ logfd = -1 /\ fd = HighestFd /\ daemon_caught = 0 /\ t = MaxSleep /\ arrived = 0
      /\ calm = TRUE /\ refused = FALSE /\ leader \in BOOLEAN /\ fds \in [Descriptors -> Contents]
  BY DEF Descriptors, Contents, Detach!Std, Detach!NoLog
<1> HIDE DEF Detach!Init
<1>3. DetachTypeOK
  <2>1. /\ program \in {"daemon", "process", "fan-daemon"}
        /\ At \in (IF Detach!Example THEN ExamplePlaces ELSE FanPlaces \ {"sigaction"})
    BY <1>1 DEF ExamplePlaces, FanPlaces, BeforeClose, Detach!Example
  <2>2. fd \in Int /\ -1 <= fd /\ fd <= HighestFd /\ logfd \in Descriptors \cup {Detach!NoLog}
    BY <1>2 DEF Detach!NoLog
  <2>3. daemon_caught \in 0 .. Signals /\ t \in 0 .. MaxSleep /\ arrived \in 0 .. MaxSignals
    BY <1>2
  <2>4. /\ daemon_pc = "sigaction" => daemon_caught < Signals
        /\ daemon_pc # "syslog" /\ daemon_pc # "close"
    BY <1>1, <1>2
  <2> HIDE DetachAssumption
  <2> QED  BY <1>2, <2>1, <2>2, <2>3, <2>4, Zenon DEF DetachTypeOK
<1>4. RoomIsLeft
  BY <1>2 DEF RoomIsLeft, Descriptors
<1>5. LoopCloses /\ LeadsNothing /\ CalmIsExact /\ ReasonIsThere
  BY <1>1, <1>2 DEF LoopCloses, LeadsNothing, CalmIsExact, ReasonIsThere, AfterDup, Detach!Example, BeforeClose, Detach!NoLog
<1>6. \A n \in Detach!Std : n \in Descriptors /\ n # -1
  BY DEF Detach!Std, Descriptors
<1>7. InputIsKept /\ DaemonizeIsExact
  BY <1>1, <1>2, <1>6 DEF InputIsKept, DaemonizeIsExact, AfterDup, Dups, Detach!Std, Detach!Example
<1> QED  BY <1>3, <1>4, <1>5, <1>7 DEF DetachInv

(* The lowest descriptor that is closed, if one is.                        *)
LEMMA LowestIsClosed ==
  ASSUME NEW f \in [Descriptors -> Contents], \E n \in Descriptors : f[n] = "closed"
  PROVE  /\ Detach!Lowest(f) \in Descriptors /\ f[Detach!Lowest(f)] = "closed"
         /\ \A n \in Descriptors : f[n] = "closed" => Detach!Lowest(f) <= n
<1> DEFINE S == {n \in DOMAIN f : f[n] = "closed"}
<1>1. S \subseteq Nat /\ S # {}
  BY DEF Descriptors
<1>2. \E x \in S : \A y \in S : x <= y
  <2> HIDE DEF S
  <2> QED  BY <1>1, LeastElement
<1>3. Detach!Lowest(f) \in S /\ \A y \in S : Detach!Lowest(f) <= y
  <2> HIDE DEF S
  <2>1. Detach!Min(S) \in S /\ \A y \in S : Detach!Min(S) <= y
    BY <1>2 DEF Detach!Min
  <2> QED  BY <2>1 DEF S, Detach!Lowest
<1> QED  BY <1>3

(* What openlog and syslog do to the descriptors.                          *)
LogMoves ==
  /\ fds' \in [Descriptors -> Contents] /\ logfd' \in Descriptors \cup {Detach!NoLog}
  /\ \A n \in Descriptors :
       \/ fds'[n] = fds[n]
       \/ n = logfd' /\ fds'[n] = "log" /\ (fds[n] = "closed" \/ n = logfd)
       \/ n = logfd /\ fds'[n] = "closed"
  /\ logfd' \in {logfd, Detach!NoLog} \/ fds[logfd'] = "closed"
  /\ logfd' # logfd /\ logfd \in Descriptors => fds'[logfd] = "closed"
  /\ logfd' \in Descriptors => fds'[logfd'] = "log" \/ UNCHANGED <<fds, logfd>>

LEMMA OpenedMeans ==
  ASSUME NEW f, Detach!Becomes(Detach!Opened(f))
  PROVE  \/ fds' = f /\ logfd' = Detach!NoLog
         \/ logfd' = Detach!Lowest(f) /\ fds' = [f EXCEPT ![logfd'] = "log"]
<1> DEFINE o1 == [fds |-> [f EXCEPT ![Detach!Lowest(f)] = "log"], logfd |-> Detach!Lowest(f)]
           o2 == [fds |-> f, logfd |-> Detach!NoLog]
<1>1. (fds' = o1.fds /\ logfd' = o1.logfd) \/ (fds' = o2.fds /\ logfd' = o2.logfd)
  <2> HIDE DEF o1, o2
  <2>1. Detach!Opened(f) = {o1, o2}
    BY DEF Detach!Opened, o1, o2
  <2> QED  BY <2>1 DEF Detach!Becomes
<1> QED  BY <1>1

LEMMA OpenedFacts ==
  ASSUME NEW f \in [Descriptors -> Contents], \E n \in Descriptors : f[n] = "closed",
         Detach!Becomes(Detach!Opened(f))
  PROVE  \/ fds' = f /\ logfd' = Detach!NoLog
         \/ /\ logfd' \in Descriptors /\ f[logfd'] = "closed"
            /\ fds' = [f EXCEPT ![logfd'] = "log"]
  BY OpenedMeans, LowestIsClosed

LEMMA StaysMeans ==
  ASSUME NEW f, NEW l, Detach!Becomes({[fds |-> f, logfd |-> l]})
  PROVE  fds' = f /\ logfd' = l
  BY DEF Detach!Becomes

LEMMA NoLogIsNone == Detach!NoLog \notin Descriptors
  BY DEF Detach!NoLog, Descriptors

LEMMA LogOutcome ==
  ASSUME fds \in [Descriptors -> Contents], logfd \in Descriptors \cup {Detach!NoLog},
         logfd = Detach!NoLog => \E n \in Descriptors : fds[n] = "closed",
         Detach!Becomes(Detach!Logged(fds, logfd)) \/ Detach!Becomes(Detach!Openlog(fds, logfd))
  PROVE  LogMoves
<1>1. CASE UNCHANGED <<fds, logfd>>
  BY <1>1 DEF LogMoves
<1>2. CASE logfd = Detach!NoLog /\ Detach!Becomes(Detach!Opened(fds))
  <2>1. \/ fds' = fds /\ logfd' = Detach!NoLog
        \/ /\ logfd' \in Descriptors /\ fds[logfd'] = "closed"
           /\ fds' = [fds EXCEPT ![logfd'] = "log"]
    BY <1>2, OpenedFacts
  <2> QED  BY <1>2, <2>1, NoLogIsNone DEF LogMoves, Contents
<1>3. CASE logfd \in Descriptors /\ Detach!Becomes(Detach!Opened([fds EXCEPT ![logfd] = "closed"]))
  <2> DEFINE f == [fds EXCEPT ![logfd] = "closed"]
  <2>2. f \in [Descriptors -> Contents] /\ f[logfd] = "closed"
    BY <1>3 DEF Contents
  <2>3. \/ fds' = f /\ logfd' = Detach!NoLog
        \/ /\ logfd' \in Descriptors /\ f[logfd'] = "closed"
           /\ fds' = [f EXCEPT ![logfd'] = "log"]
    <3>1. Detach!Becomes(Detach!Opened(f))
      BY <1>3
    <3> HIDE DEF f
    <3> QED  BY <1>3, <2>2, <3>1, OpenedFacts
  <2> QED  BY <1>3, <2>3, NoLogIsNone DEF LogMoves, Contents
<1>4. CASE Detach!Becomes(Detach!Openlog(fds, logfd))
  <2>1. CASE logfd = Detach!NoLog
    BY <1>2, <1>4, <2>1 DEF Detach!Openlog
  <2>2. CASE logfd # Detach!NoLog
    BY <1>1, <1>4, <2>2, StaysMeans DEF Detach!Openlog
  <2> QED  BY <2>1, <2>2
<1>5. CASE Detach!Becomes(Detach!Logged(fds, logfd)) /\ ~Detach!Becomes(Detach!Openlog(fds, logfd))
  BY <1>3, <1>5 DEF Detach!Logged
<1> QED  BY <1>4, <1>5

LEMMA RoomForLog ==
  ASSUME DetachInv, At # "killed", logfd = Detach!NoLog \/ At = "open"
  PROVE  \E n \in Descriptors : fds[n] = "closed"
<1>1. 4 \in Descriptors /\ 5 \in Descriptors /\ 4 \in 4 .. HighestFd /\ 5 \in 4 .. HighestFd
  BY DetachAssumption DEF Descriptors
<1>2. Detach!NoLog # 4 /\ Detach!NoLog # 5 /\ "open" \notin Dups \cup {"close_null"}
  BY DEF Detach!NoLog, Dups
<1>3. fds[4] = "closed" \/ fds[5] = "closed"
  BY <1>1, <1>2 DEF DetachInv, RoomIsLeft
<1> QED  BY <1>1, <1>3

(* Where a step of the log may lead.                                       *)
LogLeads ==
  \/ At' = At
  \/ Detach!Example /\ At \in AfterDup /\ At' \in AfterDup
  \/ ~Detach!Example /\ At = "openlog" /\ At' = "fork_1"

LEMMA LogKeeps ==
  ASSUME DetachInv, LogMoves, LogLeads, UNCHANGED <<program, leader, fd, inherited, refused>>,
         ~Detach!Example => At \in {"openlog", "failed", "body"},
         Detach!Example /\ calm' => calm /\ At \notin BeforeClose \cup {"close", "open", "dup2_1", "dup2_2"}
  PROVE  RoomIsLeft' /\ LoopCloses' /\ LeadsNothing' /\ InputIsKept' /\ CalmIsExact' /\ DaemonizeIsExact'
<1> USE DEF Detach!Example
<1>1. \A n \in Descriptors : fds'[n] # "closed" =>
        \/ fds'[n] = fds[n] /\ (n = logfd => n = logfd')
        \/ n = logfd' /\ fds'[n] = "log" /\ (fds[n] = "closed" \/ n = logfd)
  BY DEF LogMoves
<1>2. \A n \in Descriptors : fds[n] \notin {"closed", "log"} /\ n # logfd => fds'[n] = fds[n] /\ n # logfd'
  BY DEF LogMoves
<1>3. Detach!Std \subseteq Descriptors /\ 4 .. HighestFd \subseteq Descriptors /\ Detach!Std = {0, 1, 2}
  BY DetachAssumption DEF Descriptors, Detach!Std
<1>4. \A k \in Nat : AreNull(k) => AreNull(k)'
  BY <1>2, <1>3 DEF AreNull
<1>5. RoomIsLeft'
  <2>1. At' # "killed" => At # "killed"
    BY DEF LogLeads, AfterDup
  <2>2. At \in Dups \cup {"close_null"} /\ ~Detach!Example => FALSE
    BY DEF Dups
  <2> QED  BY <1>1, <1>3, <2>1, <2>2 DEF DetachInv, RoomIsLeft
<1>6. LoopCloses'
  <2> SUFFICES ASSUME Detach!Example PROVE LoopCloses'
    BY DEF LoopCloses
  <2>1. At' = At \/ (At \in AfterDup /\ At' \in AfterDup)
    BY DEF LogLeads
  <2>2. \A n \in Descriptors : fds'[n] = "file" => fds[n] = "file"
    BY <1>1
  <2> QED  BY <1>1, <2>1, <2>2 DEF DetachInv, LoopCloses, AfterDup, BeforeClose
<1>7. LeadsNothing'
  BY DEF DetachInv, LeadsNothing, LogLeads, AfterDup
<1>8. InputIsKept'
  <2> SUFFICES ASSUME Detach!Example, Detach!Std \subseteq inherited PROVE InputIsKept'
    BY DEF InputIsKept
  <2>1. At' = At \/ (At \in AfterDup /\ At' \in AfterDup)
    BY DEF LogLeads
  <2>2. fds[0] = "file" /\ logfd # 0 => fds'[0] = "file" /\ logfd' # 0
    BY <1>2, <1>3
  <2>3. fds'[0] = "closed" /\ (fds[0] = "closed" => logfd # 0) => logfd' # 0
    BY <1>3 DEF LogMoves
  <2> QED  BY <1>4, <2>1, <2>2, <2>3 DEF DetachInv, InputIsKept, AfterDup, BeforeClose
<1>9. CalmIsExact'
  <2> SUFFICES ASSUME Detach!Example, calm' PROVE CalmIsExact'
    BY DEF CalmIsExact
  <2>1. At' = At \/ (At \in AfterDup /\ At' \in AfterDup)
    BY DEF LogLeads
  <2> QED  BY <1>4, <2>1 DEF DetachInv, CalmIsExact, AfterDup, BeforeClose
<1>10. DaemonizeIsExact'
  <2> SUFFICES ASSUME ~Detach!Example PROVE DaemonizeIsExact'
    BY DEF DaemonizeIsExact
  <2>1. At' \notin Dups \cup {"close_null", "failed", "killed"} \/ (At' = "failed" /\ At = "failed")
    BY DEF LogLeads, Dups
  <2>2. At' # "failed" => At \notin {"failed", "killed"} /\ (At' = "body" => At = "body")
    BY DEF LogLeads
  <2>3. Detach!Std \subseteq inherited /\ At' # "failed" =>
          logfd' \notin Detach!Std /\ \A n \in Detach!Std : fds'[n] # "closed"
    <3> SUFFICES ASSUME Detach!Std \subseteq inherited, At' # "failed"
                 PROVE  logfd' \notin Detach!Std /\ \A n \in Detach!Std : fds'[n] # "closed"
      OBVIOUS
    <3>1. logfd \notin Detach!Std /\ \A n \in Detach!Std : fds[n] # "closed"
      BY <2>2 DEF DetachInv, DaemonizeIsExact
    <3>2. logfd' \notin Detach!Std
      BY <1>3, <3>1, NoLogIsNone DEF LogMoves
    <3>3. \A n \in Detach!Std : fds'[n] = fds[n]
      BY <1>3, <3>1, <3>2 DEF LogMoves
    <3> QED  BY <3>1, <3>2, <3>3
  <2> QED  BY <1>4, <2>1, <2>2, <2>3 DEF DetachInv, DaemonizeIsExact, Dups
<1> QED  BY <1>5, <1>6, <1>7, <1>8, <1>9, <1>10

(* The steps that leave the descriptors alone.                             *)
QuietLeads ==
  \/ At \in BeforeClose /\ At' \in BeforeClose
  \/ Detach!Example /\ At = "chdir" /\ At' = "close"
  \/ ~Detach!Example /\ At = "chdir" /\ At' = "open"
  \/ Detach!Example /\ At \in AfterDup \ {"openlog"} /\ At' \in AfterDup
  \/ ~Detach!Example /\ At = "body" /\ At' = "body"
  \/ At \notin Dups \cup {"close_null", "killed"} /\ At' = "failed"
  \/ At' = "killed"
  \/ Detach!Example /\ At # "killed" /\ At' = "stuck"

LEMMA QuietKeeps ==
  ASSUME DetachInv, QuietLeads, UNCHANGED <<program, fds, inherited, logfd, fd, calm>>
  PROVE  RoomIsLeft' /\ LoopCloses' /\ InputIsKept' /\ CalmIsExact' /\ DaemonizeIsExact'
<1> USE DEF Detach!Example, QuietLeads, BeforeClose, AfterDup, Dups
<1>1. \A k \in Nat : AreNull(k) => AreNull(k)'
  BY DEF AreNull
<1>2. RoomIsLeft'
  BY DEF DetachInv, RoomIsLeft
<1>3. LoopCloses'
  BY DEF DetachInv, LoopCloses, DetachTypeOK, Descriptors
<1>4. InputIsKept'
  BY <1>1 DEF DetachInv, InputIsKept
<1>5. CalmIsExact'
  BY <1>1 DEF DetachInv, CalmIsExact
<1>6. DaemonizeIsExact'
  BY <1>1 DEF DetachInv, DaemonizeIsExact
<1> QED  BY <1>2, <1>3, <1>4, <1>5, <1>6

LEMMA Goes == ASSUME NEW x, x # "syslog", Detach!Goto(x) PROVE At' = x /\ daemon_pc' = x
  BY DEF Detach!Goto, At

LEMMA Says ==
  ASSUME NEW x, Detach!Say(x) PROVE At' = x /\ daemon_pc' = "syslog" /\ after' = x
  BY DEF Detach!Say, At

(* A step that leaves the descriptors alone and leads somewhere else.      *)
LEMMA QuietStep ==
  ASSUME DetachInv, QuietLeads, UNCHANGED <<program, fds, inherited, logfd, fd, calm>>,
         At' \in (IF Detach!Example THEN ExamplePlaces ELSE FanPlaces \ {"sigaction"}),
         daemon_caught' \in 0 .. Signals, t' \in 0 .. MaxSleep, arrived' \in 0 .. MaxSignals,
         leader' \in BOOLEAN, refused' \in BOOLEAN,
         daemon_pc' = "syslog" => At' \in {"failed", "closelog", "body"},
         daemon_pc' = "sigaction" => daemon_caught' < Signals,
         ~Detach!Example \/ daemon_pc' \in {"fork_1", "setsid", "fork_2"} => daemon_caught' = 0,
         LeadsNothing', ReasonIsThere'
  PROVE  DetachInv'
<1>1. RoomIsLeft' /\ LoopCloses' /\ InputIsKept' /\ CalmIsExact' /\ DaemonizeIsExact'
  BY QuietKeeps
<1>2. daemon_pc' = "close" => fd' >= 0
  <2>1. daemon_pc' = "close" => At' = "close"
    BY DEF At
  <2>2. At' = "close" => At \in BeforeClose /\ Detach!Example
    BY DEF QuietLeads, AfterDup, BeforeClose
  <2> QED  BY DetachAssumption, <2>1, <2>2 DEF DetachInv, LoopCloses
<1>3. daemon_pc' = "syslog" => after' = At'
  BY DEF At
<1>4. DetachTypeOK'
  BY <1>2, <1>3 DEF DetachInv, DetachTypeOK, Detach!Example
<1> QED  BY <1>1, <1>4 DEF DetachInv

LEMMA FailsKeeps ==
  ASSUME DetachInv,
         NEW x \in {"fork_1", "setsid", "fork_2", "chdir", "open", "getpwnam", "chroot", "setegid", "seteuid"},
         Detach!Fails(x)
  PROVE  DetachInv'
<1>1. At = x /\ At' = "failed" /\ daemon_pc' = "syslog"
  BY Says DEF Detach!Fails, At
<1>2. QuietLeads
  BY <1>1 DEF QuietLeads, Dups
<1>3. LeadsNothing' /\ ReasonIsThere' /\ refused' \in BOOLEAN
  BY <1>1 DEF Detach!Fails, LeadsNothing, ReasonIsThere
<1> QED
  BY <1>1, <1>2, <1>3, QuietStep
  DEF Detach!Fails, DetachInv, DetachTypeOK, Detach!Example, ExamplePlaces, FanPlaces

LEMMA SessionKeeps ==
  ASSUME DetachInv, Detach!Fork1 \/ Detach!Fork2 \/ Detach!Setsid
  PROVE  DetachInv'
<1> USE DEF Detach!Fork1, Detach!Fork2, Detach!Fork, Detach!Setsid
<1>1. PICK x \in {"setsid", "fork_2", IF Detach!Example THEN "sigaction" ELSE "chdir"} :
        Detach!Goto(x) /\ (x \in {"sigaction", "chdir"} => leader' = FALSE)
  BY Zenon
<1>2. At \in {"fork_1", "fork_2", "setsid"} /\ daemon_pc = At
  BY DEF At
<1>3. At' = x /\ daemon_pc' = x
  BY <1>1, Goes
<1>4. QuietLeads
  BY <1>2, <1>3 DEF QuietLeads, BeforeClose
<1>5. LeadsNothing' /\ ReasonIsThere' /\ leader' \in BOOLEAN
  BY <1>1, <1>3 DEF LeadsNothing, ReasonIsThere
<1>6. UNCHANGED <<program, fds, inherited, logfd, fd, daemon_caught, t, arrived, calm, refused>>
  OBVIOUS
<1>7. daemon_caught = 0
  BY <1>2 DEF DetachInv, DetachTypeOK
<1>8. At' \in (IF Detach!Example THEN ExamplePlaces ELSE FanPlaces \ {"sigaction"})
  BY <1>1, <1>3 DEF ExamplePlaces, FanPlaces, BeforeClose
<1> HIDE DEF Detach!Fork1, Detach!Fork2, Detach!Fork, Detach!Setsid
<1> QED
  BY DetachAssumption, <1>3, <1>4, <1>5, <1>6, <1>7, <1>8, QuietStep DEF DetachInv, DetachTypeOK

LEMMA ExampleKeeps ==
  ASSUME DetachInv,
         Detach!Sigaction \/ Detach!Chdir \/ Detach!Getpwnam \/ Detach!Chroot \/ Detach!Setegid
         \/ Detach!Seteuid \/ Detach!Sleep \/ Detach!Report
  PROVE  DetachInv'
<1>1. At \in {"sigaction", "chdir", "getpwnam", "chroot", "setegid", "seteuid", "body"} /\ daemon_pc = At
  BY DEF At, Detach!Sigaction, Detach!Chdir, Detach!Getpwnam, Detach!Chroot, Detach!Setegid,
         Detach!Seteuid, Detach!Sleep, Detach!Report
<1> USE DetachAssumption
<1>2. CASE Detach!Sigaction
  <2>1. /\ At' = daemon_pc' /\ At' \in {"sigaction", "chdir"}
        /\ daemon_caught' = daemon_caught + 1 /\ daemon_pc = "sigaction"
        /\ daemon_pc' = "sigaction" => daemon_caught' # Signals
        /\ UNCHANGED <<program, leader, fds, inherited, logfd, fd, t, arrived, calm, refused>>
    BY <1>2, Goes DEF Detach!Sigaction
  <2>2. Detach!Example
    BY <1>1, <2>1 DEF DetachInv, DetachTypeOK, FanPlaces, BeforeClose, Dups
  <2>3. daemon_caught' \in 0 .. Signals /\ (daemon_pc' = "sigaction" => daemon_caught' < Signals)
    BY <2>1 DEF DetachInv, DetachTypeOK
  <2>4. QuietLeads /\ LeadsNothing' /\ ReasonIsThere'
    BY <1>1, <2>1 DEF DetachInv, QuietLeads, BeforeClose, LeadsNothing, ReasonIsThere
  <2>5. At' \in ExamplePlaces
    BY <2>1 DEF ExamplePlaces, BeforeClose
  <2>6. /\ leader' \in BOOLEAN /\ refused' \in BOOLEAN /\ t' \in 0 .. MaxSleep
        /\ arrived' \in 0 .. MaxSignals
    BY <2>1 DEF DetachInv, DetachTypeOK
  <2>7. daemon_pc' \notin {"fork_1", "setsid", "fork_2", "syslog"} /\ Detach!Example'
    BY <2>1, <2>2 DEF Detach!Example
  <2> QED  BY <2>1, <2>2, <2>3, <2>4, <2>5, <2>6, <2>7, QuietStep
<1>3. ASSUME ~Detach!Sigaction PROVE DetachInv'
  <2>1. /\ UNCHANGED <<program, leader, fds, inherited, logfd, fd, daemon_caught, arrived, calm, refused>>
        /\ t' \in {0, t}
        /\ \/ /\ daemon_pc' = At'
              /\ \/ At = "chdir" /\ At' = IF Detach!Example THEN "close" ELSE "open"
                 \/ At = "getpwnam" /\ At' = "chroot"
                 \/ At = "chroot" /\ At' = "setegid"
                 \/ At = "setegid" /\ At' = "seteuid"
                 \/ At = "seteuid" /\ At' = "body"
           \/ /\ daemon_pc' = "syslog"
              /\ At = "body" /\ At' = IF Detach!Example THEN "closelog" ELSE "body"
    BY <1>1, <1>3, Goes, Says
    DEF Detach!Chdir, Detach!Getpwnam, Detach!Chroot, Detach!Setegid, Detach!Seteuid, Detach!Sleep,
        Detach!Report
  <2>2. At \in AfterDup \ {"openlog", "body"} => Detach!Example
    BY DEF DetachInv, DetachTypeOK, FanPlaces, AfterDup, BeforeClose, Dups
  <2>3. QuietLeads
    BY <2>1, <2>2 DEF QuietLeads, BeforeClose, AfterDup
  <2>4. LeadsNothing' /\ ReasonIsThere'
    BY <2>1 DEF DetachInv, LeadsNothing, ReasonIsThere
  <2>5. At' \in (IF Detach!Example THEN ExamplePlaces ELSE FanPlaces \ {"sigaction"})
    BY <2>1, <2>2 DEF ExamplePlaces, FanPlaces, BeforeClose, AfterDup
  <2>6. /\ leader' \in BOOLEAN /\ refused' \in BOOLEAN /\ t' \in 0 .. MaxSleep
        /\ arrived' \in 0 .. MaxSignals /\ daemon_caught' \in 0 .. Signals
        /\ ~Detach!Example => daemon_caught' = 0
    BY <2>1 DEF DetachInv, DetachTypeOK
  <2>7. /\ daemon_pc' \notin {"fork_1", "setsid", "fork_2", "sigaction"}
        /\ daemon_pc' = "syslog" => At' \in {"failed", "closelog", "body"}
    BY <2>1
  <2> QED  BY <2>1, <2>3, <2>4, <2>5, <2>6, <2>7, QuietStep
<1> QED  BY <1>2, <1>3

(* Closing what was inherited.                                             *)
LEMMA CloseKeeps == DetachInv /\ Detach!Close => DetachInv'
<1> SUFFICES ASSUME DetachInv, Detach!Close PROVE DetachInv'
  OBVIOUS
<1> USE DetachAssumption
<1>1. /\ At = "close" /\ daemon_pc = "close" /\ fds' = [fds EXCEPT ![fd] = "closed"] /\ fd' = fd - 1
      /\ UNCHANGED <<program, leader, inherited, logfd, daemon_caught, t, arrived, calm, refused>>
      /\ At' = (IF fd = 0 THEN "open" ELSE "close") /\ daemon_pc' = At'
  BY Goes DEF Detach!Close, At
<1>2. Detach!Example /\ Detach!Example'
  BY <1>1 DEF DetachInv, DetachTypeOK, FanPlaces, BeforeClose, Dups, Detach!Example
<1>3. fd \in Descriptors /\ fds \in [Descriptors -> Contents] /\ fds' \in [Descriptors -> Contents]
  BY <1>1 DEF DetachInv, DetachTypeOK, Descriptors, Contents
<1>4. DetachTypeOK'
  <2>1. At' \in ExamplePlaces /\ daemon_pc' \notin {"syslog", "sigaction", "fork_1", "setsid", "fork_2"}
    BY <1>1 DEF ExamplePlaces
  <2>2. fd' \in Int /\ -1 <= fd' /\ fd' <= HighestFd /\ (daemon_pc' = "close" => fd' >= 0)
    BY <1>1, <1>3 DEF Descriptors
  <2> QED  BY <1>1, <1>2, <1>3, <2>1, <2>2 DEF DetachInv, DetachTypeOK
<1>5. RoomIsLeft'
  BY <1>1, <1>2, <1>3 DEF DetachInv, RoomIsLeft, Descriptors
<1>6. LoopCloses'
  <2>1. \A n \in Descriptors : n > fd /\ fds[n] # "closed" => n = logfd /\ fds[n] = "log"
    BY <1>1, <1>2 DEF DetachInv, LoopCloses
  <2>2. \A n \in Descriptors : fds'[n] = IF n = fd THEN "closed" ELSE fds[n]
    BY <1>1, <1>3
  <2>3. \A n \in Descriptors : n > fd' => n = fd \/ n > fd
    BY <1>1, <1>3 DEF Descriptors
  <2>4. \A n \in Descriptors : fd = 0 => n > fd'
    BY <1>1 DEF Descriptors
  <2>5. \A n \in Descriptors : n > fd' /\ fds'[n] # "closed" => n = logfd' /\ fds'[n] = "log"
    BY <1>1, <2>1, <2>2, <2>3
  <2> QED  BY <1>1, <2>4, <2>5 DEF LoopCloses, AfterDup, BeforeClose
<1>7. InputIsKept'
  <2>1. Detach!Std \subseteq inherited => fds[0] = "file" /\ logfd # 0
    BY <1>1, <1>2 DEF DetachInv, InputIsKept
  <2>2. fd # 0 => fds'[0] = fds[0]
    BY <1>1, <1>3 DEF Descriptors
  <2> QED  BY <1>1, <1>2, <2>1, <2>2 DEF InputIsKept, AfterDup, BeforeClose
<1>8. LeadsNothing' /\ CalmIsExact' /\ DaemonizeIsExact' /\ ReasonIsThere'
  BY <1>1, <1>2 DEF DetachInv, LeadsNothing, CalmIsExact, DaemonizeIsExact, ReasonIsThere, AfterDup, BeforeClose
<1> QED  BY <1>4, <1>5, <1>6, <1>7, <1>8 DEF DetachInv

(* The null device gets the lowest descriptor that is closed.              *)
LEMMA OpenKeeps == DetachInv /\ Detach!OpenNull => DetachInv'
<1> SUFFICES ASSUME DetachInv, Detach!OpenNull PROVE DetachInv'
  OBVIOUS
<1> USE DetachAssumption
<1> DEFINE low == Detach!Lowest(fds)
<1>1. /\ At = "open" /\ daemon_pc = "open" /\ fds' = [fds EXCEPT ![low] = "null"]
      /\ fd' = (IF Detach!Example THEN fd ELSE low)
      /\ UNCHANGED <<program, leader, inherited, logfd, daemon_caught, t, arrived, calm, refused>>
      /\ \/ /\ Detach!Example /\ low # 0
            /\ At' = "failed" /\ daemon_pc' = "syslog" /\ after' = "failed"
         \/ /\ ~(Detach!Example /\ low # 0)
            /\ At' = (IF Detach!Example THEN "dup2_1" ELSE "dup2_0") /\ daemon_pc' = At'
  BY Goes, Says DEF Detach!OpenNull, At
<1>2. /\ low \in Descriptors /\ fds[low] = "closed"
      /\ \A n \in Descriptors : fds[n] = "closed" => low <= n
  BY <1>1, RoomForLog, LowestIsClosed DEF DetachInv, DetachTypeOK
<1> HIDE DEF low
<1>3. Detach!Example' <=> Detach!Example
  BY <1>1 DEF Detach!Example
<1>4. Detach!Example => low <= 1 /\ (low # 0 => logfd = 0)
  <2> SUFFICES ASSUME Detach!Example PROVE low <= 1 /\ (low # 0 => logfd = 0)
    OBVIOUS
  <2>1. \A n \in Descriptors : fds[n] # "closed" => n = logfd
    BY <1>1 DEF DetachInv, LoopCloses
  <2>2. 0 \in Descriptors /\ 1 \in Descriptors
    BY DEF Descriptors
  <2> QED  BY <1>2, <2>1, <2>2 DEF Descriptors
<1>5. fds' \in [Descriptors -> Contents] /\ fds'[low] = "null" /\ \A n \in Descriptors \ {low} : fds'[n] = fds[n]
  BY <1>1, <1>2 DEF DetachInv, DetachTypeOK, Contents
<1>6. DetachTypeOK'
  <2>1. At' \in (IF Detach!Example THEN ExamplePlaces ELSE FanPlaces \ {"sigaction"})
    BY <1>1 DEF ExamplePlaces, FanPlaces, Dups
  <2>2. fd' \in Int /\ -1 <= fd' /\ fd' <= HighestFd
    BY <1>1, <1>2 DEF DetachInv, DetachTypeOK, Descriptors
  <2>3. daemon_pc' \in {"syslog", "dup2_1", "dup2_0"} /\ (daemon_pc' = "syslog" => after' = "failed")
    BY <1>1
  <2> QED  BY <1>1, <1>3, <1>5, <2>1, <2>2, <2>3 DEF DetachInv, DetachTypeOK
<1>7. RoomIsLeft'
  <2>1. \A n \in 4 .. HighestFd : n \in Descriptors /\ (fds[n] # "closed" => n = logfd)
    BY <1>1 DEF DetachInv, RoomIsLeft, Descriptors, Dups
  <2>2. CASE Detach!Example
    BY <1>1, <1>4, <1>5, <2>1, <2>2, <1>2 DEF RoomIsLeft, Descriptors
  <2>3. CASE ~Detach!Example
    BY <1>1, <1>3, <1>5, <2>1, <2>3 DEF RoomIsLeft, Dups
  <2> QED  BY <2>2, <2>3
<1>8. LoopCloses'
  BY <1>1, <1>3, <1>5 DEF DetachInv, LoopCloses, AfterDup, BeforeClose
<1>9. LeadsNothing'
  BY <1>1 DEF DetachInv, LeadsNothing
<1>10. InputIsKept'
  BY <1>1, <1>2, <1>3, <1>5 DEF DetachInv, InputIsKept, AreNull, AfterDup, BeforeClose, Detach!Std
<1>11. CalmIsExact'
  BY <1>1, <1>2, <1>3, <1>5, NoLogIsNone DEF DetachInv, CalmIsExact, AreNull, AfterDup, BeforeClose, Detach!Std
<1>12. DaemonizeIsExact'
  <2> SUFFICES ASSUME ~Detach!Example PROVE DaemonizeIsExact'
    BY <1>3 DEF DaemonizeIsExact
  <2>1. At' = "dup2_0" /\ fd' = low /\ low \in Descriptors /\ fds'[fd'] = "null"
    BY <1>1, <1>2, <1>5
  <2>2. Detach!Std \subseteq inherited =>
          logfd \notin Detach!Std /\ \A n \in Detach!Std : fds[n] # "closed"
    BY <1>1 DEF DetachInv, DaemonizeIsExact
  <2>3. Detach!Std \subseteq Descriptors
    BY DEF Detach!Std, Descriptors
  <2>4. Detach!Std \subseteq inherited =>
          /\ logfd' \notin Detach!Std /\ fd' \notin Detach!Std
          /\ \A n \in Detach!Std : fds'[n] # "closed"
    BY <1>1, <1>2, <1>5, <2>1, <2>2, <2>3
  <2> QED  BY <1>1, <2>1, <2>4 DEF DaemonizeIsExact
<1>13. ReasonIsThere'
  <2> SUFFICES ASSUME At' = "failed", calm PROVE FALSE
    BY <1>1 DEF ReasonIsThere
  <2>1. logfd = Detach!NoLog /\ logfd = 0
    BY <1>1, <1>4 DEF DetachInv, CalmIsExact
  <2> QED  BY <2>1 DEF Detach!NoLog
<1> QED  BY <1>6, <1>7, <1>8, <1>9, <1>10, <1>11, <1>12, <1>13 DEF DetachInv

(* The null device is copied to the streams.                               *)
LEMMA DupKeeps ==
  ASSUME DetachInv, NEW k \in {0, 1, 2}, NEW x, NEW y,
         \/ k = 0 /\ x = "dup2_0" /\ y = "dup2_1"
         \/ k = 1 /\ x = "dup2_1" /\ y = "dup2_2"
         \/ k = 2 /\ x = "dup2_2" /\ y = (IF Detach!Example THEN "openlog" ELSE "close_null"),
         Detach!Dup2(k, x, y)
  PROVE  DetachInv'
<1> USE DetachAssumption
<1> DEFINE from == IF Detach!Example THEN 0 ELSE fd
<1>1. /\ At = x /\ daemon_pc = x
      /\ UNCHANGED <<program, leader, inherited, logfd, fd, daemon_caught, t, arrived, calm, refused>>
      /\ \/ /\ fds[from] = "closed" /\ UNCHANGED fds
            /\ At' = "failed" /\ daemon_pc' = "syslog" /\ after' = "failed"
         \/ /\ fds[from] # "closed" /\ fds' = [fds EXCEPT ![k] = fds[from]]
            /\ At' = y /\ daemon_pc' = y
  BY Goes, Says DEF Detach!Dup2, At
<1>2. (Detach!Example' <=> Detach!Example) /\ (Detach!Example => k # 0)
  BY <1>1 DEF Detach!Example, DetachInv, DetachTypeOK, ExamplePlaces, BeforeClose, AfterDup
<1>3. k \in Descriptors /\ k \in Detach!Std /\ k < 4 /\ fds \in [Descriptors -> Contents]
      /\ Detach!Std \subseteq Descriptors
  BY DEF Descriptors, Detach!Std, DetachInv, DetachTypeOK
<1>4. /\ Detach!Example => from = 0 /\ from \in Descriptors
      /\ ~Detach!Example => from = fd /\ from \in Descriptors /\ fds[from] = "null"
  BY <1>1 DEF DetachInv, DaemonizeIsExact, Dups, Descriptors
<1>5. \/ UNCHANGED fds /\ At' = "failed" /\ daemon_pc' = "syslog" /\ after' = "failed" /\ Detach!Example
         /\ fds[0] = "closed"
      \/ /\ fds'[k] = fds[from] /\ \A n \in Descriptors \ {k} : fds'[n] = fds[n]
         /\ fds' \in [Descriptors -> Contents] /\ fds[from] # "closed"
         /\ At' = y /\ daemon_pc' = y
  BY <1>1, <1>3, <1>4
<1> HIDE DEF from
<1>6. DetachTypeOK'
  <2>1. At' \in (IF Detach!Example THEN ExamplePlaces ELSE FanPlaces \ {"sigaction"})
    BY <1>5 DEF ExamplePlaces, FanPlaces, Dups, AfterDup
  <2>2. fds' \in [Descriptors -> Contents]
    BY <1>3, <1>5
  <2>3. daemon_pc' \notin {"sigaction", "close", "fork_1", "setsid", "fork_2"} /\ (daemon_pc' = "syslog" => after' = "failed")
    BY <1>5
  <2> QED  BY <1>1, <1>2, <2>1, <2>2, <2>3 DEF DetachInv, DetachTypeOK
<1>7. RoomIsLeft'
  <2>1. \A n \in 4 .. HighestFd : n \in Descriptors /\ n # k
    BY <1>3 DEF Descriptors
  <2>2. ~Detach!Example => At' \in Dups \cup {"close_null"}
    BY <1>5 DEF Dups
  <2> QED  BY <1>1, <1>2, <1>5, <2>1, <2>2 DEF DetachInv, RoomIsLeft
<1>8. LoopCloses'
  <2>1. Detach!Example => \A n \in Descriptors : fds'[n] # "file"
    BY <1>1, <1>2, <1>4, <1>5 DEF DetachInv, LoopCloses
  <2>2. At' \notin {"close", "open"} \cup BeforeClose
    BY <1>5 DEF BeforeClose
  <2> QED  BY <1>2, <2>1, <2>2 DEF LoopCloses
<1>9. LeadsNothing'
  BY <1>1, <1>5 DEF DetachInv, LeadsNothing
<1>10. InputIsKept'
  <2>1. At' \notin {"close", "open"} \cup BeforeClose
    BY <1>5 DEF BeforeClose
  <2>2. Detach!Example /\ Detach!Std \subseteq inherited => AreNull(1)
    BY <1>1, <1>2 DEF DetachInv, InputIsKept
  <2>3. Detach!Example /\ AreNull(1) => AreNull(1)'
    BY <1>1, <1>2, <1>3, <1>5 DEF AreNull, Detach!Std
  <2> QED  BY <1>1, <1>2, <2>1, <2>2, <2>3 DEF InputIsKept
<1>11. AreNull(k) /\ k # logfd /\ fds[from] = "null" => AreNull(k + 1)'
  <2> SUFFICES ASSUME AreNull(k), k # logfd, fds[from] = "null", NEW n \in Detach!Std, n < k + 1
               PROVE  fds'[n] = "null" /\ n # logfd'
    BY DEF AreNull
  <2>1. n = k \/ (n < k /\ n # k)
    BY DEF Detach!Std
  <2>2. fds'[k] = fds[from] /\ \A i \in Descriptors \ {k} : fds'[i] = fds[i]
    BY <1>4, <1>5
  <2> QED  BY <1>1, <1>3, <2>1, <2>2 DEF AreNull
<1>12. Detach!Example /\ calm => logfd = Detach!NoLog /\ AreNull(k) /\ fds[0] = "null"
  <2>1. Detach!Example /\ calm => logfd = Detach!NoLog /\ AreNull(k)
    BY <1>1, <1>2 DEF DetachInv, CalmIsExact
  <2> QED  BY <1>2, <2>1 DEF AreNull, Detach!Std
<1>13. CalmIsExact'
  <2> SUFFICES ASSUME Detach!Example, calm PROVE CalmIsExact'
    BY <1>1, <1>2 DEF CalmIsExact
  <2>1. At' = y /\ AreNull(k + 1)' /\ logfd' = Detach!NoLog
    <3>1. k # logfd
      BY <1>3, <1>12, NoLogIsNone
    <3>2. fds[0] # "closed"
      BY <1>12
    <3> QED  BY <1>1, <1>4, <1>5, <1>11, <1>12, <3>1, <3>2
  <2>2. \/ y = "dup2_2" /\ AreNull(2)'
        \/ y = "openlog" /\ AreNull(3)'
    BY <1>2, <2>1
  <2> QED  BY <2>1, <2>2 DEF CalmIsExact, AfterDup, BeforeClose
<1>14. DaemonizeIsExact'
  <2> SUFFICES ASSUME ~Detach!Example PROVE DaemonizeIsExact'
    BY <1>2 DEF DaemonizeIsExact
  <2>1. from = fd /\ fd' = fd /\ fds[fd] = "null" /\ fd \in Descriptors /\ At' = y
    BY <1>1, <1>4, <1>5
  <2>2. fds'[k] = "null" /\ \A i \in Descriptors \ {k} : fds'[i] = fds[i]
    BY <1>5, <2>1
  <2>3. fds'[fd'] = "null"
    BY <2>1, <2>2
  <2>4. Detach!Std \subseteq inherited =>
          /\ logfd \notin Detach!Std /\ fd \notin Detach!Std /\ AreNull(k)
          /\ \A n \in Detach!Std : fds[n] # "closed"
    <3>1. At \in Dups /\ At \notin {"failed", "killed"}
      BY <1>1 DEF Dups
    <3>2. k = 0 => AreNull(k)
      BY DEF AreNull, Detach!Std
    <3> QED  BY <1>1, <3>1, <3>2 DEF DetachInv, DaemonizeIsExact
  <2>5. Detach!Std \subseteq inherited' =>
          /\ logfd' \notin Detach!Std /\ fd' \notin Detach!Std /\ AreNull(k + 1)'
          /\ \A n \in Detach!Std : fds'[n] # "closed"
    BY <1>1, <1>3, <1>11, <2>1, <2>2, <2>4
  <2>6. (At' = "dup2_1" => k = 0) /\ (At' = "dup2_2" => k = 1) /\ (At' = "close_null" => k = 2)
        /\ At' \in {"dup2_1", "dup2_2", "close_null"}
    BY <2>1
  <2> QED  BY <2>1, <2>3, <2>5, <2>6 DEF DaemonizeIsExact
<1>15. ReasonIsThere'
  BY <1>1, <1>5, <1>12 DEF ReasonIsThere
<1> QED  BY <1>6, <1>7, <1>8, <1>9, <1>10, <1>13, <1>14, <1>15 DEF DetachInv

LEMMA CloseNullKeeps == DetachInv /\ Detach!CloseNull => DetachInv'
<1> SUFFICES ASSUME DetachInv, Detach!CloseNull PROVE DetachInv'
  OBVIOUS
<1> USE DetachAssumption
<1>1. /\ At = "close_null" /\ daemon_pc = "close_null" /\ At' = "body" /\ daemon_pc' = "body"
      /\ fds' = (IF fd \in Detach!Std THEN fds ELSE [fds EXCEPT ![fd] = "closed"])
      /\ UNCHANGED <<program, leader, inherited, logfd, fd, daemon_caught, t, arrived, calm, refused>>
  BY Goes DEF Detach!CloseNull, At
<1>2. ~Detach!Example /\ ~Detach!Example'
  BY <1>1 DEF Detach!Example, DetachInv, DetachTypeOK, ExamplePlaces, BeforeClose, AfterDup
<1>3. /\ fds' \in [Descriptors -> Contents]
      /\ \A n \in Descriptors : fds'[n] = fds[n] \/ (n = fd /\ fds'[n] = "closed" /\ fd \notin Detach!Std)
      /\ fd \notin Detach!Std /\ fd \in Descriptors => fds'[fd] = "closed"
  BY <1>1 DEF DetachInv, DetachTypeOK, Contents
<1>4. DetachTypeOK'
  BY <1>1, <1>2, <1>3 DEF DetachInv, DetachTypeOK, FanPlaces
<1>5. RoomIsLeft'
  <2>1. \A n \in 4 .. HighestFd : n \in Descriptors /\ n \notin Detach!Std
    BY DEF Descriptors, Detach!Std
  <2> QED  BY <1>1, <1>3, <2>1 DEF DetachInv, RoomIsLeft
<1>6. LoopCloses' /\ LeadsNothing' /\ InputIsKept' /\ CalmIsExact' /\ ReasonIsThere'
  BY <1>1, <1>2 DEF DetachInv, LoopCloses, LeadsNothing, InputIsKept, CalmIsExact, ReasonIsThere
<1>7. DaemonizeIsExact'
  <2>1. Detach!Std \subseteq inherited =>
          logfd \notin Detach!Std /\ AreNull(3) /\ \A n \in Detach!Std : fds[n] # "closed"
    BY <1>1, <1>2 DEF DetachInv, DaemonizeIsExact
  <2>2. \A n \in Detach!Std : n \in Descriptors /\ fds'[n] = fds[n]
    BY <1>3 DEF Detach!Std, Descriptors
  <2> QED  BY <1>1, <1>2, <2>1, <2>2 DEF DaemonizeIsExact, AreNull, Dups
<1> QED  BY <1>4, <1>5, <1>6, <1>7 DEF DetachInv

LEMMA CloselogKeeps == DetachInv /\ Detach!Closelog => DetachInv'
<1> SUFFICES ASSUME DetachInv, Detach!Closelog PROVE DetachInv'
  OBVIOUS
<1> USE DetachAssumption
<1>1. /\ At = "closelog" /\ daemon_pc = "closelog" /\ At' = "ended" /\ daemon_pc' = "ended"
      /\ fds' = (IF logfd = Detach!NoLog THEN fds ELSE [fds EXCEPT ![logfd] = "closed"])
      /\ logfd' = Detach!NoLog
      /\ UNCHANGED <<program, leader, inherited, fd, daemon_caught, t, arrived, calm, refused>>
  BY Goes DEF Detach!Closelog, At
<1>2. Detach!Example /\ Detach!Example'
  BY <1>1 DEF Detach!Example, DetachInv, DetachTypeOK, FanPlaces, BeforeClose, Dups
<1>3. /\ fds' \in [Descriptors -> Contents]
      /\ \A n \in Descriptors : fds'[n] = (IF n = logfd THEN "closed" ELSE fds[n])
  BY <1>1, NoLogIsNone DEF DetachInv, DetachTypeOK, Contents
<1>4. DetachTypeOK'
  BY <1>1, <1>2, <1>3 DEF DetachInv, DetachTypeOK, ExamplePlaces
<1>5. RoomIsLeft'
  <2>1. \A n \in 4 .. HighestFd : n \in Descriptors
    BY DEF Descriptors
  <2> QED  BY <1>1, <1>2, <1>3, <2>1 DEF DetachInv, RoomIsLeft
<1>6. LoopCloses' /\ InputIsKept' /\ CalmIsExact' /\ DaemonizeIsExact' /\ ReasonIsThere'
  BY <1>1, <1>2 DEF LoopCloses, InputIsKept, CalmIsExact, DaemonizeIsExact, ReasonIsThere, BeforeClose, AfterDup
<1>7. LeadsNothing'
  BY <1>1 DEF DetachInv, LeadsNothing
<1> QED  BY <1>4, <1>5, <1>6, <1>7 DEF DetachInv

(* The log: openlog, and syslog of the program and of its handler.         *)
LEMMA OpenLogKeeps == DetachInv /\ Detach!OpenLog => DetachInv'
<1> SUFFICES ASSUME DetachInv, Detach!OpenLog PROVE DetachInv'
  OBVIOUS
<1>1. /\ At = "openlog" /\ daemon_pc = "openlog"
      /\ UNCHANGED <<program, leader, inherited, fd, daemon_caught, t, arrived, calm, refused>>
      /\ \/ Detach!Example /\ At' = "getpwnam" /\ daemon_pc' = "syslog" /\ after' = "getpwnam"
         \/ ~Detach!Example /\ At' = "fork_1" /\ daemon_pc' = "fork_1"
  BY Goes, Says DEF Detach!OpenLog, At
<1>2. LogMoves
  <2>1. logfd = Detach!NoLog => \E n \in Descriptors : fds[n] = "closed"
    BY <1>1, RoomForLog
  <2> QED  BY <2>1, LogOutcome DEF Detach!OpenLog, DetachInv, DetachTypeOK
<1>3. LogLeads /\ At \notin BeforeClose \cup {"close", "open", "dup2_1", "dup2_2"}
  BY <1>1 DEF LogLeads, AfterDup, BeforeClose
<1>4. RoomIsLeft' /\ LoopCloses' /\ LeadsNothing' /\ InputIsKept' /\ CalmIsExact' /\ DaemonizeIsExact'
  BY <1>1, <1>2, <1>3, LogKeeps
<1>5. ReasonIsThere'
  BY <1>1 DEF ReasonIsThere
<1>6. DetachTypeOK'
  <2>1. Detach!Example' <=> Detach!Example
    BY <1>1 DEF Detach!Example
  <2>2. At' \in (IF Detach!Example THEN ExamplePlaces ELSE FanPlaces \ {"sigaction"})
    BY <1>1 DEF ExamplePlaces, FanPlaces, BeforeClose, AfterDup
  <2>3. fds' \in [Descriptors -> Contents] /\ logfd' \in Descriptors \cup {Detach!NoLog}
    BY <1>2 DEF LogMoves
  <2>4. ~Detach!Example => daemon_caught = 0
    BY DEF DetachInv, DetachTypeOK
  <2> QED  BY <1>1, <2>1, <2>2, <2>3, <2>4 DEF DetachInv, DetachTypeOK
<1> QED  BY <1>4, <1>5, <1>6 DEF DetachInv

LEMMA SyslogKeeps == DetachInv /\ Detach!Syslog => DetachInv'
<1> SUFFICES ASSUME DetachInv, Detach!Syslog PROVE DetachInv'
  OBVIOUS
<1>1. /\ At = after /\ At \in {"failed", "getpwnam", "closelog", "body"}
      /\ At' = At /\ daemon_pc' = At
      /\ UNCHANGED <<program, leader, inherited, fd, daemon_caught, t, arrived, calm, refused>>
  BY DEF Detach!Syslog, At, DetachInv, DetachTypeOK
<1>2. LogMoves
  <2>1. logfd = Detach!NoLog => \E n \in Descriptors : fds[n] = "closed"
    BY <1>1, RoomForLog
  <2> QED  BY <2>1, LogOutcome DEF Detach!Syslog, DetachInv, DetachTypeOK
<1>3. LogLeads /\ At \notin BeforeClose \cup {"close", "open", "dup2_1", "dup2_2"}
  BY <1>1 DEF LogLeads, BeforeClose
<1>4. ~Detach!Example => At \in {"openlog", "failed", "body"}
  BY <1>1 DEF DetachInv, DetachTypeOK, FanPlaces, BeforeClose, Dups
<1>5. RoomIsLeft' /\ LoopCloses' /\ LeadsNothing' /\ InputIsKept' /\ CalmIsExact' /\ DaemonizeIsExact'
  BY <1>1, <1>2, <1>3, <1>4, LogKeeps
<1>6. ReasonIsThere'
  BY <1>1 DEF DetachInv, ReasonIsThere
<1>7. DetachTypeOK'
  <2>1. Detach!Example' <=> Detach!Example
    BY <1>1 DEF Detach!Example
  <2>2. fds' \in [Descriptors -> Contents] /\ logfd' \in Descriptors \cup {Detach!NoLog}
    BY <1>2 DEF LogMoves
  <2>3. ~Detach!Example => daemon_caught = 0
    BY DEF DetachInv, DetachTypeOK
  <2> QED  BY <1>1, <2>1, <2>2, <2>3 DEF DetachInv, DetachTypeOK
<1> QED  BY <1>5, <1>6, <1>7 DEF DetachInv

LEMMA CatchKeeps ==
  ASSUME DetachInv, NEW s \in 1 .. Signals, Detach!Catch(s)
  PROVE  DetachInv'
<1> USE DetachAssumption
<1>1. Detach!Example /\ daemon_caught # 0
  BY DEF Detach!Catch, DetachInv, DetachTypeOK
<1>2. /\ UNCHANGED <<program, leader, inherited, fd, daemon_caught, refused>>
      /\ arrived' \in 0 .. MaxSignals /\ calm' = (calm /\ ~Detach!SetUp)
      /\ daemon_pc \notin {"ended", "failed", "killed", "stuck", "fork_1", "setsid", "fork_2"}
  BY <1>1 DEF Detach!Catch, Detach!Over, DetachInv, DetachTypeOK
<1>3. \/ At' = At /\ daemon_pc' = daemon_pc /\ UNCHANGED after /\ t' = t
      \/ At = "body" /\ At' = "closelog" /\ daemon_pc' = "syslog" /\ after' = "closelog"
         /\ t' \in 0 .. MaxSleep
      \/ At = "body" /\ At' = "body" /\ daemon_pc' = "body" /\ t' \in 0 .. MaxSleep
  <2>1. CASE daemon_pc # "body"
    BY <2>1 DEF Detach!Catch, At
  <2>2. CASE daemon_pc = "body"
    <3>1. PICK left \in 0 .. t - 1 :
            t' = left /\ IF left = 0 THEN Detach!Say("closelog") ELSE Detach!Goto("body")
      BY <2>2 DEF Detach!Catch
    <3>2. t' \in 0 .. MaxSleep
      BY <3>1 DEF DetachInv, DetachTypeOK
    <3>3. At = "body"
      BY <2>2 DEF At
    <3> QED  BY <3>1, <3>2, <3>3, Goes, Says
  <2> QED  BY <2>1, <2>2
<1>4. At \notin {"killed", "fork_1", "setsid", "fork_2"}
  BY <1>2 DEF At, DetachInv, DetachTypeOK
<1>5. LogMoves
  <2>1. logfd = Detach!NoLog => \E n \in Descriptors : fds[n] = "closed"
    BY <1>4, RoomForLog
  <2> QED  BY <2>1, LogOutcome DEF Detach!Catch, DetachInv, DetachTypeOK
<1>6. LogLeads
  BY <1>1, <1>3 DEF LogLeads, AfterDup
<1>7. calm' => calm /\ At \notin BeforeClose \cup {"close", "open", "dup2_1", "dup2_2"}
  BY <1>2, <1>4 DEF Detach!SetUp, At, BeforeClose, DetachInv, DetachTypeOK
<1>8. RoomIsLeft' /\ LoopCloses' /\ LeadsNothing' /\ InputIsKept' /\ CalmIsExact' /\ DaemonizeIsExact'
  BY <1>1, <1>2, <1>5, <1>6, <1>7, LogKeeps
<1>9. ReasonIsThere'
  BY <1>2, <1>3 DEF DetachInv, ReasonIsThere
<1>10. DetachTypeOK'
  <2>1. Detach!Example'
    BY <1>1, <1>2 DEF Detach!Example
  <2>2. fds' \in [Descriptors -> Contents] /\ logfd' \in Descriptors \cup {Detach!NoLog}
    BY <1>5 DEF LogMoves
  <2>3. At' \in ExamplePlaces /\ t' \in 0 .. MaxSleep
    BY <1>1, <1>3 DEF DetachInv, DetachTypeOK, ExamplePlaces, AfterDup
  <2>4. /\ daemon_pc' = "syslog" => after' \in {"failed", "getpwnam", "closelog", "body"}
        /\ daemon_pc' \notin {"fork_1", "setsid", "fork_2"}
        /\ daemon_pc' \in {"sigaction", "close"} => daemon_pc' = daemon_pc
    BY <1>2, <1>3 DEF DetachInv, DetachTypeOK
  <2> QED  BY <1>1, <1>2, <2>1, <2>2, <2>3, <2>4 DEF DetachInv, DetachTypeOK
<1> QED  BY <1>8, <1>9, <1>10 DEF DetachInv

LEMMA KillKeeps ==
  ASSUME DetachInv, NEW s \in 1 .. Signals, Detach!Kill(s) \/ Detach!CatchInside(s)
  PROVE  DetachInv'
<1> USE DetachAssumption
<1>1. /\ UNCHANGED <<program, leader, fds, inherited, logfd, fd, daemon_caught, t, calm, refused>>
      /\ arrived' \in 0 .. MaxSignals /\ At' = daemon_pc'
      /\ \/ daemon_pc' = "killed"
         \/ daemon_pc' = "stuck" /\ daemon_pc \in {"openlog", "syslog", "closelog"} /\ daemon_caught # 0
  BY DEF Detach!Kill, Detach!CatchInside, Detach!Logging, At, DetachInv, DetachTypeOK
<1>2. daemon_pc' = "stuck" => Detach!Example /\ At # "killed"
  BY <1>1 DEF DetachInv, DetachTypeOK, At
<1>3. QuietLeads
  BY <1>1, <1>2 DEF QuietLeads
<1>4. LeadsNothing' /\ ReasonIsThere'
  BY <1>1 DEF LeadsNothing, ReasonIsThere
<1>5. At' \in (IF Detach!Example THEN ExamplePlaces ELSE FanPlaces \ {"sigaction"})
  BY <1>1, <1>2 DEF ExamplePlaces, FanPlaces
<1> QED
  BY <1>1, <1>3, <1>4, <1>5, QuietStep DEF DetachInv, DetachTypeOK, Detach!Example

(* Every step keeps the invariant.                                         *)
LEMMA DetachNext == DetachInv /\ [Detach!Next]_(Detach!vars) => DetachInv'
<1> SUFFICES ASSUME DetachInv, [Detach!Next]_(Detach!vars) PROVE DetachInv'
  OBVIOUS
<1>1. CASE Detach!Step
  <2>1. CASE Detach!Dup2In \/ Detach!Dup2Out \/ Detach!Dup2Err
    BY <2>1, DupKeeps DEF Detach!Dup2In, Detach!Dup2Out, Detach!Dup2Err
  <2> QED
    BY <1>1, <2>1, SyslogKeeps, SessionKeeps, ExampleKeeps, CloseKeeps, OpenKeeps, OpenLogKeeps,
       CloselogKeeps, CloseNullKeeps
    DEF Detach!Step
<1>2. CASE Detach!Failure
  BY <1>2, FailsKeeps DEF Detach!Failure
<1>3. CASE Detach!Report
  BY <1>3, ExampleKeeps
<1>4. CASE \E s \in 1 .. Signals : Detach!Kill(s) \/ Detach!Catch(s) \/ Detach!CatchInside(s)
  BY <1>4, KillKeeps, CatchKeeps
<1>5. CASE UNCHANGED Detach!vars
  BY <1>5
  DEF Detach!vars, DetachInv, DetachTypeOK, RoomIsLeft, LoopCloses, LeadsNothing, InputIsKept, CalmIsExact,
      DaemonizeIsExact, ReasonIsThere, AreNull, At, Detach!Example
<1> QED  BY <1>1, <1>2, <1>3, <1>4, <1>5 DEF Detach!Next

(* Descriptors, handlers, the sleep and the way through the program have   *)
(* their types.                                                            *)
THEOREM DetachTyping == Detach!Spec => []Detach!TypeOK
<1>1. DetachInv => Detach!TypeOK
  BY DetachAssumption
  DEF DetachInv, DetachTypeOK, Detach!TypeOK, Descriptors, Contents, Detach!NoLog
<1> QED  BY <1>1, DetachInit, DetachNext, PTL DEF Detach!Spec

(* In its body a daemon leads no session, has no file of its parent open   *)
(* and reads and writes the null device, as far as nobody has interfered;  *)
(* it gives up only for a reason.                                          *)
THEOREM BodiesAreDetached == Detach!Spec => [](Detach!BodyIsDetached /\ Detach!FailsForAReason)
<1>1. DetachInv => Detach!BodyIsDetached
  <2> SUFFICES ASSUME DetachInv, daemon_pc = "body" PROVE Detach!BodyIsDetached
    BY DEF Detach!BodyIsDetached
  <2>1. At = "body" /\ "body" \in AfterDup /\ DOMAIN fds = Descriptors
    BY DEF At, AfterDup, DetachInv, DetachTypeOK
  <2>2. program # "process" => ~leader
    BY <2>1 DEF DetachInv, DetachTypeOK, LeadsNothing
  <2>3. Detach!Example => \A n \in Descriptors : fds[n] # "file"
    BY <2>1 DEF DetachInv, LoopCloses
  <2>4. calm /\ (Detach!Example \/ Detach!Std \subseteq inherited) => AreNull(3)
    BY <2>1 DEF DetachInv, CalmIsExact, DaemonizeIsExact
  <2>5. Detach!Std \subseteq inherited => AreNull(1) \/ AreNull(3)
    BY <2>1 DEF DetachInv, InputIsKept, DaemonizeIsExact
  <2>6. \A n \in Detach!Std : n \in {0, 1, 2}
    BY DEF Detach!Std
  <2>7. (AreNull(1) => fds[0] = "null") /\ (AreNull(3) => \A n \in Detach!Std : fds[n] = "null")
        /\ (AreNull(3) => fds[0] = "null")
    BY <2>6 DEF AreNull, Detach!Std
  <2> QED  BY <2>1, <2>2, <2>3, <2>4, <2>5, <2>7 DEF Detach!BodyIsDetached
<1>2. DetachInv => Detach!FailsForAReason
  BY DEF DetachInv, ReasonIsThere, Detach!FailsForAReason, At
<1> QED  BY <1>1, <1>2, DetachInit, DetachNext, PTL DEF Detach!Spec

-----------------------------------------------------------------------------
(* The display.                                                            *)

(* What is written consists of characters, which are tuples.               *)
Width(x) == Len(x)

LEMMA TextIs ==
  ASSUME NEW name, NEW value, NEW m \in Nat, NEW b \in Nat
  PROVE  /\ Width(Screen!Text(name, value, m, b)) = m + b
         /\ \A k \in 1 .. m + b : k > m => Screen!Text(name, value, m, b)[k] = Screen!Blank
<1> DEFINE C == {<<name, value, k>> : k \in 1 .. m} \cup {Screen!Blank}
           x == [k \in 1 .. m |-> <<name, value, k>>]
           y == [k \in 1 .. b |-> Screen!Blank]
<1>1. x \in Seq(C) /\ y \in Seq(C) /\ Len(x) = m /\ Len(y) = b
  <2>1. \A k \in 1 .. m : <<name, value, k>> \in C
    OBVIOUS
  <2>2. Screen!Blank \in C
    OBVIOUS
  <2> HIDE DEF C
  <2> QED  BY <2>1, <2>2
<1>2. \A k \in 1 .. b : y[k] = Screen!Blank
  OBVIOUS
<1> HIDE DEF C, x, y
<1>3. Len(x \o y) = m + b /\ \A k \in 1 .. m + b : k > m => (x \o y)[k] = y[k - m]
  BY <1>1
<1>4. Screen!Text(name, value, m, b) = x \o y
  BY DEF Screen!Text, x, y
<1> QED  BY <1>2, <1>3, <1>4 DEF Width

LEMMA StartIs ==
  /\ Width(Screen!StartLines) = 25
  /\ \A r \in Screen!Rows : /\ Screen!StartLines[r + 1] = Screen!Line(r, Screen!BlankLine)
                           /\ Screen!StartLines[r + 10] = Screen!Line(r, Screen!BlankLine)
  /\ Screen!StartLines[9] = Screen!Line(0, <<>>) /\ Screen!StartLines[18] = Screen!Line(0, <<>>)
  /\ \A r \in 0 .. 6 : Screen!StartLines[r + 19] = Screen!InitLines[r + 1]
<1>1. \A k \in 1 .. 25 :
        Screen!StartLines[k] = IF k <= 18 THEN Screen!ClearLines[((k - 1) % 9) + 1] ELSE Screen!InitLines[k - 18]
  BY DEF Screen!StartLines
<1>2. \A k \in 1 .. 9 :
        Screen!ClearLines[k] = IF k <= 8 THEN Screen!Line(k - 1, Screen!BlankLine) ELSE Screen!Line(0, <<>>)
  BY DEF Screen!ClearLines
<1>3. Width(Screen!StartLines) = 25
  BY DEF Width, Screen!StartLines
<1>4. \A r \in Screen!Rows : /\ Screen!StartLines[r + 1] = Screen!Line(r, Screen!BlankLine)
                             /\ Screen!StartLines[r + 10] = Screen!Line(r, Screen!BlankLine)
  <2> SUFFICES ASSUME NEW r \in Screen!Rows
               PROVE  /\ Screen!StartLines[r + 1] = Screen!Line(r, Screen!BlankLine)
                      /\ Screen!StartLines[r + 10] = Screen!Line(r, Screen!BlankLine)
    OBVIOUS
  <2>1. /\ r + 1 \in 1 .. 25 /\ r + 10 \in 1 .. 25 /\ r + 10 <= 18 /\ r + 1 <= 18 /\ r + 1 <= 8
        /\ (((r + 1) - 1) % 9) + 1 = r + 1 /\ (((r + 10) - 1) % 9) + 1 = r + 1 /\ r + 1 \in 1 .. 9
        /\ (r + 1) - 1 = r
    BY DEF Screen!Rows
  <2>2. Screen!ClearLines[r + 1] = Screen!Line(r, Screen!BlankLine)
    BY <1>2, <2>1
  <2>3. Screen!StartLines[r + 1] = Screen!ClearLines[r + 1]
    BY <1>1, <2>1
  <2>4. Screen!StartLines[r + 10] = Screen!ClearLines[r + 1]
    BY <1>1, <2>1
  <2> QED  BY <2>2, <2>3, <2>4
<1>5. Screen!StartLines[9] = Screen!Line(0, <<>>) /\ Screen!StartLines[18] = Screen!Line(0, <<>>)
  <2>1. ((9 - 1) % 9) + 1 = 9 /\ ((18 - 1) % 9) + 1 = 9
    OBVIOUS
  <2>2. Screen!ClearLines[9] = Screen!Line(0, <<>>)
    BY <1>2
  <2>3. Screen!StartLines[9] = Screen!ClearLines[((9 - 1) % 9) + 1]
        /\ Screen!StartLines[18] = Screen!ClearLines[((18 - 1) % 9) + 1]
    BY <1>1
  <2> QED  BY <2>1, <2>2, <2>3
<1>6. \A r \in 0 .. 6 : Screen!StartLines[r + 19] = Screen!InitLines[r + 1]
  <2> SUFFICES ASSUME NEW r \in 0 .. 6 PROVE Screen!StartLines[r + 19] = Screen!InitLines[r + 1]
    OBVIOUS
  <2>1. r + 19 \in 1 .. 25 /\ ~ (r + 19 <= 18) /\ (r + 19) - 18 = r + 1
    OBVIOUS
  <2> QED  BY <1>1, <2>1
<1> QED  BY <1>3, <1>4, <1>5, <1>6

Empty == [n \in Screen!Columns |-> Screen!Blank]
On(x) == Screen!Over(Empty, 0, x)

DisplayTypeOK ==
  /\ daemon \in {"init", "ready", "temp", "draw", "idle"}
  /\ drawn \in Nat /\ drawn <= 25 /\ (daemon = "init" => drawn <= 24) /\ (daemon = "draw" => drawn <= 2)
  /\ settings \in {"none", "sent", "lost"} /\ lit \in BOOLEAN
  /\ row \in Screen!Rows /\ col \in Screen!Columns
  /\ DOMAIN ram = Screen!Rows /\ \A r \in Screen!Rows : DOMAIN ram[r] = Screen!Columns
  /\ manual \in BOOLEAN /\ frequency \in Frequencies /\ temp_mc \in Temperatures
  /\ shown \in [manual : BOOLEAN, frequency : Int, temp_mc : Int]
  /\ daemon \in {"temp", "draw", "idle"} => shown.frequency \in Frequencies
  /\ daemon \in {"draw", "idle"} => shown.temp_mc \in Temperatures

(* The rows in f after the first d lines of the start.                     *)
StartRows(d, f) ==
  /\ \A r \in Screen!Rows : d > r /\ (r = 7 \/ d <= r + 18) => f[r] = Empty
  /\ \A r \in 0 .. 6 : d > r + 18 => f[r] = On(Screen!InitLines[r + 1].text)

StartIsDrawn == bus /\ "init" \notin flaws /\ daemon = "init" => StartRows(drawn, ram)

(* The cursor has left the headers for good.                               *)
HeadersStand ==
  bus /\ "init" \notin flaws /\ daemon # "init" =>
    /\ \A r \in {0, 1, 2, 4} : ram[r] = On(Screen!InitLines[r + 1].text)
    /\ ram[7] = Empty /\ row \in {3, 5, 6}

(* What no mode and no temperature below 1000 degrees fills is blank.      *)
RestIsBlank ==
  bus /\ flaws = {} /\ daemon # "init" =>
    /\ \A n \in Screen!Columns : n >= 13 => ram[3][n] = Screen!Blank
    /\ \A n \in Screen!Columns : n >= 11 => ram[5][n] = Screen!Blank

RefreshIsDrawn ==
  bus /\ flaws = {} =>
    /\ (daemon = "draw" /\ drawn > 0) \/ daemon = "idle" => ram[3] = On(Screen!ModeText(shown.manual))
    /\ (daemon = "draw" /\ drawn > 1) \/ daemon = "idle" => ram[5] = On(Screen!TempText(shown.temp_mc))
    /\ daemon = "idle" => Screen!Reads(6, Screen!FreqText(shown.frequency))

(* The settings precede the lines; the last turning is one to on.          *)
PanelIsOn ==
  bus =>
    /\ settings = "none" => daemon = "init" /\ drawn = 0
    /\ "init" \notin flaws /\ settings # "none" => settings = "sent"
    /\ "init" \notin flaws /\ (daemon # "init" \/ drawn >= 18) => lit

DisplayInv ==
  DisplayTypeOK /\ PanelIsOn /\ StartIsDrawn /\ HeadersStand /\ RestIsBlank /\ RefreshIsDrawn

-----------------------------------------------------------------------------
(* Texts: how long they are, and where they are blank.                     *)

LEMMA ModeIs ==
  ASSUME NEW m \in BOOLEAN
  PROVE  Width(Screen!ModeText(m)) = 13
  BY TextIs DEF Screen!ModeText

LEMMA TempIs ==
  ASSUME NEW c \in Temperatures
  PROVE  \E k \in 9 .. 11 :
           /\ Width(Screen!TempText(c)) = k + 2
           /\ \A i \in 1 .. k + 2 : i > k => Screen!TempText(c)[i] = Screen!Blank
<1>1. PICK k \in 9 .. 11 : k = 8 + Screen!Digits(Screen!Degrees(c))
  BY DisplayAssumption
<1> QED  BY <1>1, TextIs DEF Screen!TempText

LEMMA FreqIs ==
  ASSUME NEW f \in Frequencies
  PROVE  Width(Screen!FreqText(f)) \in 9 .. 16
<1>1. PICK k \in 9 .. 16 : k = 8 + Screen!Digits(f)
  BY DisplayAssumption
<1> QED  BY <1>1, TextIs DEF Screen!FreqText

LEMMA BlankIs ==
  /\ Width(Screen!BlankLine) = 16
  /\ \A k \in 1 .. 16 : Screen!BlankLine[k] = Screen!Blank
  BY TextIs DEF Screen!BlankLine

LEMMA InitTexts ==
  \A r \in 0 .. 6 :
    /\ Screen!InitLines[r + 1].row = r
    /\ Width(Screen!InitLines[r + 1].text) \in 0 .. 16
    /\ r = 3 => Width(Screen!InitLines[r + 1].text) = 13
    /\ r = 5 => Width(Screen!InitLines[r + 1].text) = 10
<1>1. \A x \in {"title", "rule"} : Width(Screen!Text(x, 0, 14, 0)) = 14
  BY TextIs
<1>2. Width(Screen!Text("demo", 0, 11, 0)) = 11
  BY TextIs
<1>3. Width(Screen!Text("no_mode", 0, 13, 0)) = 13
  BY TextIs
<1>4. \A x \in {"no_temp", "no_freq"} : Width(Screen!Text(x, 0, 10, 0)) = 10
  BY TextIs
<1>5. /\ Screen!InitLines[1] = Screen!Line(0, Screen!Text("title", 0, 14, 0))
      /\ Screen!InitLines[2] = Screen!Line(1, Screen!Text("demo", 0, 11, 0))
      /\ Screen!InitLines[3] = Screen!Line(2, Screen!Text("rule", 0, 14, 0))
      /\ Screen!InitLines[4] = Screen!Line(3, Screen!Text("no_mode", 0, 13, 0))
      /\ Screen!InitLines[5] = Screen!Line(4, Screen!Text("rule", 0, 14, 0))
      /\ Screen!InitLines[6] = Screen!Line(5, Screen!Text("no_temp", 0, 10, 0))
      /\ Screen!InitLines[7] = Screen!Line(6, Screen!Text("no_freq", 0, 10, 0))
  BY DEF Screen!InitLines, Screen!Headers
<1>6. \A k, x : Screen!Line(k, x).row = k /\ Screen!Line(k, x).text = x
  BY DEF Screen!Line
<1>7. \A r \in 0 .. 6 : r = 0 \/ r = 1 \/ r = 2 \/ r = 3 \/ r = 4 \/ r = 5 \/ r = 6
  OBVIOUS
<1> QED  BY <1>1, <1>2, <1>3, <1>4, <1>5, <1>6, <1>7

(* Lines: what is written over what.                                       *)

LEMMA OverIs ==
  ASSUME NEW f, NEW c \in Screen!Columns, NEW x
  PROVE  /\ DOMAIN Screen!Over(f, c, x) = Screen!Columns
         /\ Screen!Over(f, c, x) = [n \in Screen!Columns |->
              IF (n - c) % 16 < Width(x) THEN x[((n - c) % 16) + 1] ELSE f[n]]
  BY DEF Screen!Over, Width

LEMMA OverZero ==
  ASSUME NEW f, NEW x
  PROVE  Screen!Over(f, 0, x) = [n \in Screen!Columns |-> IF n < Width(x) THEN x[n + 1] ELSE f[n]]
<1>1. \A n \in Screen!Columns : (n - 0) % 16 = n
  BY DEF Screen!Columns
<1> QED  BY <1>1 DEF Screen!Over, Width

LEMMA ClearedIs == \A f : Screen!Over(f, 0, Screen!BlankLine) = Empty
  BY OverZero, BlankIs DEF Empty, Screen!Columns

LEMMA NothingIs == On(<<>>) = Empty
  BY OverZero DEF On, Empty, Width, Screen!Columns

LEMMA ReadsIs ==
  ASSUME NEW x, Width(x) \in 0 .. 16, NEW f, NEW g, g = Screen!Over(f, 0, x)
  PROVE  \A k \in 1 .. Width(x) : g[k - 1] = x[k]
<1> SUFFICES ASSUME NEW k \in 1 .. Width(x) PROVE g[k - 1] = x[k]
  OBVIOUS
<1>1. k - 1 \in Screen!Columns /\ k - 1 < Width(x) /\ (k - 1) + 1 = k
  BY DEF Screen!Columns
<1> QED  BY <1>1, OverZero

(* A text that reaches as far as anything is not blank replaces it.        *)
LEMMA CoversAll ==
  ASSUME NEW x, Width(x) \in Nat, NEW f, \A n \in Screen!Columns : n >= Width(x) => f[n] = Screen!Blank
  PROVE  Screen!Over(f, 0, x) = On(x)
<1>1. \A n \in Screen!Columns :
        (IF n < Width(x) THEN x[n + 1] ELSE f[n]) = (IF n < Width(x) THEN x[n + 1] ELSE Empty[n])
  BY DEF Empty, Screen!Columns
<1> QED  BY <1>1, OverZero DEF On

-----------------------------------------------------------------------------
(* What is drawn next.                                                     *)

LEMMA LineIs == \A k, x : Screen!Line(k, x).row = k /\ Screen!Line(k, x).text = x
  BY DEF Screen!Line

LEMMA NextOfStart ==
  ASSUME DisplayTypeOK, daemon = "init"
  PROVE  /\ Screen!Count = 25
         /\ \/ drawn <= 7 /\ Screen!NextLine = Screen!Line(drawn, Screen!BlankLine)
            \/ drawn \in {8, 17} /\ Screen!NextLine = Screen!Line(0, <<>>)
            \/ drawn \in 9 .. 16 /\ Screen!NextLine = Screen!Line(drawn - 9, Screen!BlankLine)
            \/ drawn \in 18 .. 24 /\ Screen!NextLine = Screen!InitLines[(drawn - 18) + 1]
<1>1. Screen!Count = 25 /\ Screen!NextLine = Screen!StartLines[drawn + 1]
  BY StartIs DEF Screen!Count, Screen!NextLine, Screen!Lines, Width
<1>2. drawn \in 0 .. 24
  BY DEF DisplayTypeOK
<1>3. CASE drawn <= 7
  <2>1. drawn \in Screen!Rows
    BY <1>2, <1>3 DEF Screen!Rows
  <2> QED  BY <1>1, <1>3, <2>1, StartIs
<1>4. CASE drawn \in {8, 17}
  BY <1>1, <1>4, StartIs
<1>5. CASE drawn \in 9 .. 16
  <2>1. drawn - 9 \in Screen!Rows /\ (drawn - 9) + 10 = drawn + 1
    BY <1>5 DEF Screen!Rows
  <2> QED  BY <1>1, <1>5, <2>1, StartIs
<1>6. CASE drawn \in 18 .. 24
  <2>1. drawn - 18 \in 0 .. 6 /\ (drawn - 18) + 19 = drawn + 1
    BY <1>6
  <2> QED  BY <1>1, <1>6, <2>1, StartIs
<1> QED  BY <1>2, <1>3, <1>4, <1>5, <1>6

LEMMA NextOfRefresh ==
  ASSUME DisplayTypeOK, daemon = "draw"
  PROVE  /\ Screen!Count = 3
         /\ \/ drawn = 0 /\ Screen!NextLine = Screen!Line(3, Screen!ModeText(shown.manual))
            \/ drawn = 1 /\ Screen!NextLine = Screen!Line(5, Screen!TempText(shown.temp_mc))
            \/ drawn = 2 /\ Screen!NextLine = Screen!Line(6, Screen!FreqText(shown.frequency))
<1> DEFINE x == Screen!Line(3, Screen!ModeText(shown.manual))
           y == Screen!Line(5, Screen!TempText(shown.temp_mc))
           z == Screen!Line(6, Screen!FreqText(shown.frequency))
<1>1. Screen!Lines = <<x, y, z>>
  BY DEF Screen!Lines, Screen!RefreshLines
<1> HIDE DEF x, y, z
<1>2. Screen!Count = 3 /\ Screen!NextLine = <<x, y, z>>[drawn + 1]
  BY <1>1 DEF Screen!Count, Screen!NextLine
<1>3. drawn = 0 \/ drawn = 1 \/ drawn = 2
  BY DEF DisplayTypeOK
<1> QED  BY <1>2, <1>3 DEF x, y, z

LEMMA NextFits ==
  ASSUME DisplayTypeOK, daemon \in {"init", "draw"}
  PROVE  /\ Screen!NextLine.row \in Screen!Rows /\ Width(Screen!NextLine.text) \in 0 .. 16
         /\ daemon = "draw" => Screen!NextLine.row \in {3, 5, 6}
<1>1. CASE daemon = "init"
  <2>1. Width(<<>>) = 0 /\ Width(Screen!BlankLine) = 16
    BY BlankIs DEF Width
  <2>2. drawn \in 18 .. 24 => drawn - 18 \in 0 .. 6
    BY DEF DisplayTypeOK
  <2>3. \A r \in 0 .. 7 : r \in Screen!Rows
    BY DEF Screen!Rows
  <2>4. drawn \in 0 .. 24
    BY <1>1 DEF DisplayTypeOK
  <2>5. CASE drawn <= 7
    <3>1. Screen!NextLine = Screen!Line(drawn, Screen!BlankLine)
      BY <1>1, <2>4, <2>5, NextOfStart
    <3>2. Screen!NextLine.row = drawn /\ Screen!NextLine.text = Screen!BlankLine
      BY <3>1, LineIs
    <3>3. drawn \in Screen!Rows
      BY <2>4, <2>5 DEF Screen!Rows
    <3> QED  BY <1>1, <2>1, <3>2, <3>3
  <2>6. CASE drawn \in {8, 17}
    <3>1. Screen!NextLine = Screen!Line(0, <<>>)
      BY <1>1, <2>6, NextOfStart
    <3>2. Screen!NextLine.row = 0 /\ Screen!NextLine.text = <<>>
      BY <3>1, LineIs
    <3> QED  BY <1>1, <2>1, <2>3, <3>2
  <2>7. CASE drawn \in 9 .. 16
    <3>1. drawn - 9 \in Screen!Rows
      BY <2>7 DEF Screen!Rows
    <3>2. Screen!NextLine = Screen!Line(drawn - 9, Screen!BlankLine)
      BY <1>1, <2>7, NextOfStart
    <3>3. Screen!NextLine.row = drawn - 9 /\ Screen!NextLine.text = Screen!BlankLine
      BY <3>2, LineIs
    <3> QED  BY <1>1, <2>1, <3>1, <3>3
  <2>8. CASE drawn \in 18 .. 24
    <3>1. PICK r \in 0 .. 6 : r = drawn - 18
      BY <2>2, <2>8
    <3>2. Screen!NextLine = Screen!InitLines[(drawn - 18) + 1]
      BY <1>1, <2>8, NextOfStart
    <3>3. Screen!NextLine.row = r /\ Width(Screen!NextLine.text) \in 0 .. 16
      BY <3>1, <3>2, InitTexts
    <3> QED  BY <1>1, <2>3, <3>3
  <2> QED  BY <2>4, <2>5, <2>6, <2>7, <2>8
<1>2. CASE daemon = "draw"
  <2>1. Width(Screen!ModeText(shown.manual)) = 13
    BY ModeIs DEF DisplayTypeOK
  <2>2. Width(Screen!TempText(shown.temp_mc)) \in 11 .. 13
    <3>1. shown.temp_mc \in Temperatures
      BY <1>2 DEF DisplayTypeOK
    <3> QED  BY <3>1, TempIs
  <2>3. Width(Screen!FreqText(shown.frequency)) \in 9 .. 16
    BY <1>2, FreqIs DEF DisplayTypeOK
  <2>4. {3, 5, 6} \subseteq Screen!Rows
    BY DEF Screen!Rows
  <2> QED  BY <1>2, <2>1, <2>2, <2>3, <2>4, NextOfRefresh, LineIs
<1> QED  BY <1>1, <1>2

(* x is written to row r from column c on.                                 *)
Writes(r, c, x) ==
  /\ row' = r /\ col' \in Screen!Columns /\ DOMAIN ram' = Screen!Rows
  /\ \A n \in Screen!Rows : ram'[n] = IF n = r THEN Screen!Over(ram[r], c, x) ELSE ram[n]

(* Every way in which a line is drawn writes to one row.                   *)
LEMMA DrawnSomewhere ==
  ASSUME DisplayTypeOK, Screen!DrawLine
  PROVE  \/ UNCHANGED flaws /\ Screen!Turn /\ Writes(Screen!NextLine.row, 0, Screen!NextLine.text)
         \/ /\ flaws' = flaws \cup {IF daemon = "init" THEN daemon ELSE "refresh"}
            /\ \E r \in {row, Screen!NextLine.row}, c \in Screen!Columns : \E x : Writes(r, c, x)
<1> DEFINE line == Screen!NextLine
<1>1. daemon \in {"init", "draw"}
  BY DEF Screen!DrawLine
<1>2. line.row \in Screen!Rows /\ Width(line.text) \in Nat /\ row \in Screen!Rows
  BY <1>1, NextFits DEF DisplayTypeOK
<1>3. 0 \in Screen!Columns /\ col % 2 \in Screen!Columns /\ col - (col % 2) \in Screen!Columns
  BY DEF DisplayTypeOK, Screen!Columns
<1>4. \A r \in Screen!Rows, c \in Screen!Columns : \A x : Width(x) \in Nat /\ Screen!Puts(r, c, x) => Writes(r, c, x)
  <2> SUFFICES ASSUME NEW r \in Screen!Rows, NEW c \in Screen!Columns, NEW x, Width(x) \in Nat, Screen!Puts(r, c, x)
               PROVE  Writes(r, c, x)
    OBVIOUS
  <2>1. row' = r /\ col' = (c + Width(x)) % 16 /\ ram' = [ram EXCEPT ![r] = Screen!Over(ram[r], c, x)]
    BY DEF Screen!Puts, Width
  <2>2. col' \in Screen!Columns
    BY <2>1 DEF Screen!Columns
  <2> QED  BY <2>1, <2>2 DEF DisplayTypeOK, Writes
<1>5. \A k \in 1 .. Width(line.text) : Width(Screen!Without(line.text, k)) \in Nat
  <2> SUFFICES ASSUME NEW k \in 1 .. Width(line.text) PROVE Width(Screen!Without(line.text, k)) \in Nat
    OBVIOUS
  <2>1. PICK w \in Nat : w = Width(line.text) - 1
    BY <1>2
  <2>2. Screen!Without(line.text, k) = [i \in 1 .. w |-> IF i < k THEN line.text[i] ELSE line.text[i + 1]]
    BY <2>1 DEF Screen!Without, Width
  <2> QED  BY <2>2 DEF Width
<1> HIDE DEF line
<1>6. \/ UNCHANGED flaws /\ Screen!Turn /\ Screen!Puts(line.row, 0, line.text)
      \/ Screen!Lose /\ Screen!Puts(line.row, 0, line.text)
      \/ Screen!Lose /\ Screen!Puts(row, 0, line.text)
      \/ Screen!Lose /\ Screen!Puts(line.row, col % 2, line.text)
      \/ Screen!Lose /\ Screen!Puts(line.row, col - (col % 2), line.text)
      \/ Screen!Lose /\ \E k \in 1 .. Width(line.text) : Screen!Puts(line.row, 0, Screen!Without(line.text, k))
  BY DEF Screen!DrawLine, Screen!Draw, line, Width
<1>7. Screen!Lose => flaws' = flaws \cup {IF daemon = "init" THEN daemon ELSE "refresh"}
  BY DEF Screen!Lose
<1>8. CASE UNCHANGED flaws /\ Screen!Turn /\ Screen!Puts(line.row, 0, line.text)
  BY <1>2, <1>3, <1>4, <1>8 DEF line
<1>9. CASE Screen!Lose
  <2>1. \/ UNCHANGED flaws /\ Screen!Turn /\ Screen!Puts(line.row, 0, line.text)
        \/ \E r \in {row, line.row}, c \in Screen!Columns : \E x : Width(x) \in Nat /\ Screen!Puts(r, c, x)
    <3>1. \A k \in 1 .. Width(line.text) : Screen!Puts(line.row, 0, Screen!Without(line.text, k)) =>
            \E r \in {row, line.row}, c \in Screen!Columns : \E x : Width(x) \in Nat /\ Screen!Puts(r, c, x)
      BY <1>3, <1>5, Zenon
    <3>2. Screen!Puts(line.row, 0, line.text) \/ Screen!Puts(row, 0, line.text)
          \/ Screen!Puts(line.row, col % 2, line.text) \/ Screen!Puts(line.row, col - (col % 2), line.text) =>
            \E r \in {row, line.row}, c \in Screen!Columns : \E x : Width(x) \in Nat /\ Screen!Puts(r, c, x)
      BY <1>2, <1>3, Zenon
    <3> QED  BY <1>6, <3>1, <3>2, Zenon
  <2>2. (\E r \in {row, line.row}, c \in Screen!Columns : \E x : Width(x) \in Nat /\ Screen!Puts(r, c, x)) =>
          \E r \in {row, line.row}, c \in Screen!Columns : \E x : Writes(r, c, x)
    <3>1. {row, line.row} \subseteq Screen!Rows
      BY <1>2
    <3> QED  BY <1>4, <3>1, Zenon
  <2> QED  BY <1>7, <1>8, <1>9, <2>1, <2>2, Zenon DEF line
<1> QED  BY <1>6, <1>8, <1>9, Zenon

LEMMA DisplayInit == Screen!Init => DisplayInv
<1> SUFFICES ASSUME Screen!Init PROVE DisplayInv
  OBVIOUS
<1>1. DisplayTypeOK
  <2>1. DOMAIN ram = Screen!Rows /\ \A r \in Screen!Rows : DOMAIN ram[r] = Screen!Columns
    BY DEF Screen!Init
  <2>2. daemon = "init" /\ drawn = 0 /\ settings = "none" /\ lit \in BOOLEAN
    BY DEF Screen!Init
  <2>3. row \in Screen!Rows /\ col \in Screen!Columns
    BY DEF Screen!Init, Screen!Rows, Screen!Columns
  <2>4. /\ manual \in BOOLEAN /\ frequency \in Frequencies /\ temp_mc \in Temperatures
        /\ shown \in [manual : BOOLEAN, frequency : Int, temp_mc : Int]
    BY DEF Screen!Init
  <2> QED  BY <2>1, <2>2, <2>3, <2>4 DEF DisplayTypeOK
<1>2. StartIsDrawn
  <2>1. drawn = 0
    BY DEF Screen!Init
  <2> QED  BY <2>1 DEF StartIsDrawn, StartRows, Screen!Rows
<1>3. PanelIsOn
  BY DEF Screen!Init, PanelIsOn
<1> QED  BY <1>1, <1>2, <1>3 DEF Screen!Init, HeadersStand, RestIsBlank, RefreshIsDrawn, DisplayInv

(* A line of the start that gets through.                                  *)
LEMMA StartGoesOn ==
  ASSUME DisplayTypeOK, daemon = "init", StartRows(drawn, ram),
         Writes(Screen!NextLine.row, 0, Screen!NextLine.text)
  PROVE  StartRows(drawn + 1, ram')
<1> DEFINE line == Screen!NextLine
<1>1. drawn \in 0 .. 24
  BY DEF DisplayTypeOK
<1>2. CASE drawn <= 7 \/ drawn \in 9 .. 16
  <2>1. PICK r \in Screen!Rows : line = Screen!Line(r, Screen!BlankLine) /\ (drawn = r \/ drawn = r + 9)
    <3>1. CASE drawn <= 7
      BY <1>1, <3>1, NextOfStart DEF Screen!Rows
    <3>2. CASE drawn \in 9 .. 16
      <4>1. drawn - 9 \in Screen!Rows /\ drawn = (drawn - 9) + 9
        BY <3>2 DEF Screen!Rows
      <4> QED  BY <3>2, <4>1, NextOfStart
    <3> QED  BY <1>2, <3>1, <3>2
  <2>2. \A n \in Screen!Rows : ram'[n] = IF n = r THEN Empty ELSE ram[n]
    BY <2>1, LineIs, ClearedIs DEF Writes
  <2>3. \A n \in 0 .. 6 : ~ (drawn + 1 > n + 18)
    BY <1>1, <1>2
  <2>4. \A n \in Screen!Rows : drawn + 1 > n /\ n # r => drawn > n /\ drawn <= n + 18
    BY <1>1, <1>2, <2>1 DEF Screen!Rows
  <2> QED  BY <2>2, <2>3, <2>4 DEF StartRows
<1>3. CASE drawn \in {8, 17}
  <2>1. line = Screen!Line(0, <<>>)
    BY <1>3, NextOfStart
  <2>2. 0 \in Screen!Rows /\ ram[0] = Empty
    BY <1>3 DEF StartRows, Screen!Rows
  <2>3. \A n \in Screen!Rows : ram'[n] = IF n = 0 THEN Empty ELSE ram[n]
    BY <2>1, <2>2, LineIs, NothingIs DEF Writes, On
  <2>4. \A n \in 0 .. 6 : ~ (drawn + 1 > n + 18)
    BY <1>3
  <2>5. \A n \in Screen!Rows : drawn > n /\ drawn <= n + 18
    BY <1>3 DEF Screen!Rows
  <2> QED  BY <2>3, <2>4, <2>5 DEF StartRows
<1>4. CASE drawn \in 18 .. 24
  <2>1. PICK r \in 0 .. 6 : r = drawn - 18
    BY <1>4
  <2>2. line = Screen!InitLines[r + 1] /\ line.row = r
    <3>1. line = Screen!InitLines[(drawn - 18) + 1]
      BY <1>4, NextOfStart
    <3> HIDE DEF line
    <3> QED  BY <2>1, <3>1, InitTexts
  <2>3. r \in Screen!Rows /\ ram[r] = Empty
    BY <2>1, <1>4 DEF StartRows, Screen!Rows
  <2>4. \A n \in Screen!Rows : ram'[n] = IF n = r THEN On(Screen!InitLines[r + 1].text) ELSE ram[n]
    BY <2>2, <2>3 DEF Writes, On
  <2>5. \A n \in Screen!Rows : drawn + 1 > n /\ (n = 7 \/ drawn + 1 <= n + 18) =>
          n # r /\ drawn > n /\ (n = 7 \/ drawn <= n + 18)
    BY <1>4, <2>1 DEF Screen!Rows
  <2>6. \A n \in 0 .. 6 : n \in Screen!Rows /\ (drawn + 1 > n + 18 => n = r \/ drawn > n + 18)
    BY <1>4, <2>1 DEF Screen!Rows
  <2>7. \A n \in Screen!Rows : drawn + 1 > n /\ (n = 7 \/ drawn + 1 <= n + 18) => ram'[n] = Empty
    BY <2>4, <2>5 DEF StartRows
  <2>8. \A n \in 0 .. 6 : drawn + 1 > n + 18 => ram'[n] = On(Screen!InitLines[n + 1].text)
    BY <2>4, <2>6 DEF StartRows
  <2> QED  BY <2>7, <2>8 DEF StartRows
<1> QED  BY <1>1, <1>2, <1>3, <1>4

(* The last line of the start.                                             *)
LEMMA StartEnds ==
  ASSUME NEW f, StartRows(25, f)
  PROVE  /\ \A r \in {0, 1, 2, 4} : f[r] = On(Screen!InitLines[r + 1].text)
         /\ f[7] = Empty
         /\ \A n \in Screen!Columns : n >= 13 => f[3][n] = Screen!Blank
         /\ \A n \in Screen!Columns : n >= 11 => f[5][n] = Screen!Blank
<1>1. \A r \in 0 .. 6 : 25 > r + 18
  OBVIOUS
<1>2. \A r \in 0 .. 6 : f[r] = On(Screen!InitLines[r + 1].text)
  BY <1>1 DEF StartRows
<1>3. f[7] = Empty
  BY DEF StartRows, Screen!Rows
<1>4. \A x, k : Width(x) = k => \A n \in Screen!Columns : ~ (n < k) => On(x)[n] = Screen!Blank
  BY OverZero DEF On, Empty
<1>5. Width(Screen!InitLines[3 + 1].text) = 13 /\ Width(Screen!InitLines[5 + 1].text) = 10
  BY InitTexts
<1>6. \A n \in Screen!Columns : (n >= 13 => ~ (n < 13)) /\ (n >= 11 => ~ (n < 10))
  BY DEF Screen!Columns
<1>7. f[3] = On(Screen!InitLines[3 + 1].text) /\ f[5] = On(Screen!InitLines[5 + 1].text)
  BY <1>2
<1>8. \A n \in Screen!Columns : n >= 13 => f[3][n] = Screen!Blank
  BY <1>4, <1>5, <1>6, <1>7
<1>9. \A n \in Screen!Columns : n >= 11 => f[5][n] = Screen!Blank
  BY <1>4, <1>5, <1>6, <1>7
<1> QED  BY <1>2, <1>3, <1>8, <1>9

-----------------------------------------------------------------------------
(* The steps.                                                              *)

LEMMA DrawsOn ==
  ASSUME DisplayTypeOK, Screen!DrawNext, daemon \in {"init", "draw"}
  PROVE  /\ drawn' = drawn + 1
         /\ daemon = "init" => (drawn <= 23 /\ daemon' = "init") \/ (drawn = 24 /\ daemon' = "ready")
         /\ daemon = "draw" => (drawn <= 1 /\ daemon' = "draw") \/ (drawn = 2 /\ daemon' = "idle")
<1>1. drawn \in Nat /\ (daemon = "init" => drawn <= 24) /\ (daemon = "draw" => drawn <= 2)
  BY DEF DisplayTypeOK
<1>2. (daemon = "init" => Screen!Count = 25) /\ (daemon = "draw" => Screen!Count = 3)
  BY NextOfStart, NextOfRefresh
<1>3. drawn' = drawn + 1 /\ daemon' = IF drawn + 1 < Screen!Count THEN daemon ELSE IF daemon = "init" THEN "ready" ELSE "idle"
  BY DEF Screen!DrawNext
<1>4. CASE daemon = "init"
  BY <1>1, <1>2, <1>3, <1>4
<1>5. CASE daemon = "draw"
  BY <1>1, <1>2, <1>3, <1>5
<1> QED  BY <1>3, <1>4, <1>5

LEMMA WritesKeep ==
  ASSUME NEW r \in Screen!Rows, NEW c \in Screen!Columns, NEW x, DisplayTypeOK, Writes(r, c, x)
  PROVE  /\ row' \in Screen!Rows /\ col' \in Screen!Columns
         /\ DOMAIN ram' = Screen!Rows /\ \A n \in Screen!Rows : DOMAIN ram'[n] = Screen!Columns
<1>1. DOMAIN Screen!Over(ram[r], c, x) = Screen!Columns
  BY OverIs
<1>2. \A n \in Screen!Rows : ram'[n] = IF n = r THEN Screen!Over(ram[r], c, x) ELSE ram[n]
  BY DEF Writes
<1> QED  BY <1>1, <1>2 DEF Writes, DisplayTypeOK

LEMMA DrawLineKeeps == DisplayInv /\ Screen!DrawLine => DisplayInv'
<1> SUFFICES ASSUME DisplayInv, Screen!DrawLine PROVE DisplayInv'
  OBVIOUS
<1> DEFINE line == Screen!NextLine
           Lossless == UNCHANGED flaws /\ Screen!Turn /\ Writes(line.row, 0, line.text)
<1>1. daemon \in {"init", "draw"} /\ bus /\ bus' /\ Screen!DrawNext /\ DisplayTypeOK
      /\ UNCHANGED <<manual, frequency, temp_mc, shown, settings>> /\ settings # "none"
  BY DEF Screen!DrawLine, Screen!values, DisplayInv
<1>2. /\ drawn' = drawn + 1
      /\ daemon = "init" => (drawn <= 23 /\ daemon' = "init") \/ (drawn = 24 /\ daemon' = "ready")
      /\ daemon = "draw" => (drawn <= 1 /\ daemon' = "draw") \/ (drawn = 2 /\ daemon' = "idle")
  BY <1>1, DrawsOn
<1>3. /\ line.row \in Screen!Rows /\ row \in Screen!Rows /\ 0 \in Screen!Columns
      /\ Width(line.text) \in 0 .. 16 /\ (daemon = "draw" => line.row \in {3, 5, 6})
  BY <1>1, NextFits DEF DisplayTypeOK, Screen!Columns
<1>4. /\ flaws \subseteq flaws'
      /\ Lossless \/ (IF daemon = "init" THEN daemon ELSE "refresh") \in flaws'
      /\ \E r \in {row, line.row}, c \in Screen!Columns : \E x : Writes(r, c, x)
  BY <1>1, <1>3, DrawnSomewhere
<1>17. Screen!Turn \/ UNCHANGED lit
  BY DEF Screen!DrawLine
<1> HIDE DEF line
<1>5. PICK r \in {row, line.row}, c \in Screen!Columns : \E x : Writes(r, c, x)
  BY <1>4
<1>6. DisplayTypeOK'
  <2>1. /\ row' \in Screen!Rows /\ col' \in Screen!Columns
        /\ DOMAIN ram' = Screen!Rows /\ \A n \in Screen!Rows : DOMAIN ram'[n] = Screen!Columns
    BY <1>1, <1>3, <1>5, WritesKeep
  <2>4. lit' \in BOOLEAN
    BY <1>17, <1>1 DEF Screen!Turn, DisplayTypeOK
  <2>2. /\ daemon' \in {"init", "ready", "draw", "idle"}
        /\ drawn' \in Nat /\ drawn' <= 25 /\ (daemon' = "init" => drawn' <= 24) /\ (daemon' = "draw" => drawn' <= 2)
    BY <1>1, <1>2 DEF DisplayTypeOK
  <2>3. daemon' \in {"draw", "idle"} => daemon = "draw"
    BY <1>1, <1>2
  <2> QED  BY <1>1, <2>1, <2>2, <2>3, <2>4 DEF DisplayTypeOK
<1>7. daemon = "init" /\ "init" \notin flaws' => StartRows(drawn + 1, ram')
  <2> SUFFICES ASSUME daemon = "init", "init" \notin flaws' PROVE StartRows(drawn + 1, ram')
    OBVIOUS
  <2>1. Lossless /\ StartRows(drawn, ram)
    BY <1>1, <1>4 DEF DisplayInv, StartIsDrawn
  <2> QED  BY <1>1, <2>1, StartGoesOn DEF line
<1>8. StartIsDrawn'
  BY <1>1, <1>2, <1>7 DEF StartIsDrawn
<1>9. daemon = "init" /\ daemon' # "init" /\ "init" \notin flaws' =>
        /\ \A k \in {0, 1, 2, 4} : ram'[k] = On(Screen!InitLines[k + 1].text)
        /\ ram'[7] = Empty /\ row' = 6
        /\ \A n \in Screen!Columns : n >= 13 => ram'[3][n] = Screen!Blank
        /\ \A n \in Screen!Columns : n >= 11 => ram'[5][n] = Screen!Blank
  <2> SUFFICES ASSUME daemon = "init", daemon' # "init", "init" \notin flaws'
               PROVE  /\ \A k \in {0, 1, 2, 4} : ram'[k] = On(Screen!InitLines[k + 1].text)
                      /\ ram'[7] = Empty /\ row' = 6
                      /\ \A n \in Screen!Columns : n >= 13 => ram'[3][n] = Screen!Blank
                      /\ \A n \in Screen!Columns : n >= 11 => ram'[5][n] = Screen!Blank
    OBVIOUS
  <2>1. drawn = 24 /\ drawn + 1 = 25
    BY <1>1, <1>2
  <2>2. line = Screen!InitLines[6 + 1]
    <3>1. line = Screen!InitLines[(drawn - 18) + 1]
      BY <1>1, <2>1, NextOfStart DEF line
    <3> QED  BY <2>1, <3>1
  <2>3. row' = 6
    BY <1>4, <2>2, InitTexts DEF Writes
  <2>4. StartRows(25, ram')
    BY <1>7, <2>1
  <2> QED  BY <2>3, <2>4, StartEnds
<1>10. daemon = "draw" => daemon' # "init" /\ (daemon' = "draw" \/ daemon' = "idle")
  BY <1>2
<1>11. HeadersStand'
  <2>1. CASE daemon = "init"
    BY <1>9, <2>1 DEF HeadersStand
  <2>2. CASE daemon = "draw"
    <3> SUFFICES ASSUME "init" \notin flaws'
                 PROVE  /\ \A k \in {0, 1, 2, 4} : ram'[k] = On(Screen!InitLines[k + 1].text)
                        /\ ram'[7] = Empty /\ row' \in {3, 5, 6}
      BY DEF HeadersStand
    <3>1. /\ \A k \in {0, 1, 2, 4} : ram[k] = On(Screen!InitLines[k + 1].text)
          /\ ram[7] = Empty /\ row \in {3, 5, 6}
      BY <1>1, <1>4, <2>2 DEF DisplayInv, HeadersStand
    <3>2. r \in {3, 5, 6}
      BY <1>3, <1>5, <2>2, <3>1
    <3>3. \A k \in {0, 1, 2, 4, 7} : k \in Screen!Rows /\ k # r
      BY <3>2 DEF Screen!Rows
    <3> QED  BY <1>5, <3>1, <3>2, <3>3 DEF Writes
  <2> QED  BY <1>1, <2>1, <2>2
<1>12. daemon = "draw" /\ flaws' = {} =>
        /\ Writes(line.row, 0, line.text) /\ flaws = {}
        /\ \A n \in Screen!Columns : n >= 13 => ram[3][n] = Screen!Blank
        /\ \A n \in Screen!Columns : n >= 11 => ram[5][n] = Screen!Blank
  BY <1>1, <1>4 DEF DisplayInv, RestIsBlank
<1>13. daemon = "draw" => shown.manual \in BOOLEAN /\ shown.temp_mc \in Temperatures /\ shown.frequency \in Frequencies
  BY <1>1 DEF DisplayTypeOK
<1>14. daemon = "draw" /\ flaws' = {} =>
        \/ /\ drawn = 0 /\ ram'[3] = On(Screen!ModeText(shown.manual)) /\ ram'[5] = ram[5]
        \/ /\ drawn = 1 /\ ram'[5] = On(Screen!TempText(shown.temp_mc)) /\ ram'[3] = ram[3]
        \/ /\ drawn = 2 /\ Screen!Reads(6, Screen!FreqText(shown.frequency))' /\ ram'[3] = ram[3] /\ ram'[5] = ram[5]
  <2> SUFFICES ASSUME daemon = "draw", flaws' = {}
               PROVE  \/ /\ drawn = 0 /\ ram'[3] = On(Screen!ModeText(shown.manual)) /\ ram'[5] = ram[5]
                      \/ /\ drawn = 1 /\ ram'[5] = On(Screen!TempText(shown.temp_mc)) /\ ram'[3] = ram[3]
                      \/ /\ drawn = 2 /\ Screen!Reads(6, Screen!FreqText(shown.frequency))' /\ ram'[3] = ram[3] /\ ram'[5] = ram[5]
    OBVIOUS
  <2>1. 3 \in Screen!Rows /\ 5 \in Screen!Rows /\ 6 \in Screen!Rows
    BY DEF Screen!Rows
  <2>2. \A n \in Screen!Rows : ram'[n] = IF n = line.row THEN Screen!Over(ram[line.row], 0, line.text) ELSE ram[n]
    BY <1>12 DEF Writes
  <2>3. CASE drawn = 0
    <3>1. line.row = 3 /\ line.text = Screen!ModeText(shown.manual)
      BY <1>1, <2>3, NextOfRefresh, LineIs DEF line
    <3>2. Width(line.text) = 13
      BY <1>13, <3>1, ModeIs
    <3>3. Screen!Over(ram[3], 0, line.text) = On(line.text)
      BY <1>12, <3>2, CoversAll
    <3> QED  BY <2>1, <2>2, <2>3, <3>1, <3>3
  <2>4. CASE drawn = 1
    <3>1. line.row = 5 /\ line.text = Screen!TempText(shown.temp_mc)
      BY <1>1, <2>4, NextOfRefresh, LineIs DEF line
    <3>2. Width(line.text) \in Nat /\ \A n \in Screen!Columns : n >= Width(line.text) => n >= 11
      <4>1. PICK k \in 9 .. 11 : Width(line.text) = k + 2
        BY <1>13, <3>1, TempIs
      <4> QED  BY <4>1 DEF Screen!Columns
    <3>3. Screen!Over(ram[5], 0, line.text) = On(line.text)
      BY <1>12, <3>2, CoversAll
    <3> QED  BY <2>1, <2>2, <2>4, <3>1, <3>3
  <2>5. CASE drawn = 2
    <3>1. line.row = 6 /\ line.text = Screen!FreqText(shown.frequency)
      BY <1>1, <2>5, NextOfRefresh, LineIs DEF line
    <3>2. \A k \in 1 .. Width(line.text) : ram'[6][k - 1] = line.text[k]
      BY <1>3, <2>1, <2>2, <3>1, ReadsIs
    <3>3. Screen!FreqText(shown.frequency)' = line.text
      BY <1>1, <3>1 DEF Screen!FreqText
    <3>4. Screen!Reads(6, Screen!FreqText(shown.frequency))'
      BY <3>2, <3>3 DEF Screen!Reads, Width
    <3> QED  BY <2>1, <2>2, <2>5, <3>1, <3>4
  <2> QED  BY <1>1, <2>3, <2>4, <2>5, NextOfRefresh
<1>15. RestIsBlank'
  <2>1. CASE daemon = "init"
    BY <1>9, <2>1 DEF RestIsBlank
  <2>2. CASE daemon = "draw"
    <3>1. \A n \in Screen!Columns : ~ (n < 13) /\ n >= 13 => On(Screen!ModeText(shown.manual))[n] = Screen!Blank
      BY <1>13, <2>2, ModeIs, OverZero DEF On, Empty
    <3>2. \A n \in Screen!Columns : n >= 11 => On(Screen!TempText(shown.temp_mc))[n] = Screen!Blank
      <4>1. PICK k \in 9 .. 11 :
              /\ Width(Screen!TempText(shown.temp_mc)) = k + 2
              /\ \A i \in 1 .. k + 2 : i > k => Screen!TempText(shown.temp_mc)[i] = Screen!Blank
        BY <1>13, <2>2, TempIs
      <4>2. \A n \in Screen!Columns : n >= 11 /\ n < k + 2 => n + 1 \in 1 .. k + 2 /\ n + 1 > k
        BY <4>1 DEF Screen!Columns
      <4> QED  BY <4>1, <4>2, OverZero DEF On, Empty
    <3>3. \A n \in Screen!Columns : n >= 13 => ~ (n < 13)
      BY DEF Screen!Columns
    <3> QED  BY <1>12, <1>14, <2>2, <3>1, <3>2, <3>3 DEF RestIsBlank
  <2> QED  BY <1>1, <2>1, <2>2
<1>16. RefreshIsDrawn'
  <2>1. CASE daemon = "init"
    BY <1>1, <1>2, <2>1 DEF RefreshIsDrawn
  <2>2. CASE daemon = "draw"
    <3>1. flaws' = {} =>
            /\ drawn > 0 => ram[3] = On(Screen!ModeText(shown.manual))
            /\ drawn > 1 => ram[5] = On(Screen!TempText(shown.temp_mc))
      BY <1>1, <1>12, <2>2 DEF DisplayInv, RefreshIsDrawn
    <3>2. /\ On(Screen!ModeText(shown.manual))' = On(Screen!ModeText(shown.manual))
          /\ On(Screen!TempText(shown.temp_mc))' = On(Screen!TempText(shown.temp_mc))
      BY <1>1 DEF On, Empty, Screen!Over, Screen!ModeText, Screen!TempText
    <3>3. flaws' = {} =>
            /\ ram'[3] = On(Screen!ModeText(shown.manual))
            /\ drawn > 0 => ram'[5] = On(Screen!TempText(shown.temp_mc))
            /\ drawn = 2 => Screen!Reads(6, Screen!FreqText(shown.frequency))'
      BY <1>14, <2>2, <3>1
    <3>4. daemon' = "idle" => drawn = 2
      BY <1>2, <2>2
    <3>5. drawn' > 1 => drawn > 0
      BY <1>1, <1>2 DEF DisplayTypeOK
    <3> QED  BY <2>2, <3>2, <3>3, <3>4, <3>5 DEF RefreshIsDrawn
  <2> QED  BY <1>1, <2>1, <2>2
<1>18. PanelIsOn'
  <2> SUFFICES ASSUME "init" \notin flaws', daemon' # "init" \/ drawn' >= 18 PROVE lit'
    BY <1>1, <1>4 DEF PanelIsOn, DisplayInv
  <2>1. "init" \notin flaws
    BY <1>4
  <2>2. CASE daemon = "init"
    <3>1. Screen!Turn
      BY <1>4, <2>2
    <3>2. drawn = 17 \/ (drawn >= 18 /\ drawn \notin {0, 8, 9, 17})
      BY <1>1, <1>2, <2>2 DEF DisplayTypeOK
    <3> QED  BY <1>1, <2>1, <2>2, <3>1, <3>2 DEF Screen!Turn, Screen!TurnsOff, Screen!TurnsOn, PanelIsOn, DisplayInv
  <2>3. CASE daemon = "draw"
    BY <1>1, <1>17, <2>1, <2>3 DEF Screen!Turn, PanelIsOn, DisplayInv
  <2> QED  BY <1>1, <2>2, <2>3
<1> QED  BY <1>6, <1>8, <1>11, <1>15, <1>16, <1>18 DEF DisplayInv

(* The settings change nothing that is written.                            *)
LEMMA SetUpKeeps == DisplayInv /\ Screen!SetUp => DisplayInv'
<1> SUFFICES ASSUME DisplayInv, Screen!SetUp PROVE DisplayInv'
  OBVIOUS
<1>1. /\ daemon = "init" /\ daemon' = "init" /\ drawn = 0 /\ flaws \subseteq flaws'
      /\ settings' \in {"sent", "lost"} /\ lit' \in BOOLEAN
      /\ settings' = "sent" \/ "init" \in flaws'
      /\ UNCHANGED <<manual, frequency, temp_mc, shown, drawn, bus, row, col, ram>>
  BY DEF Screen!SetUp, Screen!Lose, Screen!values, DisplayInv, PanelIsOn
<1>2. DisplayTypeOK'
  BY <1>1 DEF DisplayInv, DisplayTypeOK
<1>3. PanelIsOn'
  BY <1>1 DEF PanelIsOn
<1>4. StartIsDrawn'
  BY <1>1 DEF DisplayInv, StartIsDrawn, StartRows, On, Empty, Screen!Over
<1>5. HeadersStand' /\ RestIsBlank' /\ RefreshIsDrawn'
  BY <1>1 DEF HeadersStand, RestIsBlank, RefreshIsDrawn
<1> QED  BY <1>2, <1>3, <1>4, <1>5 DEF DisplayInv

LEMMA DrawNothingKeeps == DisplayInv /\ Screen!DrawNothing => DisplayInv'
<1> SUFFICES ASSUME DisplayInv, Screen!DrawNothing PROVE DisplayInv'
  OBVIOUS
<1>1. /\ daemon \in {"init", "draw"} /\ ~bus /\ ~bus' /\ Screen!DrawNext /\ DisplayTypeOK
      /\ UNCHANGED <<manual, frequency, temp_mc, shown, settings, lit, row, col, ram>>
  BY DEF Screen!DrawNothing, Screen!values, Screen!panel, Screen!oled, DisplayInv
<1>2. /\ drawn' = drawn + 1
      /\ daemon = "init" => (drawn <= 23 /\ daemon' = "init") \/ (drawn = 24 /\ daemon' = "ready")
      /\ daemon = "draw" => (drawn <= 1 /\ daemon' = "draw") \/ (drawn = 2 /\ daemon' = "idle")
  BY <1>1, DrawsOn
<1>3. DisplayTypeOK'
  <2>1. /\ daemon' \in {"init", "ready", "draw", "idle"}
        /\ drawn' \in Nat /\ drawn' <= 25 /\ (daemon' = "init" => drawn' <= 24) /\ (daemon' = "draw" => drawn' <= 2)
    BY <1>1, <1>2 DEF DisplayTypeOK
  <2>2. daemon' \in {"draw", "idle"} => daemon = "draw"
    BY <1>1, <1>2
  <2> QED  BY <1>1, <2>1, <2>2 DEF DisplayTypeOK
<1> QED
  BY <1>1, <1>3 DEF DisplayInv, PanelIsOn, StartIsDrawn, HeadersStand, RestIsBlank, RefreshIsDrawn

(* The steps that leave the display as it is.                              *)
LEMMA RestKeeps ==
  ASSUME DisplayInv, DisplayTypeOK', UNCHANGED <<bus, settings, lit, row, col, ram, flaws>>,
         \/ daemon = "init" /\ UNCHANGED <<daemon, drawn>>
         \/ daemon # "init" /\ daemon' = daemon /\ UNCHANGED <<shown, drawn>>
         \/ daemon # "init" /\ daemon' = "temp"
         \/ daemon # "init" /\ daemon' = "draw" /\ drawn' = 0
  PROVE  DisplayInv'
<1>1. StartIsDrawn'
  BY DEF DisplayInv, StartIsDrawn, StartRows, On, Empty, Screen!Over
<1>2. HeadersStand' /\ RestIsBlank'
  BY DEF DisplayInv, HeadersStand, RestIsBlank, On, Empty, Screen!Over
<1>3. RefreshIsDrawn'
  <2>1. CASE daemon # "init" /\ daemon' = daemon /\ UNCHANGED <<shown, drawn>>
    BY <2>1 DEF DisplayInv, RefreshIsDrawn, On, Empty, Screen!Over, Screen!Reads
  <2>2. CASE daemon' \in {"init", "temp"} \/ (daemon' = "draw" /\ drawn' = 0)
    <3>1. drawn' = 0 => ~ (drawn' > 0) /\ ~ (drawn' > 1)
      OBVIOUS
    <3> QED  BY <2>2, <3>1 DEF RefreshIsDrawn
  <2> QED  BY <2>1, <2>2
<1>4. PanelIsOn'
  BY DEF DisplayInv, PanelIsOn
<1> QED  BY <1>1, <1>2, <1>3, <1>4 DEF DisplayInv

LEMMA DisplayNext == DisplayInv /\ [Screen!Next]_(Screen!vars) => DisplayInv'
<1> SUFFICES ASSUME DisplayInv, [Screen!Next]_(Screen!vars) PROVE DisplayInv'
  OBVIOUS
<1> USE DEF Screen!values, Screen!panel, Screen!oled
<1>0. DisplayTypeOK
  BY DEF DisplayInv
<1>1. CASE Screen!DrawLine
  BY <1>1, DrawLineKeeps
<1>2. CASE Screen!DrawNothing
  BY <1>2, DrawNothingKeeps
<1>3. CASE Screen!ReadFrequency
  <2>1. DisplayTypeOK'
    <3>1. shown' = [shown EXCEPT !.frequency = frequency] /\ daemon' = "temp"
      BY <1>3 DEF Screen!ReadFrequency
    <3>2. frequency \in Int /\ frequency \in Frequencies
      BY <1>0, DisplayAssumption DEF DisplayTypeOK
    <3>3. shown' \in [manual : BOOLEAN, frequency : Int, temp_mc : Int] /\ shown'.frequency \in Frequencies
      BY <1>0, <3>1, <3>2 DEF DisplayTypeOK
    <3> QED  BY <1>0, <1>3, <3>1, <3>3 DEF Screen!ReadFrequency, DisplayTypeOK
  <2> QED  BY <1>3, <2>1, RestKeeps DEF Screen!ReadFrequency, Screen!Resting
<1>4. CASE Screen!ReadTemperature
  <2>1. DisplayTypeOK'
    <3>1. /\ shown' = [shown EXCEPT !.temp_mc = temp_mc, !.manual = manual]
          /\ daemon = "temp" /\ daemon' = "draw" /\ drawn' = 0
      BY <1>4 DEF Screen!ReadTemperature
    <3>2. temp_mc \in Int /\ temp_mc \in Temperatures /\ manual \in BOOLEAN
      BY <1>0, DisplayAssumption DEF DisplayTypeOK
    <3>3. /\ shown' \in [manual : BOOLEAN, frequency : Int, temp_mc : Int]
          /\ shown'.temp_mc \in Temperatures /\ shown'.frequency = shown.frequency
      BY <1>0, <3>1, <3>2 DEF DisplayTypeOK
    <3> QED  BY <1>0, <1>4, <3>1, <3>3 DEF Screen!ReadTemperature, DisplayTypeOK
  <2> QED  BY <1>4, <2>1, RestKeeps DEF Screen!ReadTemperature
<1>5. CASE Screen!Change
  <2>1. DisplayTypeOK'
    BY <1>0, <1>5 DEF Screen!Change, DisplayTypeOK
  <2> QED  BY <1>5, <2>1, RestKeeps DEF Screen!Change
<1>6. CASE Screen!ToggleMode
  <2>1. DisplayTypeOK'
    BY <1>0, <1>6 DEF Screen!ToggleMode, DisplayTypeOK
  <2> QED  BY <1>6, <2>1, RestKeeps DEF Screen!ToggleMode, Screen!Resting
<1>7. CASE Screen!Expire
  <2>1. DisplayTypeOK'
    BY <1>0, <1>7 DEF Screen!Expire, DisplayTypeOK
  <2> QED  BY <1>7, <2>1, RestKeeps DEF Screen!Expire
<1>8. CASE UNCHANGED Screen!vars
  <2>1. DisplayTypeOK'
    BY <1>0, <1>8 DEF Screen!vars, DisplayTypeOK
  <2> QED  BY <1>8, <2>1, RestKeeps DEF Screen!vars
<1>9. CASE Screen!SetUp
  BY <1>9, SetUpKeeps
<1> QED
  BY <1>1, <1>2, <1>3, <1>4, <1>5, <1>6, <1>7, <1>8, <1>9 DEF Screen!Next, Screen!DaemonStep

LEMMA DisplayTyping == DisplayInv => Screen!TypeOK
<1> SUFFICES ASSUME DisplayInv PROVE Screen!TypeOK
  OBVIOUS
<1>1. DisplayTypeOK
  BY DEF DisplayInv
<1>2. (daemon = "init" => Screen!Count = 25) /\ (daemon = "draw" => Screen!Count = 3)
  BY <1>1, NextOfStart, NextOfRefresh
<1>3. drawn \in 0 .. IF daemon \in {"init", "draw"} THEN Screen!Count - 1 ELSE 25
  <2>1. CASE daemon = "init"
    BY <1>1, <1>2, <2>1 DEF DisplayTypeOK
  <2>2. CASE daemon = "draw"
    BY <1>1, <1>2, <2>2 DEF DisplayTypeOK
  <2>3. CASE daemon \notin {"init", "draw"}
    BY <1>1, <2>3 DEF DisplayTypeOK
  <2> QED  BY <2>1, <2>2, <2>3
<1> HIDE DEF DisplayInv
<1> QED  BY <1>1, <1>3 DEF DisplayTypeOK, Screen!TypeOK

LEMMA DisplayShows == DisplayInv => Screen!ShownExactly /\ Screen!HeadersStay
<1> SUFFICES ASSUME DisplayInv PROVE Screen!ShownExactly /\ Screen!HeadersStay
  OBVIOUS
<1>1. \A r, x : Screen!Shows(r, x) <=> ram[r] = On(x)
  BY DEF Screen!Shows, On, Empty
<1>5. bus /\ "init" \notin flaws /\ daemon # "init" => Screen!Lit
  BY DEF DisplayInv, PanelIsOn, Screen!Lit
<1>2. Screen!ShownExactly
  BY <1>1, <1>5 DEF DisplayInv, RefreshIsDrawn, Screen!ShownExactly
<1>3. \A h \in 1 .. 4 : \E r \in {0, 1, 2, 4} :
        Screen!Headers[h].row = r /\ Screen!Headers[h].text = Screen!InitLines[r + 1].text
  <2>1. /\ Screen!Headers[1].row = 0 /\ Screen!Headers[2].row = 1 /\ Screen!Headers[3].row = 2
        /\ Screen!Headers[4].row = 4
    BY LineIs DEF Screen!Headers
  <2>2. /\ Screen!InitLines[1] = Screen!Headers[1] /\ Screen!InitLines[2] = Screen!Headers[2]
        /\ Screen!InitLines[3] = Screen!Headers[3] /\ Screen!InitLines[5] = Screen!Headers[4]
    BY DEF Screen!InitLines
  <2>3. \A h \in 1 .. 4 : h = 1 \/ h = 2 \/ h = 3 \/ h = 4
    OBVIOUS
  <2> QED  BY <2>1, <2>2, <2>3
<1>4. Screen!HeadersStay
  BY <1>1, <1>3, <1>5, NothingIs DEF DisplayInv, HeadersStand, Screen!HeadersStay
<1> QED  BY <1>2, <1>4

(* The types of the display.                                               *)
THEOREM DisplayIsTyped == Screen!Spec => []Screen!TypeOK
<1>1. Screen!Spec => []DisplayInv
  BY DisplayInit, DisplayNext, PTL DEF Screen!Spec
<1> QED  BY <1>1, DisplayTyping, PTL

(* Mode and temperature stand alone in their rows after every refresh, for *)
(* every set of frequencies and temperatures that fit, and however often   *)
(* the bus fails the headers stay.                                         *)
THEOREM DisplayIsExact == Screen!Spec => [](Screen!ShownExactly /\ Screen!HeadersStay)
<1>1. Screen!Spec => []DisplayInv
  BY DisplayInit, DisplayNext, PTL DEF Screen!Spec
<1> QED  BY <1>1, DisplayShows, PTL

-----------------------------------------------------------------------------
(* The programs side by side.                                              *)

(* Whichever program runs, each program behaves as its own module says: the*)
(* one that runs takes its steps, the others stutter in an initial state.  *)
THEOREM ProgramsAreTheirOwn ==
  Spec => /\ Pair!Spec /\ Leds!Spec /\ Config!Spec
          /\ Kick!Spec /\ Detach!Spec /\ Screen!Spec
<1>1. Init => Pair!Init /\ Leds!Init /\ Config!Init /\ Kick!Init /\ Detach!Init /\ Screen!Init
  BY DEF Init
<1>2. [Next]_vars => [Pair!Next]_(Pair!vars)
  BY Zenon DEF Next, Run, vars, pair, Pair!vars
<1>3. [Next]_vars => [Leds!Next]_(Leds!vars)
  <2>1. UNCHANGED leds => UNCHANGED Leds!vars
    BY DEF leds, Leds!vars, Leds!buttons, Leds!blinker
  <2>2. [Next]_vars => Leds!Next \/ UNCHANGED leds
    BY Zenon DEF Next, Run, vars
  <2> QED  BY <2>1, <2>2
<1>4. [Next]_vars => [Config!Next]_(Config!vars)
  BY Zenon DEF Next, Run, vars, config, Config!vars
<1>5. [Next]_vars => [Kick!Next]_(Kick!vars)
  BY Zenon DEF Next, Run, vars, kick, Kick!vars
<1>6. [Next]_vars => [Detach!Next]_(Detach!vars)
  BY Zenon DEF Next, Run, vars, detach, Detach!vars
<1>7. [Next]_vars => [Screen!Next]_(Screen!vars)
  BY Zenon DEF Next, Run, vars, screen, Screen!vars, Screen!values, Screen!panel, Screen!oled
<1> QED
  BY <1>1, <1>2, <1>3, <1>4, <1>5, <1>6, <1>7, PTL
  DEF Spec, Pair!Spec, Leds!Spec, Config!Spec, Kick!Spec, Detach!Spec, Screen!Spec

(* The types of every program, for all values of their constants.          *)
THEOREM WorkspaceIsTyped == Spec => []TypeOK
<1> QED
  BY ProgramsAreTheirOwn, PairTyping, LedTyping, ConfigTyping, KickTyping, DetachTyping,
     DisplayIsTyped, PTL DEF TypeOK

(* For all messages and signals, and however reads merge what was written: *)
(* no message is written to a parent that closed its end by itself, and the*)
(* parent logs a part of the conversation in its order, without repeats.   *)
THEOREM ConversationStaysSound == Spec => []ConversationIsSound
<1> QED
  BY ProgramsAreTheirOwn, ChildIsHeard, LogFollowsTheChild, PTL DEF ConversationIsSound

(* For every range and step of the period the buttons that epoll reports at*)
(* the start leave it where it was.                                        *)
THEOREM StartStaysQuiet == Spec => []QuietStart
<1> QED  BY ProgramsAreTheirOwn, StartIsQuiet, PTL DEF QuietStart

(* For any number of files, buffers and messages of exercise 5: faults and *)
(* lost buffers need a race of a write.  In both versions of exercise 7,   *)
(* wherever rmmod or a kthread_run that fails meets the threads: none      *)
(* outlives its module.                                                    *)
THEOREM ModulesStaySound == Spec => []ModulesAreSound
<1> QED  BY ProgramsAreTheirOwn, DeviceIsSound, ThreadsAreSound, PTL DEF ModulesAreSound

(* For tables of descriptors of any size, whichever streams are inherited  *)
(* and with one more file, whatever fails and whenever a signal arrives:   *)
(* the body of a daemon is detached, and no set-up fails without a reason. *)
THEOREM DaemonsStayDetached == Spec => []DaemonsAreDetached
<1> QED  BY ProgramsAreTheirOwn, BodiesAreDetached, PTL DEF DaemonsAreDetached

(* For all frequencies and temperatures that fit in their rows, changing at*)
(* any time: after a refresh without losses the rows of mode and           *)
(* temperature are exact, and whatever is lost later the headers stay.     *)
THEOREM DisplayStaysClean == Spec => []DisplayIsClean
<1> QED  BY ProgramsAreTheirOwn, DisplayIsExact, PTL DEF DisplayIsClean

(* A read that overlaps no write returns what was written last, from the   *)
(* position of its file on, or the end when nothing is left of it, for any *)
(* number of files and messages: the action property of exercise 5.        *)
THEOREM ReadsStayExact == Spec => ReadsAreExact
<1>1. Spec => Config!Spec
  BY ProgramsAreTheirOwn, PTL
<1>2. Config!Spec => []ConfigInv
  BY ConfigInit, ConfigNext, PTL DEF Config!Spec
<1>3. ConfigInv /\ [Config!Next]_(Config!vars) =>
        [\A f \in Files :
           ~raced /\ answer[f] = Pending /\ answer'[f] # Pending => Config!Exact(f)]_vars
  BY ConfigAnswers DEF AnswersAreExact
<1> QED  BY <1>1, <1>2, <1>3, PTL DEF Config!Spec, ReadsAreExact
=============================================================================
