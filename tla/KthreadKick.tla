------------------------------ MODULE KthreadKick ------------------------------
(***************************************************************************)
(* The two threads of src/02_modules/exercice07/skeleton.c and of the      *)
(* teacher's solution: one kicks the other every five seconds, and exit    *)
(* stops both.  The solutions differ in who is created and stopped first,  *)
(* in whether a failed kthread_run is noticed, and in how the kick is taken*)
(* back.                                                                   *)
(*                                                                         *)
(* wait_event puts the thread on the queue, tests the condition, and sleeps*)
(* until somebody has woken it since it was put there.  kthread_stop sets a*)
(* flag, wakes the thread and waits for its end.                           *)
(***************************************************************************)
EXTENDS Integers

Threads == {"kicker", "waiter"}

VARIABLES
  solution,    \* "student" or "teacher"
  module,      \* "create_1", "create_2", "in", "stop_1", "join_1", ..., "out", "oops"
  pc,          \* where each thread is
  stop,        \* the threads that are asked to stop
  queued,      \* whether the waiter is on the queue and nobody has woken it
  is_kicked

vars == <<solution, module, pc, stop, queued, is_kicked>>

(* The order in which they are created, and in which they are stopped.     *)
Created == IF solution = "student" THEN <<"kicker", "waiter">> ELSE <<"waiter", "kicker">>
Stopped == <<"kicker", "waiter">>

Goto(t, there) == pc' = [pc EXCEPT ![t] = there]

-----------------------------------------------------------------------------
Init ==
  /\ solution \in {"student", "teacher"}
  /\ module = "create_1"
  /\ pc = [t \in Threads |-> "none"] /\ stop = {}
  /\ queued = FALSE /\ is_kicked = 0

(* skeleton_init.                                                          *)
Create(k, now, next) ==
  /\ module = now
  /\ Goto(Created[k], "created")
  /\ module' = next
  /\ UNCHANGED <<solution, stop, queued, is_kicked>>

Create1 == Create(1, "create_1", "create_2")
Create2 == Create(2, "create_2", "in")

(* The student returns an error, and leaves the first thread running if it *)
(* was the second that failed; the teacher goes on with a bad pointer.     *)
CreateFails(k, now, next) ==
  /\ module = now
  /\ IF solution = "student" THEN module' = "failed" /\ UNCHANGED pc
                             ELSE module' = next /\ Goto(Created[k], "error")
  /\ UNCHANGED <<solution, stop, queued, is_kicked>>

CreateFails1 == CreateFails(1, "create_1", "create_2")
CreateFails2 == CreateFails(2, "create_2", "in")

-----------------------------------------------------------------------------
(* The kernel calls the function of a thread unless it is stopped before.  *)
Start(t) ==
  /\ pc[t] = "created"
  /\ Goto(t, IF t \in stop THEN "ended" ELSE "test")
  /\ UNCHANGED <<solution, module, stop, queued, is_kicked>>

(* Mutant: the thread runs for ever.                                       *)
TestNot(t) ==
  /\ pc[t] = "test"
  /\ Goto(t, IF t = "kicker" THEN "ssleep" ELSE "queue")
  /\ UNCHANGED <<solution, module, stop, queued, is_kicked>>

(* while (!kthread_should_stop())                                          *)
Test(t) ==
  /\ pc[t] = "test"
  /\ Goto(t, CASE t \in stop -> "ended" [] t \notin stop /\ t = "kicker" -> "ssleep"
               [] OTHER -> "queue")
  /\ UNCHANGED <<solution, module, stop, queued, is_kicked>>

(* ssleep is not cut short.                                                *)
Ssleep ==
  /\ pc["kicker"] = "ssleep"
  /\ Goto("kicker", "set")
  /\ UNCHANGED <<solution, module, stop, queued, is_kicked>>

SetKicked ==
  /\ pc["kicker"] = "set"
  /\ is_kicked' = 1
  /\ Goto("kicker", "wake_up")
  /\ UNCHANGED <<solution, module, stop, queued>>

(* Mutant: nobody is woken.                                                *)
WakeUpNot ==
  /\ pc["kicker"] = "wake_up"
  /\ Goto("kicker", "test")
  /\ UNCHANGED <<solution, module, stop, queued, is_kicked>>

WakeUp ==
  /\ pc["kicker"] = "wake_up"
  /\ queued' = FALSE
  /\ Goto("kicker", "test")
  /\ UNCHANGED <<solution, module, stop, is_kicked>>

Queue ==
  /\ pc["waiter"] = "queue"
  /\ queued' = TRUE
  /\ Goto("waiter", "condition")
  /\ UNCHANGED <<solution, module, stop, is_kicked>>

Condition ==
  /\ pc["waiter"] = "condition"
  /\ IF is_kicked # 0 \/ "waiter" \in stop THEN Goto("waiter", "awake") /\ queued' = FALSE
                                           ELSE Goto("waiter", "asleep") /\ UNCHANGED queued
  /\ UNCHANGED <<solution, module, stop, is_kicked>>

Woken ==
  /\ pc["waiter"] = "asleep" /\ ~queued
  /\ Goto("waiter", "queue")
  /\ UNCHANGED <<solution, module, stop, queued, is_kicked>>

(* Mutant: the kick is taken back twice.                                   *)
TakeTwo ==
  /\ pc["waiter"] = "awake"
  /\ is_kicked' = IF solution = "student" THEN 0 ELSE is_kicked - 2
  /\ Goto("waiter", "test")
  /\ UNCHANGED <<solution, module, stop, queued>>

(* The student tests the kick and takes it back; the teacher counts down   *)
(* whatever the reason was to wake up.                                     *)
Take ==
  /\ pc["waiter"] = "awake"
  /\ \/ solution = "student" /\ is_kicked # 0 /\ Goto("waiter", "reset") /\ UNCHANGED is_kicked
     \/ solution = "student" /\ is_kicked = 0 /\ Goto("waiter", "test") /\ UNCHANGED is_kicked
     \/ solution = "teacher" /\ is_kicked' = is_kicked - 1 /\ Goto("waiter", "test")
  /\ UNCHANGED <<solution, module, stop, queued>>

Reset ==
  /\ pc["waiter"] = "reset"
  /\ is_kicked' = 0
  /\ Goto("waiter", "test")
  /\ UNCHANGED <<solution, module, stop, queued>>

-----------------------------------------------------------------------------
(* skeleton_exit.                                                          *)

Unload ==
  /\ module = "in"
  /\ module' = "stop_1"
  /\ UNCHANGED <<solution, pc, stop, queued, is_kicked>>

Stop(k, now, next) ==
  /\ module = now
  /\ IF pc[Stopped[k]] = "error"
     THEN module' = "oops" /\ UNCHANGED <<stop, queued>>
     ELSE /\ module' = next
          /\ stop' = stop \cup {Stopped[k]}
          /\ queued' = (queued /\ Stopped[k] # "waiter")
  /\ UNCHANGED <<solution, pc, is_kicked>>

Stop1 == Stop(1, "stop_1", "join_1")
Stop2 == Stop(2, "stop_2", "join_2")

(* Mutant: kthread_stop does not wait.                                     *)
JoinNot(k, now, next) ==
  /\ module = now
  /\ module' = next
  /\ UNCHANGED <<solution, pc, stop, queued, is_kicked>>

Join(k, now, next) ==
  /\ module = now /\ pc[Stopped[k]] = "ended"
  /\ module' = next
  /\ UNCHANGED <<solution, pc, stop, queued, is_kicked>>

Join1 == Join(1, "join_1", "stop_2")
Join2 == Join(2, "join_2", "out")

-----------------------------------------------------------------------------
KickerStep == Start("kicker") \/ Test("kicker") \/ Ssleep \/ SetKicked \/ WakeUp
WaiterStep ==
  \/ Start("waiter") \/ Test("waiter") \/ Queue \/ Condition \/ Woken \/ Take \/ Reset
ExitStep   == Stop1 \/ Join1 \/ Stop2 \/ Join2

Next ==
  \/ Create1 \/ Create2 \/ CreateFails1 \/ CreateFails2 \/ Unload
  \/ KickerStep \/ WaiterStep \/ ExitStep

Spec == Init /\ [][Next]_vars

(* Both threads and rmmod are scheduled.                                   *)
FairSpec == Spec /\ WF_vars(KickerStep) /\ WF_vars(WaiterStep) /\ WF_vars(ExitStep)

-----------------------------------------------------------------------------
TypeOK ==
  /\ module \in {"create_1", "create_2", "failed", "in", "stop_1", "join_1", "stop_2",
                 "join_2", "out", "oops"}
  /\ pc["kicker"] \in {"none", "error", "created", "test", "ssleep", "set", "wake_up", "ended"}
  /\ pc["waiter"] \in {"none", "error", "created", "test", "queue", "condition", "asleep",
                       "awake", "reset", "ended"}
  /\ is_kicked \in -1 .. 1 /\ stop \subseteq Threads

(* The count of kicks is never taken below zero while the module is used,  *)
(* although the teacher counts down after every wake-up: below zero the    *)
(* condition is true for ever, and the waiter would never sleep again.     *)
NeverBelowZero == is_kicked < 0 => "waiter" \in stop

(* A module that is unloaded leaves no thread behind that would run freed  *)
(* code.                                                                   *)
NobodyRunsOn == module = "out" => \A t \in Threads : pc[t] = "ended"

(* exit ends, wherever the threads are when it begins: each stop reaches a *)
(* thread before it sleeps, or wakes it.                                   *)
ExitEnds == module = "stop_1" ~> module \in {"out", "oops"}

(* Every kick is taken back by a waiter that exists, none is slept through.*)
KicksAreSeen == is_kicked = 1 ~> is_kicked # 1 \/ pc["waiter"] \in {"none", "error", "ended"}
=============================================================================
