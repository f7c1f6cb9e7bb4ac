---------------------------- MODULE SwitchDriver ----------------------------
(***************************************************************************)
(* The driver that counts button presses,                                  *)
(* src/03_drivers/exercise07/driver/skeleton.c, with the Rust application  *)
(* that waits for it with an edge-triggered epoll, and processes that read *)
(* the device in blocking mode.  The interrupt handler wakes the queue     *)
(* before it counts the interrupt.                                         *)
(***************************************************************************)
EXTENDS Integers, FiniteSets, Functions

CONSTANTS
  Readers,       \* processes that read in blocking mode, again and again
  MaxInterrupts  \* bound: interrupts in a behaviour

ASSUME SwitchAssumption == IsFiniteSet(Readers) /\ MaxInterrupts \in Nat

VARIABLES
  nb_of_interrupts,
  isr,         \* gpio_isr: "idle", "wake" or "inc"
  raised,      \* interrupts that were counted
  cleared,     \* interrupts the application discarded when it started
  lost,        \* interrupts taken by reads that failed with -EFAULT
  app,         \* where the application is
  hooked,      \* is epoll on the wait queue?
  ready,       \* is the device on epoll's ready list?
  total_interrupts,
  reader,      \* where each blocking reader is
  woken,       \* readers made runnable since they announced to sleep
  got          \* what each reader's reads have returned, summed

counters == <<raised, cleared, lost>>
epoll    == <<app, hooked, ready, total_interrupts>>
readers  == <<reader, woken, got>>
vars     == <<nb_of_interrupts, isr, counters, epoll, readers>>

-----------------------------------------------------------------------------
(* gpio_isr.  The three buttons share one interrupt line: the handler does *)
(* not run twice at a time.                                                *)

Interrupt ==
  /\ isr = "idle" /\ raised < MaxInterrupts
  /\ isr' = "wake"
  /\ UNCHANGED <<nb_of_interrupts, counters, epoll, readers>>

(* Mutant: nobody is woken.                                                *)
IsrSilent ==
  /\ isr = "wake"
  /\ isr' = "inc"
  /\ UNCHANGED <<nb_of_interrupts, counters, epoll, readers>>

(* wake_up_interruptible: the readers on the queue, and epoll's callback.  *)
IsrWake ==
  /\ isr = "wake"
  /\ woken' = Readers
  /\ ready' = (ready \/ hooked)
  /\ isr' = "inc"
  /\ UNCHANGED <<nb_of_interrupts, counters, app, hooked, total_interrupts, reader, got>>

(* Mutant: atomic_dec.                                                     *)
IsrDecrement ==
  /\ isr = "inc"
  /\ nb_of_interrupts' = nb_of_interrupts - 1
  /\ raised' = raised + 1
  /\ isr' = "idle"
  /\ UNCHANGED <<cleared, lost, epoll, readers>>

IsrIncrement ==
  /\ isr = "inc"
  /\ nb_of_interrupts' = nb_of_interrupts + 1
  /\ raised' = raised + 1
  /\ isr' = "idle"
  /\ UNCHANGED <<cleared, lost, epoll, readers>>

-----------------------------------------------------------------------------
(* The application: reset, register, then poll and read for ever.          *)

(* Writing 0 to nb_of_interrupts.                                          *)
AppReset ==
  /\ app = "reset"
  /\ nb_of_interrupts' = 0
  /\ cleared' = cleared + nb_of_interrupts
  /\ app' = "register"
  /\ UNCHANGED <<isr, raised, lost, hooked, ready, total_interrupts, readers>>

(* Mutant: skeleton_poll does not call poll_wait.                          *)
AppRegisterUnhooked ==
  /\ app = "register"
  /\ app' = "registered"
  /\ UNCHANGED <<nb_of_interrupts, isr, counters, hooked, ready, total_interrupts, readers>>

(* Registering calls skeleton_poll: first the wait queue, then the mask.   *)
AppRegister ==
  /\ app = "register"
  /\ hooked' = TRUE
  /\ app' = "registered"
  /\ UNCHANGED <<nb_of_interrupts, isr, counters, ready, total_interrupts, readers>>

AppFirstMask ==
  /\ app = "registered"
  /\ ready' = (ready \/ nb_of_interrupts # 0)
  /\ app' = "wait"
  /\ UNCHANGED <<nb_of_interrupts, isr, counters, hooked, total_interrupts, readers>>

(* epoll takes the device off the ready list, then asks skeleton_poll.     *)
AppWake ==
  /\ app = "wait" /\ ready
  /\ ready' = FALSE
  /\ app' = "mask"
  /\ UNCHANGED <<nb_of_interrupts, isr, counters, hooked, total_interrupts, readers>>

AppMask ==
  /\ app = "mask"
  /\ app' = IF nb_of_interrupts # 0 THEN "read" ELSE "wait"
  /\ UNCHANGED <<nb_of_interrupts, isr, counters, hooked, ready, total_interrupts, readers>>

(* A non-blocking read; if another reader was faster it fails with -EAGAIN. *)
(* The application reads into an array of its own: copy_to_user succeeds.  *)
AppRead ==
  /\ app = "read"
  /\ total_interrupts' = total_interrupts + nb_of_interrupts
  /\ nb_of_interrupts' = 0
  /\ app' = "wait"
  /\ UNCHANGED <<isr, counters, hooked, ready, readers>>

-----------------------------------------------------------------------------
(* skeleton_read in blocking mode.                                         *)

(* The value xchg returned is the result of the read; if copy_to_user      *)
(* fails the read ends with -EFAULT, and the counter is empty all the same. *)
Take(r) ==
  /\ nb_of_interrupts' = 0
  /\ \/ /\ got' = [got EXCEPT ![r] = @ + nb_of_interrupts]
        /\ UNCHANGED lost
     \/ /\ lost' = lost + nb_of_interrupts
        /\ UNCHANGED got
  /\ UNCHANGED <<isr, raised, cleared, epoll, woken>>

ReadFirst(r) ==
  /\ reader[r] = "read"
  /\ Take(r)
  /\ reader' = [reader EXCEPT ![r] = IF nb_of_interrupts = 0 THEN "prepare" ELSE "read"]

(* wait_event_interruptible: announce, test, sleep until woken.            *)
WaitPrepare(r) ==
  /\ reader[r] = "prepare"
  /\ woken' = woken \ {r}
  /\ reader' = [reader EXCEPT ![r] = "test"]
  /\ UNCHANGED <<nb_of_interrupts, isr, counters, epoll, got>>

WaitTest(r) ==
  /\ reader[r] = "test"
  /\ reader' = [reader EXCEPT ![r] = IF nb_of_interrupts # 0 THEN "second" ELSE "sleep"]
  /\ UNCHANGED <<nb_of_interrupts, isr, counters, epoll, woken, got>>

WaitWake(r) ==
  /\ reader[r] = "sleep" /\ r \in woken
  /\ reader' = [reader EXCEPT ![r] = "prepare"]
  /\ UNCHANGED <<nb_of_interrupts, isr, counters, epoll, woken, got>>

(* A signal ends the read with -ERESTARTSYS; the reader reads again.       *)
WaitSignal(r) ==
  /\ reader[r] = "sleep"
  /\ reader' = [reader EXCEPT ![r] = "read"]
  /\ UNCHANGED <<nb_of_interrupts, isr, counters, epoll, woken, got>>

(* Mutant: the second xchg only reads.                                     *)
ReadSecondKeeps(r) ==
  /\ reader[r] = "second"
  /\ got' = [got EXCEPT ![r] = @ + nb_of_interrupts]
  /\ reader' = [reader EXCEPT ![r] = "read"]
  /\ UNCHANGED <<nb_of_interrupts, isr, counters, epoll, woken>>

ReadSecond(r) ==
  /\ reader[r] = "second"
  /\ Take(r)
  /\ reader' = [reader EXCEPT ![r] = "read"]

-----------------------------------------------------------------------------
Init ==
  /\ nb_of_interrupts = 0
  /\ isr = "idle" /\ raised = 0 /\ cleared = 0 /\ lost = 0
  /\ app = "reset" /\ hooked = FALSE /\ ready = FALSE /\ total_interrupts = 0
  /\ reader = [r \in Readers |-> "read"]
  /\ woken = {} /\ got = [r \in Readers |-> 0]

IsrStep == IsrWake \/ IsrIncrement

AppStep == AppReset \/ AppRegister \/ AppFirstMask \/ AppWake \/ AppMask \/ AppRead

ReadStep(r) ==
  ReadFirst(r) \/ WaitPrepare(r) \/ WaitTest(r) \/ WaitWake(r) \/ ReadSecond(r)

Next ==
  \/ Interrupt \/ IsrStep \/ AppStep
  \/ \E r \in Readers : ReadStep(r) \/ WaitSignal(r)

Spec == Init /\ [][Next]_vars

(* The handler runs to its end; a runnable process is scheduled.           *)
FairSpec ==
  /\ Spec
  /\ WF_vars(IsrStep) /\ WF_vars(AppStep)
  /\ \A r \in Readers : WF_vars(ReadStep(r))
-----------------------------------------------------------------------------
TypeOK ==
  /\ nb_of_interrupts \in 0 .. MaxInterrupts
  /\ isr \in {"idle", "wake", "inc"}
  /\ raised \in 0 .. MaxInterrupts /\ cleared \in Nat /\ lost \in Nat
  /\ app \in {"reset", "register", "registered", "wait", "mask", "read"}
  /\ hooked \in BOOLEAN /\ ready \in BOOLEAN /\ total_interrupts \in Nat
  /\ reader \in [Readers -> {"read", "prepare", "test", "sleep", "second"}]
  /\ woken \subseteq Readers /\ got \in [Readers -> Nat]

(* No interrupt is reported twice, and none is lost but by a read that     *)
(* failed: what the readers got, the application's total, what it cleared, *)
(* what went with a read that ended with -EFAULT and what is still in the  *)
(* counter add up to the interrupts raised.                                *)
LostToFaultsOnly ==
  raised = nb_of_interrupts + cleared + lost + total_interrupts
             + FoldFunction(LAMBDA x, y : x + y, 0, got)

AppSleeps    == app = "wait" /\ ~ready
Sleeps(r)    == reader[r] = "sleep" /\ r \notin woken

(* An interrupt may go unnoticed, but never two: while the handler is not  *)
(* running, a process that sleeps has missed one interrupt at most.        *)
LateByOne ==
  isr = "idle" /\ (AppSleeps \/ \E r \in Readers : Sleeps(r)) => nb_of_interrupts <= 1

(* So two pending interrupts are always fetched.                           *)
TwoAreFetched == nb_of_interrupts >= 2 ~> nb_of_interrupts = 0

(* "use the poll function to wait for an interrupt to be triggered and be  *)
(* notified when it happens": the application does not sleep while there   *)
(* is something to read.                                                   *)
AppIsNotified == isr = "idle" /\ AppSleeps => nb_of_interrupts = 0
=============================================================================
