----------------------------- MODULE SocketPair -----------------------------
(***************************************************************************)
(* The two processes of                                                    *)
(* src/05_multiprocessing_and_schedulers/exercise_1/main.c: a child that   *)
(* writes its messages to one end of a stream socket pair, a parent that   *)
(* reads them from the other, and signals that may arrive at any time.     *)
(*                                                                         *)
(* fork leaves both ends open in both processes, and the end of file and   *)
(* SIGPIPE depend on who has closed what.  A stream has no boundaries: one *)
(* read returns all that is queued, and the parent compares and prints     *)
(* only up to the first null byte.                                         *)
(***************************************************************************)
EXTENDS Integers, SequencesExt, PairConstants

Processes == {"parent", "child"}
ParentEnd == "sv[0]"
ChildEnd  == "sv[1]"

VARIABLES
  pc,       \* where each process is; "exited" or "killed" at the end
  caught,   \* how many handlers each process has installed
  open,     \* the ends of the pair that each process has open
  queue,    \* what was written to sv[1] and not yet read from sv[0]
  sent,     \* messages the child has written
  logged,   \* messages the parent has printed
  failed    \* history: the processes in which sigaction, read or write has failed

vars == <<pc, caught, open, queue, sent, logged, failed>>

Ended(p)     == pc[p] \in {"exited", "killed"}
Running(p)   == pc[p] # "unborn" /\ ~Ended(p)
Holders(end) == {p \in Processes : end \in open[p]}

(* A process that ends loses its descriptors.                              *)
End(p, how) ==
  /\ pc' = [pc EXCEPT ![p] = how]
  /\ open' = [open EXCEPT ![p] = {}]

Goto(p, there) == pc' = [pc EXCEPT ![p] = there]

Fail(p) == failed' = failed \cup {p}

-----------------------------------------------------------------------------
Init ==
  /\ pc = [parent |-> "socketpair", child |-> "unborn"]
  /\ caught = [p \in Processes |-> 0]
  /\ open = [p \in Processes |-> {}]
  /\ queue = <<>> /\ sent = 0 /\ logged = <<>> /\ failed = {}

Socketpair ==
  /\ pc["parent"] = "socketpair"
  /\ \/ Goto("parent", "fork") /\ open' = [open EXCEPT !["parent"] = {ParentEnd, ChildEnd}]
     \/ End("parent", "exited")
  /\ UNCHANGED <<caught, queue, sent, logged, failed>>

(* The child inherits both ends, and no handlers: there are none yet.      *)
Fork ==
  /\ pc["parent"] = "fork"
  /\ \/ /\ pc' = [parent |-> "close_other", child |-> "close_other"]
        /\ open' = [p \in Processes |-> open["parent"]]
     \/ End("parent", "exited")
  /\ UNCHANGED <<caught, queue, sent, logged, failed>>

(* Mutant: neither process closes the end of the other one.                *)
CloseOtherNot(p) ==
  /\ pc[p] = "close_other"
  /\ Goto(p, "setup_signals")
  /\ UNCHANGED <<caught, open, queue, sent, logged, failed>>

CloseOther(p) ==
  /\ pc[p] = "close_other"
  /\ open' = [open EXCEPT ![p] = @ \ {IF p = "parent" THEN ChildEnd ELSE ParentEnd}]
  /\ Goto(p, "setup_signals")
  /\ UNCHANGED <<caught, queue, sent, logged, failed>>

(* Mutant: one signal too many.                                            *)
SetupSignalMore(p) ==
  /\ pc[p] = "setup_signals" /\ caught[p] <= Len(signals)
  /\ caught' = [caught EXCEPT ![p] = @ + 1]
  /\ UNCHANGED <<pc, open, queue, sent, logged, failed>>

SetupSignal(p) ==
  /\ pc[p] = "setup_signals" /\ caught[p] < Len(signals)
  /\ \/ caught' = [caught EXCEPT ![p] = @ + 1] /\ UNCHANGED <<pc, open, failed>>
     \/ End(p, "exited") /\ Fail(p) /\ UNCHANGED caught
  /\ UNCHANGED <<queue, sent, logged>>

SetupDone(p) ==
  /\ pc[p] = "setup_signals" /\ caught[p] = Len(signals)
  /\ Goto(p, IF p = "parent" THEN "read" ELSE "sleep")
  /\ UNCHANGED <<caught, open, queue, sent, logged, failed>>

(* A caught signal is reported and ignored.  SA_RESTART resumes read and   *)
(* waitpid; sleep is cut short, which a sleep of any length includes.      *)
Kill(p, s) ==
  /\ Running(p) /\ s \notin Range(SubSeq(signals, 1, caught[p]))
  /\ End(p, "killed")
  /\ UNCHANGED <<caught, queue, sent, logged, failed>>

-----------------------------------------------------------------------------
(* child_process.                                                          *)

Sleep ==
  /\ pc["child"] = "sleep"
  /\ Goto("child", IF sent < Len(messages) THEN "write" ELSE "close")
  /\ UNCHANGED <<caught, open, queue, sent, logged, failed>>

Write ==
  /\ pc["child"] = "write" /\ Holders(ParentEnd) # {}
  /\ queue' = Append(queue, messages[sent + 1])
  /\ sent' = sent + 1
  /\ Goto("child", IF messages[sent + 1] = "exit" THEN "close" ELSE "sleep")
  /\ UNCHANGED <<caught, open, logged, failed>>

WriteFails ==
  /\ pc["child"] = "write"
  /\ Goto("child", "close") /\ Fail("child")
  /\ UNCHANGED <<caught, open, queue, sent, logged>>

(* SIGPIPE is not among the signals that are caught.                       *)
WriteBroken ==
  /\ pc["child"] = "write" /\ Holders(ParentEnd) = {}
  /\ End("child", "killed")
  /\ UNCHANGED <<caught, queue, sent, logged, failed>>

ChildClose ==
  /\ pc["child"] = "close"
  /\ End("child", "exited")
  /\ UNCHANGED <<caught, queue, sent, logged, failed>>

-----------------------------------------------------------------------------
(* parent_process.                                                         *)

(* Mutants: the parent stops at the message before the last; what a merged *)
(* read did not show is kept and shown with the message that was.          *)
ReadEarly ==
  /\ pc["parent"] = "read" /\ queue # <<>>
  /\ logged' = Append(logged, Head(queue))
  /\ queue' = <<>>
  /\ Goto("parent", IF Head(queue) \in {"exit", "Bybye"} THEN "close" ELSE "read")
  /\ UNCHANGED <<caught, open, sent, failed>>

ReadAgain ==
  /\ pc["parent"] = "read" /\ queue # <<>>
  /\ logged' = Append(logged, Head(queue))
  /\ queue' = IF Len(queue) > 1 THEN queue ELSE <<>>
  /\ Goto("parent", IF Head(queue) = "exit" THEN "close" ELSE "read")
  /\ UNCHANGED <<caught, open, sent, failed>>

Read ==
  /\ pc["parent"] = "read" /\ queue # <<>>
  /\ logged' = Append(logged, Head(queue))
  /\ queue' = <<>>
  /\ Goto("parent", IF Head(queue) = "exit" THEN "close" ELSE "read")
  /\ UNCHANGED <<caught, open, sent, failed>>

ReadEof ==
  /\ pc["parent"] = "read" /\ queue = <<>> /\ Holders(ChildEnd) = {}
  /\ Goto("parent", "close")
  /\ UNCHANGED <<caught, open, queue, sent, logged, failed>>

ReadFails ==
  /\ pc["parent"] = "read"
  /\ Goto("parent", "close") /\ Fail("parent")
  /\ UNCHANGED <<caught, open, queue, sent, logged>>

ParentClose ==
  /\ pc["parent"] = "close"
  /\ open' = [open EXCEPT !["parent"] = @ \ {ParentEnd}]
  /\ queue' = <<>>
  /\ Goto("parent", "waitpid")
  /\ UNCHANGED <<caught, sent, logged, failed>>

Waitpid ==
  /\ pc["parent"] = "waitpid" /\ Ended("child")
  /\ End("parent", "exited")
  /\ UNCHANGED <<caught, queue, sent, logged, failed>>

-----------------------------------------------------------------------------
Step(p) == CloseOther(p) \/ SetupSignal(p) \/ SetupDone(p)

ParentStep ==
  \/ Socketpair \/ Fork \/ Step("parent") \/ Read \/ ReadEof \/ ReadFails
  \/ ParentClose \/ Waitpid

ChildStep == Step("child") \/ Sleep \/ Write \/ WriteFails \/ WriteBroken \/ ChildClose

Next ==
  \/ ParentStep \/ ChildStep
  \/ \E p \in Processes, s \in Range(signals) \cup Uncaught : Kill(p, s)

Spec == Init /\ [][Next]_vars

(* The scheduler of the system runs both processes; sleep(1) ends.         *)
FairSpec == Spec /\ WF_vars(ParentStep) /\ WF_vars(ChildStep)
-----------------------------------------------------------------------------
TypeOK ==
  /\ pc["parent"] \in {"socketpair", "fork", "close_other", "setup_signals", "read",
                       "close", "waitpid", "exited", "killed"}
  /\ pc["child"] \in {"unborn", "close_other", "setup_signals", "sleep", "write",
                      "close", "exited", "killed"}
  /\ caught \in [Processes -> 0 .. Len(signals)] /\ failed \subseteq Processes
  /\ open \in [Processes -> SUBSET {ParentEnd, ChildEnd}]
  /\ sent \in 0 .. Len(messages)
  /\ queue \in Seq(Range(messages)) /\ logged \in Seq(Range(messages))

(* Only a parent that was killed, or that gave up because sigaction or read*)
(* failed, takes the child with it: one that closes its end by itself has  *)
(* read "exit" or the end of the file, and the child writes no more.       *)
ChildOutlivesClose ==
  pc["child"] = "write" /\ Holders(ParentEnd) = {} =>
    pc["parent"] = "killed" \/ "parent" \in failed

(* The parent logs messages in the order in which the child sent them,     *)
(* none twice, although merged reads may hide some of them.                *)
LogIsInOrder ==
  \E f \in [1 .. Len(logged) -> 1 .. sent] :
    /\ \A k \in 1 .. Len(logged) : logged[k] = messages[f[k]]
    /\ \A j, k \in 1 .. Len(logged) : j < k => f[j] < f[k]

(* Whatever signals arrive, whatever fails and whatever reads merge, nobody*)
(* waits for ever: a parent that misses "exit" in a merged read gets the end of the  *)
(* file, because nobody holds the child's end any more.                    *)
BothEnd == <>(Ended("parent") /\ (Ended("child") \/ pc["child"] = "unborn"))
=============================================================================
