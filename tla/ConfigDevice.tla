----------------------------- MODULE ConfigDevice -----------------------------
(***************************************************************************)
(* src/03_drivers/exercise05/skeleton.c while it is loaded: a character    *)
(* device whose write frees the message and allocates the next one, without*)
(* a lock, and its exit.                                                   *)
(*                                                                         *)
(* The pointer is read again after every call, so an operation that runs at*)
(* the same time changes it under the others.  "fault" collects what goes  *)
(* wrong then.  A buffer whose text is Garbage has no null byte.  A file   *)
(* keeps its position from one read to the next, and a write leaves it.    *)
(***************************************************************************)
EXTENDS Integers, FiniteSets, Sequences

CONSTANTS
  Files,      \* bound: files on the device, each used by one process
  Buffers,    \* bound: what kmalloc can return
  Bytes,      \* bytes other than the null byte
  Messages,   \* what is written, sequences of Bytes
  Nothing,    \* NULL
  Garbage,    \* what is in a buffer without an end
  Pending     \* the answer of a read that has not returned, or failed

VARIABLES
  module,    \* "in", "exit" and "out"
  pc,        \* where each process is; "idle" with an open file
  p,         \* the pointer in a register of each process
  msg,       \* what a process writes, or is about to copy to its reader
  pos,       \* the position of each file
  answer,    \* what the last read returned
  data,      \* chardev_data
  heap,      \* the buffers that are allocated
  text,      \* what is in the buffers
  fault,     \* history: "bad_copy" if a message was not copied, and
             \* "freed_twice", "used_after_free", "null" and "overrun"
  raced,     \* history: a write has run at the same time as a read or a write
  last       \* history: what there is to read; Garbage while it is unknown

vars == <<module, pc, p, msg, pos, answer, data, heap, text, fault, raced, last>>

Reading == {"read", "strlen", "copy_out"}
Writing == {"write", "kfree", "null", "kmalloc", "copy_in", "terminate"}

Goto(f, there) == pc' = [pc EXCEPT ![f] = there]

(* An operation returns: its registers and arguments are gone.             *)
Return(f) ==
  /\ pc' = [pc EXCEPT ![f] = "idle"]
  /\ p' = [p EXCEPT ![f] = Nothing] /\ msg' = [msg EXCEPT ![f] = <<>>]

-----------------------------------------------------------------------------
Init ==
  /\ module = "in" /\ pc = [f \in Files |-> "closed"] /\ p = [f \in Files |-> Nothing]
  /\ msg = [f \in Files |-> <<>>] /\ pos = [f \in Files |-> 0]
  /\ answer = [f \in Files |-> Pending]
  /\ data = Nothing /\ heap = {} /\ text = [b \in Buffers |-> Garbage]
  /\ fault = {} /\ raced = FALSE /\ last = <<>>

Open(f) ==
  /\ module = "in" /\ pc[f] = "closed"
  /\ Goto(f, "idle")
  /\ pos' = [pos EXCEPT ![f] = 0]
  /\ UNCHANGED <<module, p, msg, answer, data, heap, text, fault, raced, last>>

Close(f) ==
  /\ pc[f] = "idle"
  /\ Goto(f, "closed")
  /\ UNCHANGED <<module, p, msg, pos, answer, data, heap, text, fault, raced, last>>

Others(f, where) == \E g \in Files \ {f} : pc[g] \in where

-----------------------------------------------------------------------------
(* chardev_read, of one byte or more.  Bound: after a race, of which the   *)
(* properties say nothing, the operations under way return and that is all.*)

ReadBegin(f) ==
  /\ pc[f] = "idle" /\ ~raced
  /\ Goto(f, "read")
  /\ answer' = [answer EXCEPT ![f] = Pending]
  /\ raced' = (raced \/ Others(f, Writing))
  /\ UNCHANGED <<module, p, msg, pos, data, heap, text, fault, last>>

ReadTest(f) ==
  /\ pc[f] = "read"
  /\ \/ data = Nothing /\ Return(f) /\ answer' = [answer EXCEPT ![f] = <<>>]
     \/ data # Nothing /\ Goto(f, "strlen") /\ UNCHANGED <<p, msg, answer>>
  /\ UNCHANGED <<module, pos, data, heap, text, fault, raced, last>>

(* What goes wrong when b is read.                                         *)
Wrong(b) == IF b = Nothing THEN {"null"}
            ELSE {x \in {"used_after_free"} : b \notin heap} \cup {x \in {"overrun"} : text[b] = Garbage}

TextAt(b) == IF b = Nothing THEN Garbage ELSE text[b]

(* strlen, the test for the end of the file, and how much to copy.  The    *)
(* length of a buffer without an end may be anything.                      *)
ReadLength(f) ==
  /\ pc[f] = "strlen"
  /\ fault' = fault \cup Wrong(data)
  /\ \/ /\ TextAt(data) = Garbage
        /\ msg' = [msg EXCEPT ![f] = Garbage]
        /\ Goto(f, "copy_out")
        /\ UNCHANGED <<p, answer>>
     \/ /\ TextAt(data) # Garbage => pos[f] >= Len(TextAt(data))
        /\ Return(f)
        /\ answer' = [answer EXCEPT ![f] = <<>>]
     \/ /\ TextAt(data) # Garbage
        /\ \E n \in 1 .. Len(TextAt(data)) - pos[f] :
             msg' = [msg EXCEPT ![f] = SubSeq(TextAt(data), pos[f] + 1, pos[f] + n)]
        /\ Goto(f, "copy_out")
        /\ UNCHANGED <<p, answer>>
  /\ UNCHANGED <<module, pos, data, heap, text, raced, last>>

(* What was measured is still in the buffer.                               *)
Measured(f) ==
  /\ msg[f] # Garbage /\ TextAt(data) # Garbage
  /\ pos[f] + Len(msg[f]) <= Len(TextAt(data))
  /\ msg[f] = SubSeq(TextAt(data), pos[f] + 1, pos[f] + Len(msg[f]))

(* Mutant: the position stays where it is.                                 *)
ReadCopyStays(f) ==
  /\ pc[f] = "copy_out"
  /\ answer' = [answer EXCEPT ![f] = IF Measured(f) THEN msg[f] ELSE Garbage]
  /\ fault' = fault \cup (Wrong(data) \ {"overrun"})
  /\ Return(f)
  /\ UNCHANGED <<module, pos, data, heap, text, raced, last>>

(* Garbage has no length: no read follows that its position could matter to. *)
ReadCopy(f) ==
  /\ pc[f] = "copy_out"
  /\ answer' = [answer EXCEPT ![f] = IF Measured(f) THEN msg[f] ELSE Garbage]
  /\ pos' = [pos EXCEPT ![f] = IF msg[f] = Garbage THEN @ ELSE @ + Len(msg[f])]
  /\ fault' = fault \cup (Wrong(data) \ {"overrun"})
  /\ Return(f)
  /\ UNCHANGED <<module, data, heap, text, raced, last>>

ReadFault(f) ==
  /\ pc[f] = "copy_out"
  /\ Return(f)
  /\ UNCHANGED <<module, pos, answer, data, heap, text, fault, raced, last>>

-----------------------------------------------------------------------------
(* chardev_write.                                                          *)

WriteBegin(f, m) ==
  /\ pc[f] = "idle" /\ ~raced
  /\ Goto(f, "write")
  /\ msg' = [msg EXCEPT ![f] = m]
  /\ answer' = [answer EXCEPT ![f] = Pending]
  /\ raced' = (raced \/ Others(f, Reading \cup Writing))
  /\ UNCHANGED <<module, p, pos, data, heap, text, fault, last>>

WriteTest(f) ==
  /\ pc[f] = "write"
  /\ p' = [p EXCEPT ![f] = data]
  /\ Goto(f, IF data = Nothing THEN "kmalloc" ELSE "kfree")
  /\ UNCHANGED <<module, msg, pos, answer, data, heap, text, fault, raced, last>>

Kfree(f) ==
  /\ pc[f] = "kfree"
  /\ heap' = heap \ {p[f]} /\ text' = [text EXCEPT ![p[f]] = Garbage]
  /\ fault' = fault \cup {x \in {"freed_twice"} : p[f] \notin heap}
  /\ Goto(f, "null")
  /\ UNCHANGED <<module, p, msg, pos, answer, data, raced, last>>

Reset(f) ==
  /\ pc[f] = "null"
  /\ data' = Nothing
  /\ last' = <<>>
  /\ Goto(f, "kmalloc")
  /\ UNCHANGED <<module, p, msg, pos, answer, heap, text, fault, raced>>

Kmalloc(f) ==
  /\ pc[f] = "kmalloc"
  /\ \E b \in Buffers \ heap :
       /\ heap' = heap \cup {b} /\ text' = [text EXCEPT ![b] = Garbage]
       /\ data' = b /\ p' = [p EXCEPT ![f] = b]
  /\ last' = Garbage
  /\ Goto(f, "copy_in")
  /\ UNCHANGED <<module, msg, pos, answer, fault, raced>>

KmallocFails(f) ==
  /\ pc[f] = "kmalloc"
  /\ data' = Nothing
  /\ Return(f)
  /\ UNCHANGED <<module, pos, answer, heap, text, fault, raced, last>>

(* What is copied has no null byte before the message is terminated.       *)
WriteCopy(f) ==
  /\ pc[f] = "copy_in"
  /\ text' = [text EXCEPT ![p[f]] = Garbage]
  /\ fault' = fault \cup {x \in {"used_after_free"} : p[f] \notin heap}
  /\ Goto(f, "terminate")
  /\ UNCHANGED <<module, p, msg, pos, answer, data, heap, raced, last>>

(* Mutant: the error path frees the buffer, and the pointer stays.         *)
WriteFaultFrees(f) ==
  /\ pc[f] = "copy_in"
  /\ heap' = heap \ {p[f]}
  /\ fault' = fault \cup {"bad_copy"}
  /\ Return(f)
  /\ UNCHANGED <<module, pos, answer, data, text, raced, last>>

(* copy_from_user fills the rest, one byte at least, with zeros: what was  *)
(* copied is a string, and the new message although the write failed.      *)
WriteFault(f) ==
  /\ pc[f] = "copy_in"
  /\ \E k \in 0 .. Len(msg[f]) - 1 :
       /\ text' = [text EXCEPT ![p[f]] = SubSeq(msg[f], 1, k)]
       /\ last' = SubSeq(msg[f], 1, k)
  /\ fault' = fault \cup {"bad_copy"} \cup {x \in {"used_after_free"} : p[f] \notin heap}
  /\ Return(f)
  /\ UNCHANGED <<module, pos, answer, data, heap, raced>>

(* Mutant: the message is not terminated.                                  *)
WriteEndOpen(f) ==
  /\ pc[f] = "terminate"
  /\ last' = msg[f]
  /\ Return(f)
  /\ UNCHANGED <<module, pos, answer, data, heap, text, fault, raced>>

(* The null byte goes to whatever buffer is the current one.               *)
WriteEnd(f) ==
  /\ pc[f] = "terminate"
  /\ text' = IF data = Nothing THEN text ELSE [text EXCEPT ![data] = msg[f]]
  /\ fault' = fault \cup (Wrong(data) \ {"overrun"})
  /\ last' = msg[f]
  /\ Return(f)
  /\ UNCHANGED <<module, pos, answer, data, heap, raced>>

-----------------------------------------------------------------------------
(* skeleton_exit; the kernel calls it when no file is open.                *)

(* Mutant: the message is not freed.                                       *)
ExitFreeNot ==
  /\ module = "in" /\ \A f \in Files : pc[f] = "closed"
  /\ module' = "exit"
  /\ UNCHANGED <<pc, p, msg, pos, answer, data, heap, text, fault, raced, last>>

ExitFree ==
  /\ module = "in" /\ \A f \in Files : pc[f] = "closed"
  /\ module' = "exit"
  /\ heap' = heap \ {data} /\ data' = Nothing
  /\ fault' = fault \cup {x \in {"freed_twice"} : data \notin heap \cup {Nothing}}
  /\ UNCHANGED <<pc, p, msg, pos, answer, text, raced, last>>

ExitDel ==
  /\ module = "exit"
  /\ module' = "out"
  /\ UNCHANGED <<pc, p, msg, pos, answer, data, heap, text, fault, raced, last>>

-----------------------------------------------------------------------------
FileStep(f) ==
  \/ Open(f) \/ Close(f) \/ ReadBegin(f) \/ ReadTest(f) \/ ReadLength(f) \/ ReadCopy(f)
  \/ ReadFault(f) \/ WriteTest(f) \/ Kfree(f) \/ Reset(f) \/ Kmalloc(f) \/ KmallocFails(f)
  \/ WriteCopy(f) \/ WriteFault(f) \/ WriteEnd(f) \/ \E m \in Messages : WriteBegin(f, m)

Next == (\E f \in Files : FileStep(f)) \/ ExitFree \/ ExitDel

Spec == Init /\ [][Next]_vars

-----------------------------------------------------------------------------
TypeOK ==
  /\ module \in {"in", "exit", "out"}
  /\ pc \in [Files -> Reading \cup Writing \cup {"idle", "closed"}]
  /\ heap \subseteq Buffers /\ data \in Buffers \cup {Nothing}
  /\ text \in [Buffers -> {Garbage} \cup Seq(Bytes)] /\ pos \in [Files -> Nat]
  /\ fault \subseteq {"bad_copy", "freed_twice", "used_after_free", "null", "overrun"}

(* As long as no write runs together with another operation, nothing is    *)
(* used or freed wrongly, whatever fails: a write that fails half way has  *)
(* left a string, so that strlen never runs on beyond a buffer.            *)
FaultsNeedARace == ~raced => fault \subseteq {"bad_copy"}

(* Then a read returns what it finds of the last message from the position *)
(* of its file on, one byte at least, and nothing only at or beyond the end*)
(* of it; several readers at once do not disturb each other.               *)
Exact(f) ==
  IF pos[f] >= Len(last)
    THEN answer'[f] = <<>> /\ pos'[f] = pos[f]
    ELSE /\ pos'[f] \in pos[f] + 1 .. Len(last)
         /\ answer'[f] = SubSeq(last, pos[f] + 1, pos'[f])

ReadsAreExact ==
  [][\A f \in Files : ~raced /\ answer[f] = Pending /\ answer'[f] # Pending => Exact(f)]_vars

(* The module takes nothing with it: writes that free and allocate again,  *)
(* also those that fail half way, leave one buffer at most, and exit frees *)
(* it when no file can be opened any more.                                 *)
NothingIsLeaked == ~raced /\ module = "out" => heap = {}
=============================================================================
