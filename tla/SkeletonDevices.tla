-------------------------- MODULE SkeletonDevices ---------------------------
(***************************************************************************)
(* The character driver of src/03_drivers/exercise02_to_03/skeleton.c:     *)
(* devices_number devices, each with a buffer of fixed size that holds one *)
(* message, and the ladder of allocations that loads them.                 *)
(*                                                                         *)
(* A device can be opened as soon as cdev_add has returned, while init     *)
(* goes on with the next one.  read and write take no lock: a write is     *)
(* modelled byte by byte, a read as its strnlen and its copy.              *)
(***************************************************************************)
EXTENDS Integers, Sequences, FiniteSetsExt

CONSTANTS
  devices_number,        \* the parameter of the module
  SKELETON_BUFFER_SIZE,
  Files,                 \* struct files; each serves one call at a time
  Messages               \* what processes write: sequences of non-zero bytes

Nul  == 0
Junk == -1               \* a non-zero byte that kmalloc found in memory

ASSUME SkeletonAssumption ==
  /\ devices_number \in Nat \ {0}
  /\ SKELETON_BUFFER_SIZE \in Nat \ {0}
  /\ Messages \subseteq Seq(Nat \ {0})

Devices == 0 .. (devices_number - 1)
Places  == 0 .. (SKELETON_BUFFER_SIZE - 1)
None    == <<>>          \* a buffer that is not allocated

VARIABLES
  module,   \* "out", "in", or what init acquires next
  i,        \* the loop variable of init
  owned,    \* what init has: the two arrays, the region of numbers, the class
  cdevs,    \* the devices that can be opened
  nodes,    \* the devices that have a node in /dev
  buffers,  \* skeleton_buffers
  pc,       \* of each file: "closed", "opening", "open", "read", "write", or
            \* "dangling" (its buffer and its operations are gone)
  device,   \* the device of a file, and thereby its private_data
  off,      \* the position of a file
  len,      \* bytes a read will copy; bytes a write has copied
  text,     \* the message a file writes, or the one a quiet file must find
  got,      \* what a quiet file has read since its position was 0
  quiet,    \* files on whose device nobody else has written since then
  early     \* files that were opened before init had returned

load  == <<module, i, owned, cdevs, nodes>>
calls == <<pc, device, off, len, text, got, quiet, early>>
vars  == <<load, buffers, calls>>

Writing(d) == {f \in Files : pc[f] = "write" /\ device[f] = d}
Using      == {f \in Files : pc[f] \notin {"closed", "dangling"}}

-----------------------------------------------------------------------------
(* skeleton_init: every acquisition may fail, and has an error path that   *)
(* is a part of the same step.                                             *)

Load ==
  /\ module = "out"
  /\ module' = "devices" /\ i' = 0
  /\ UNCHANGED <<owned, cdevs, nodes, buffers, calls>>

Following == [devices |-> "buffers", buffers |-> "buffer", region |-> "class", class |-> "cdev"]

Acquire ==
  /\ module \in DOMAIN Following
  /\ owned' = owned \cup {module}
  /\ module' = Following[module]
  /\ UNCHANGED <<i, cdevs, nodes, buffers, calls>>

(* The next round of a loop, or what comes after the loop.                 *)
Loop(again, after) ==
  IF i + 1 < devices_number THEN module' = again /\ i' = i + 1
                            ELSE module' = after /\ i' = 0

AllocateBuffer ==
  /\ module = "buffer"
  /\ \E old \in {Nul, Junk} :
       buffers' = [buffers EXCEPT ![i] = [p \in Places |-> IF p = 0 THEN Nul ELSE old]]
  /\ Loop("buffer", "region")
  /\ UNCHANGED <<owned, cdevs, nodes, calls>>

AddCdev ==
  /\ module = "cdev"
  /\ cdevs' = cdevs \cup {i}
  /\ module' = "node"
  /\ UNCHANGED <<i, owned, nodes, buffers, calls>>

CreateNode ==
  /\ module = "node"
  /\ nodes' = nodes \cup {i}
  /\ Loop("cdev", "in")
  /\ UNCHANGED <<owned, cdevs, buffers, calls>>

(* What the error path of each acquisition gives back.                     *)
Released ==
  [devices |-> {},
   buffers |-> {"devices"},
   buffer  |-> {"devices", "buffers"},
   region  |-> {"devices", "buffers"},
   class   |-> {"devices", "buffers", "region"},
   cdev    |-> {"devices", "buffers", "region", "class"},
   node    |-> {"devices", "buffers", "region", "class"}]

Freed ==
  IF module \in {"devices", "buffers"} THEN {}
  ELSE IF module = "buffer" THEN 0 .. (i - 1) ELSE Devices

(* Mutant: the cdev of the device whose node failed is forgotten.          *)
DeletedShort == IF module \in {"cdev", "node"} THEN 0 .. (i - 1) ELSE {}

Deleted == IF module = "cdev" THEN 0 .. (i - 1) ELSE IF module = "node" THEN 0 .. i ELSE {}

(* Only the path of a failed device_create destroys the nodes so far.      *)
Destroyed == IF module = "node" THEN 0 .. (i - 1) ELSE {}

Free(ds) == buffers' = [d \in Devices |-> IF d \in ds THEN None ELSE buffers[d]]

(* The module and its memory are gone, and files that use it dangle.       *)
Vanish ==
  /\ pc' = [f \in Files |-> IF f \in Using THEN "dangling" ELSE pc[f]]
  /\ device' = [f \in Files |-> 0]
  /\ off' = [f \in Files |-> 0] /\ len' = [f \in Files |-> 0]
  /\ text' = [f \in Files |-> <<>>] /\ got' = [f \in Files |-> <<>>]
  /\ quiet' = {} /\ UNCHANGED early

Fail ==
  /\ module \in DOMAIN Released
  /\ owned' = owned \ Released[module]
  /\ Free(Freed)
  /\ cdevs' = cdevs \ Deleted
  /\ nodes' = nodes \ Destroyed
  /\ module' = "out" /\ i' = 0
  /\ Vanish

(* Mutant: the file operations have no owner, and are not counted as use.  *)
ExitAnyTime ==
  /\ module = "in"
  /\ owned' = {} /\ Free(Devices)
  /\ cdevs' = cdevs \ Devices /\ nodes' = nodes \ Devices
  /\ module' = "out" /\ i' = 0
  /\ Vanish

(* .owner = THIS_MODULE: a module whose files are in use is not unloaded.  *)
Exit ==
  /\ module = "in" /\ Using = {}
  /\ owned' = owned \ {"devices", "buffers", "region", "class"}
  /\ Free(Devices)
  /\ cdevs' = cdevs \ Devices /\ nodes' = nodes \ Devices
  /\ module' = "out" /\ i' = 0
  /\ Vanish

-----------------------------------------------------------------------------
(* The file operations.                                                    *)

Strnlen(data) == Min({p \in Places : data[p] = Nul} \cup {SKELETON_BUFFER_SIZE})

Bytes(data, from, n) == [k \in 1 .. n |-> data[from + k - 1]]

Text(data) == Bytes(data, 0, Strnlen(data))

(* chrdev_open has found the cdev, and takes a reference to the module.    *)
Lookup(f, d) ==
  /\ pc[f] = "closed" /\ d \in cdevs
  /\ pc' = [pc EXCEPT ![f] = "opening"]
  /\ device' = [device EXCEPT ![f] = d]
  /\ early' = IF module = "in" THEN early \ {f} ELSE early \cup {f}
  /\ UNCHANGED <<load, buffers, off, len, text, got, quiet>>

Open(f) ==
  /\ pc[f] = "opening"
  /\ pc' = [pc EXCEPT ![f] = "open"]
  /\ off' = [off EXCEPT ![f] = 0]
  /\ got' = [got EXCEPT ![f] = <<>>]
  /\ IF Writing(device[f]) = {}
     THEN quiet' = quiet \cup {f} /\ text' = [text EXCEPT ![f] = Text(buffers[device[f]])]
     ELSE UNCHANGED <<quiet, text>>
  /\ UNCHANGED <<load, buffers, device, len, early>>

Release(f) ==
  /\ pc[f] = "open"
  /\ pc' = [pc EXCEPT ![f] = "closed"]
  /\ device' = [device EXCEPT ![f] = 0]
  /\ off' = [off EXCEPT ![f] = 0]
  /\ got' = [got EXCEPT ![f] = <<>>] /\ text' = [text EXCEPT ![f] = <<>>]
  /\ quiet' = quiet \ {f} /\ early' = early \ {f}
  /\ UNCHANGED <<load, buffers, len>>

(* Mutant: the end of the string is not tested before the clamp.           *)
ReadLengthUntested(f, count) ==
  /\ pc[f] = "open"
  /\ len' = [len EXCEPT ![f] = Min({count, Strnlen(buffers[device[f]]) - off[f]})]
  /\ pc' = [pc EXCEPT ![f] = "read"]
  /\ UNCHANGED <<load, buffers, device, off, text, got, quiet, early>>

(* strnlen, the test for the end of the string, and the clamp of count.    *)
ReadLength(f, count) ==
  LET rest == Strnlen(buffers[device[f]]) - off[f]
  IN  /\ pc[f] = "open"
      /\ len' = [len EXCEPT ![f] = IF rest <= 0 THEN 0 ELSE Min({count, rest})]
      /\ pc' = [pc EXCEPT ![f] = "read"]
      /\ UNCHANGED <<load, buffers, device, off, text, got, quiet, early>>

(* copy_to_user of as much as strnlen allowed, whatever is there by now.   *)
ReadCopy(f) ==
  /\ pc[f] = "read"
  /\ got' = IF f \in quiet THEN [got EXCEPT ![f] = @ \o Bytes(buffers[device[f]], off[f], len[f])]
            ELSE got
  /\ off' = [off EXCEPT ![f] = @ + len[f]]
  /\ len' = [len EXCEPT ![f] = 0]
  /\ pc' = [pc EXCEPT ![f] = "open"]
  /\ UNCHANGED <<load, buffers, device, text, quiet, early>>

ReadFault(f) ==
  /\ pc[f] = "read" /\ len[f] > 0
  /\ len' = [len EXCEPT ![f] = 0]
  /\ pc' = [pc EXCEPT ![f] = "open"]
  /\ UNCHANGED <<load, buffers, device, off, text, got, quiet, early>>

(* One byte of the buffer is left for the terminator.                      *)
WriteBegin(f, m) ==
  /\ pc[f] = "open"
  /\ text' = [g \in Files |->
               IF g = f THEN SubSeq(m, 1, Min({Len(m), SKELETON_BUFFER_SIZE - 1}))
               ELSE IF pc[g] # "write" /\ device[g] = device[f] THEN <<>> ELSE text[g]]
  /\ quiet' = {g \in quiet : device[g] # device[f]} \cup
              (IF Writing(device[f]) = {} THEN {f} ELSE {})
  /\ got' = [g \in Files |-> IF device[g] = device[f] THEN <<>> ELSE got[g]]
  /\ pc' = [pc EXCEPT ![f] = "write"]
  /\ len' = [len EXCEPT ![f] = 0]
  /\ UNCHANGED <<load, buffers, device, off, early>>

WriteByte(f) ==
  /\ pc[f] = "write" /\ len[f] < Len(text[f])
  /\ buffers' = [buffers EXCEPT ![device[f]][len[f]] = text[f][len[f] + 1]]
  /\ len' = [len EXCEPT ![f] = @ + 1]
  /\ UNCHANGED <<load, pc, device, off, text, got, quiet, early>>

(* A part of the message is not there: copy_from_user fills up with zeros. *)
WriteFault(f) ==
  /\ pc[f] = "write" /\ len[f] < Len(text[f])
  /\ buffers' = [buffers EXCEPT ![device[f]] =
                   [p \in Places |-> IF p \in len[f] .. (Len(text[f]) - 1) THEN Nul ELSE @[p]]]
  /\ len' = [len EXCEPT ![f] = 0]
  /\ pc' = [pc EXCEPT ![f] = "open"]
  /\ quiet' = quiet \ {f} /\ text' = [text EXCEPT ![f] = <<>>]
  /\ UNCHANGED <<load, device, off, got, early>>

(* Mutants: the message is not terminated; the position is kept.           *)
WriteEndOpen(f) ==
  /\ pc[f] = "write" /\ len[f] = Len(text[f])
  /\ off' = [off EXCEPT ![f] = 0]
  /\ text' = IF f \in quiet THEN text ELSE [text EXCEPT ![f] = <<>>]
  /\ len' = [len EXCEPT ![f] = 0]
  /\ pc' = [pc EXCEPT ![f] = "open"]
  /\ UNCHANGED <<load, buffers, device, got, quiet, early>>

WriteEndInPlace(f) ==
  /\ pc[f] = "write" /\ len[f] = Len(text[f])
  /\ buffers' = [buffers EXCEPT ![device[f]][len[f]] = Nul]
  /\ text' = IF f \in quiet THEN text ELSE [text EXCEPT ![f] = <<>>]
  /\ len' = [len EXCEPT ![f] = 0]
  /\ pc' = [pc EXCEPT ![f] = "open"]
  /\ UNCHANGED <<load, off, device, got, quiet, early>>

WriteEnd(f) ==
  /\ pc[f] = "write" /\ len[f] = Len(text[f])
  /\ buffers' = [buffers EXCEPT ![device[f]][len[f]] = Nul]
  /\ off' = [off EXCEPT ![f] = 0]
  /\ text' = IF f \in quiet THEN text ELSE [text EXCEPT ![f] = <<>>]
  /\ len' = [len EXCEPT ![f] = 0]
  /\ pc' = [pc EXCEPT ![f] = "open"]
  /\ UNCHANGED <<load, device, got, quiet, early>>

-----------------------------------------------------------------------------
Init ==
  /\ module = "out" /\ i = 0
  /\ owned = {} /\ cdevs = {} /\ nodes = {}
  /\ buffers = [d \in Devices |-> None]
  /\ pc = [f \in Files |-> "closed"]
  /\ device = [f \in Files |-> 0]
  /\ off = [f \in Files |-> 0] /\ len = [f \in Files |-> 0]
  /\ text = [f \in Files |-> <<>>] /\ got = [f \in Files |-> <<>>]
  /\ quiet = {} /\ early = {}

LoadStep == Load \/ Acquire \/ AllocateBuffer \/ AddCdev \/ CreateNode \/ Fail \/ Exit

FileStep(f) ==
  \/ \E d \in Devices : Lookup(f, d)
  \/ Open(f) \/ Release(f)
  \/ \E count \in 1 .. SKELETON_BUFFER_SIZE : ReadLength(f, count)
  \/ ReadCopy(f) \/ ReadFault(f)
  \/ \E m \in Messages : WriteBegin(f, m)
  \/ WriteByte(f) \/ WriteFault(f) \/ WriteEnd(f)

Next == LoadStep \/ \E f \in Files : FileStep(f)

Spec == Init /\ [][Next]_vars
-----------------------------------------------------------------------------
Byte == {Junk} \cup Nat

TypeOK ==
  /\ module \in {"out", "in"} \cup DOMAIN Released /\ i \in Devices
  /\ owned \subseteq {"devices", "buffers", "region", "class"}
  /\ cdevs \subseteq Devices /\ nodes \subseteq Devices
  /\ buffers \in [Devices -> {None} \cup [Places -> Byte]]
  /\ pc \in [Files -> {"closed", "opening", "open", "read", "write", "dangling"}]
  /\ device \in [Files -> Devices]
  /\ off \in [Files -> 0 .. SKELETON_BUFFER_SIZE]
  /\ len \in [Files -> 0 .. SKELETON_BUFFER_SIZE]
  /\ text \in [Files -> Seq(Byte)] /\ got \in [Files -> Seq(Byte)]
  /\ quiet \subseteq Files /\ early \subseteq Files

(* Each of the seven ways init can fail, and exit, gives back all memory,  *)
(* the numbers, the class and every cdev, so that no device of a module    *)
(* that is gone can be opened.  (The nodes are another matter.)            *)
UnloadedOwnsNothing ==
  module = "out" => owned = {} /\ cdevs = {} /\ \A d \in Devices : buffers[d] = None

(* A file that was opened after the module was loaded never loses its      *)
(* buffer.  One that was opened while init went on with the other devices  *)
(* does if one of them fails: so early is not idle.                        *)
FilesKeepTheirBuffer == \A f \in Files : pc[f] = "dangling" => f \in early

(* Whatever mixture of two messages overlapping writes leave, and wherever *)
(* copy_from_user breaks off: when nobody is writing, the buffer holds a   *)
(* string that ends within it and has no byte that nobody wrote.           *)
IsString(data) == \E n \in Places : data[n] = Nul /\ \A p \in 0 .. (n - 1) : data[p] # Junk

AtRestIsAString ==
  \A d \in Devices : buffers[d] # None /\ Writing(d) = {} => IsString(buffers[d])

(* Reads in pieces of any size find the message that was there when the    *)
(* file was opened, or that the file itself wrote last, from its beginning *)
(* to its end, as long as nobody else writes.                              *)
ReadsAreExact ==
  \A f \in quiet : pc[f] \in {"open", "read"} =>
    /\ off[f] <= Len(text[f]) /\ got[f] = SubSeq(text[f], 1, off[f])
    /\ pc[f] = "read" => (len[f] = 0 <=> off[f] = Len(text[f]))
=============================================================================
