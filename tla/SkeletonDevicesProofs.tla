------------------------ MODULE SkeletonDevicesProofs -----------------------
(***************************************************************************)
(* Proofs about SkeletonDevices, for any number of devices and files, any  *)
(* size of the buffers and any messages: the error paths of init give      *)
(* everything back, files that were opened after init keep their buffer,   *)
(* and the writes leave strings.                                           *)
(***************************************************************************)
EXTENDS SkeletonDevices, SequenceTheorems, WellFoundedInduction, TLAPS

(* What init has when it is about to acquire the next thing.               *)
OwnedSoFar ==
  /\ owned \subseteq {"devices", "buffers", "region", "class"}
  /\ module \in {"out", "devices"} => owned = {}
  /\ module = "buffers" => owned = {"devices"}
  /\ module \in {"buffer", "region"} => owned = {"devices", "buffers"}
  /\ module = "class" => owned = {"devices", "buffers", "region"}

Allocated == [Places -> Byte]

BuffersSoFar ==
  /\ buffers \in [Devices -> {None} \cup Allocated]
  /\ module \in {"out", "devices", "buffers"} => \A d \in Devices : buffers[d] = None
  /\ module = "buffer" => \A d \in Devices : IF d < i THEN buffers[d] \in Allocated ELSE buffers[d] = None
  /\ module \in {"region", "class", "cdev", "node", "in"} => \A d \in Devices : buffers[d] \in Allocated

CdevsSoFar ==
  /\ cdevs \subseteq Devices
  /\ module \in {"out", "devices", "buffers", "buffer", "region", "class"} => cdevs = {}
  /\ module = "cdev" => cdevs \subseteq 0 .. (i - 1)
  /\ module = "node" => cdevs \subseteq 0 .. i

StageInv ==
  /\ module \in {"out", "in", "devices", "buffers", "buffer", "region", "class", "cdev", "node"}
  /\ i \in Devices
  /\ module \in {"devices", "buffers", "region", "class"} => i = 0
  /\ OwnedSoFar /\ BuffersSoFar /\ CdevsSoFar

(* Files in use belong to a module whose buffers are all there.            *)
FileInv ==
  /\ pc \in [Files -> {"closed", "opening", "open", "read", "write", "dangling"}]
  /\ device \in [Files -> Devices]
  /\ \A f \in Using : module \in {"cdev", "node", "in"}
  /\ \A f \in Using : module # "in" => f \in early
  /\ FilesKeepTheirBuffer

(* No byte that a write in progress has passed is junk.                    *)
Passed(f) ==
  /\ text[f] \in Seq(Nat \ {0}) /\ Len(text[f]) < SKELETON_BUFFER_SIZE
  /\ len[f] \in 0 .. Len(text[f])
  /\ \A p \in 0 .. (len[f] - 1) : buffers[device[f]][p] # Junk

WriteInv ==
  /\ DOMAIN text = Files /\ DOMAIN len = Files
  /\ \A f \in Files : pc[f] = "write" => Passed(f)

SkeletonInv == StageInv /\ FileInv /\ WriteInv /\ AtRestIsAString

-----------------------------------------------------------------------------
LEMMA SkeletonInit == Init => SkeletonInv
<1> USE SkeletonAssumption DEF Init, Devices, None
<1>1. Init => StageInv
  BY DEF StageInv, OwnedSoFar, BuffersSoFar, CdevsSoFar
<1>2. Init => FileInv /\ WriteInv
  BY DEF FileInv, WriteInv, FilesKeepTheirBuffer, Using
<1>3. Init => AtRestIsAString
  BY DEF AtRestIsAString
<1> QED  BY <1>1, <1>2, <1>3 DEF SkeletonInv

(* A file with a write in progress is in use, so its buffer is there.      *)
LEMMA WritersHaveBuffers ==
  ASSUME StageInv, FileInv, NEW f \in Files, pc[f] = "write"
  PROVE  /\ module \in {"cdev", "node", "in"}
         /\ \A d \in Devices : buffers[d] \in Allocated
         /\ device[f] \in Devices
<1>1. f \in Using
  BY DEF Using
<1> QED  BY <1>1 DEF StageInv, FileInv, BuffersSoFar

(* The three steps of a write that change its buffer.                      *)
LEMMA WritesStayInBuffers ==
  ASSUME SkeletonInv, NEW f \in Files, WriteByte(f) \/ WriteFault(f) \/ WriteEnd(f)
  PROVE  /\ UNCHANGED load /\ module \in {"cdev", "node", "in"}
         /\ buffers' \in [Devices -> Allocated]
<1> DEFINE b == buffers[device[f]]
<1>1. pc[f] = "write"
  BY DEF WriteByte, WriteFault, WriteEnd
<1>2. /\ module \in {"cdev", "node", "in"} /\ device[f] \in Devices /\ b \in Allocated
      /\ buffers \in [Devices -> Allocated]
  BY <1>1, WritersHaveBuffers DEF SkeletonInv, StageInv, BuffersSoFar
<1>3. Passed(f)
  BY <1>1 DEF SkeletonInv, WriteInv
<1>4. CASE WriteByte(f)
  <2>1. len[f] \in Places /\ text[f][len[f] + 1] \in Byte
    BY <1>3, <1>4, SkeletonAssumption DEF WriteByte, Passed, Places, Byte
  <2>2. [b EXCEPT ![len[f]] = text[f][len[f] + 1]] \in Allocated
    BY <1>2, <2>1 DEF Allocated
  <2> QED  BY <1>2, <1>4, <2>2 DEF WriteByte
<1>5. CASE WriteFault(f)
  <2>1. [p \in Places |-> IF p \in len[f] .. (Len(text[f]) - 1) THEN Nul ELSE b[p]] \in Allocated
    BY <1>2 DEF Allocated, Byte, Nul
  <2> QED  BY <1>2, <1>5, <2>1 DEF WriteFault
<1>6. CASE WriteEnd(f)
  <2>1. [b EXCEPT ![len[f]] = Nul] \in Allocated
    BY <1>2 DEF Allocated, Byte, Nul
  <2> QED  BY <1>2, <1>6, <2>1 DEF WriteEnd
<1> QED  BY <1>4, <1>5, <1>6

(* The other file operations leave the module and the buffers alone.       *)
LEMMA OthersKeepBuffers ==
  ASSUME NEW f \in Files, FileStep(f), ~(WriteByte(f) \/ WriteFault(f) \/ WriteEnd(f))
  PROVE  UNCHANGED <<load, buffers>>
  BY DEF FileStep, Lookup, Open, Release, ReadLength, ReadCopy, ReadFault, WriteBegin

-----------------------------------------------------------------------------
(* What the acquisitions lead to, and what the error paths leave.          *)
LEMMA Acquired ==
  ASSUME OwnedSoFar, Acquire
  PROVE  /\ module \in {"devices", "buffers", "region", "class"}
         /\ module = "devices" => module' = "buffers" /\ owned' = {"devices"}
         /\ module = "buffers" => module' = "buffer" /\ owned' = {"devices", "buffers"}
         /\ module = "region" => module' = "class" /\ owned' = {"devices", "buffers", "region"}
         /\ module = "class" => module' = "cdev" /\ owned' \subseteq {"devices", "buffers", "region", "class"}
<1>1. module \in {"devices", "buffers", "region", "class"} /\ module' = Following[module]
      /\ owned' = owned \cup {module}
  BY DEF Acquire, Following
<1>2. CASE module = "devices"
  BY <1>1, <1>2 DEF Following, OwnedSoFar
<1>3. CASE module = "buffers"
  BY <1>1, <1>3 DEF Following, OwnedSoFar
<1>4. CASE module = "region"
  BY <1>1, <1>4 DEF Following, OwnedSoFar
<1>5. CASE module = "class"
  BY <1>1, <1>5 DEF Following, OwnedSoFar
<1> QED  BY <1>1, <1>2, <1>3, <1>4, <1>5

LEMMA NothingOwnedAfterFail ==
  ASSUME OwnedSoFar, Fail
  PROVE  owned' = {}
<1>1. owned' = owned \ Released[module] /\ module \in DOMAIN Released
  BY DEF Fail
<1>2. module \in {"devices", "buffers", "buffer", "region", "class", "cdev", "node"}
  BY <1>1 DEF Released
<1>3. CASE module = "devices"
  BY <1>1, <1>3 DEF Released, OwnedSoFar
<1>4. CASE module = "buffers"
  BY <1>1, <1>4 DEF Released, OwnedSoFar
<1>5. CASE module \in {"buffer", "region"}
  BY <1>1, <1>5 DEF Released, OwnedSoFar
<1>6. CASE module = "class"
  BY <1>1, <1>6 DEF Released, OwnedSoFar
<1>7. CASE module \in {"cdev", "node"}
  <2>1. Released["cdev"] = {"devices", "buffers", "region", "class"}
    BY DEF Released
  <2>2. Released["node"] = {"devices", "buffers", "region", "class"}
    BY DEF Released
  <2> QED  BY <1>1, <1>7, <2>1, <2>2 DEF OwnedSoFar
<1> QED  BY <1>2, <1>3, <1>4, <1>5, <1>6, <1>7

LEMMA StageStep ==
  ASSUME SkeletonInv, [Next]_vars
  PROVE  StageInv'
<1> USE SkeletonAssumption DEF SkeletonInv, StageInv, OwnedSoFar, BuffersSoFar, CdevsSoFar, Devices
<1>1. CASE Load
  BY <1>1 DEF Load
<1>2. CASE Acquire
  <2>1. /\ module \in {"devices", "buffers", "region", "class"}
        /\ module = "devices" => module' = "buffers" /\ owned' = {"devices"}
        /\ module = "buffers" => module' = "buffer" /\ owned' = {"devices", "buffers"}
        /\ module = "region" => module' = "class" /\ owned' = {"devices", "buffers", "region"}
        /\ module = "class" => module' = "cdev" /\ owned' \subseteq {"devices", "buffers", "region", "class"}
    BY <1>2, Acquired
  <2>3. OwnedSoFar' /\ CdevsSoFar'
    BY <1>2, <2>1 DEF Acquire
  <2>4. BuffersSoFar'
    BY <1>2, <2>1 DEF Acquire
  <2> QED  BY <1>2, <2>1, <2>3, <2>4 DEF Acquire
<1>3. CASE AllocateBuffer
  <2>1. PICK old \in {Nul, Junk} :
          buffers' = [buffers EXCEPT ![i] = [p \in Places |-> IF p = 0 THEN Nul ELSE old]]
    BY <1>3 DEF AllocateBuffer
  <2>2. [p \in Places |-> IF p = 0 THEN Nul ELSE old] \in Allocated
    BY DEF Allocated, Byte, Nul, Junk
  <2>3. /\ \A d \in Devices : d < i + 1 => buffers'[d] \in Allocated
        /\ \A d \in Devices : d >= i + 1 => buffers'[d] = None
        /\ buffers' \in [Devices -> {None} \cup Allocated]
    BY <1>3, <2>1, <2>2 DEF AllocateBuffer
  <2>4. CASE i + 1 < devices_number
    BY <1>3, <2>3, <2>4 DEF AllocateBuffer, Loop
  <2>5. CASE ~(i + 1 < devices_number)
    BY <1>3, <2>3, <2>5 DEF AllocateBuffer, Loop
  <2> QED  BY <2>4, <2>5
<1>4. CASE AddCdev
  BY <1>4 DEF AddCdev
<1>5. CASE CreateNode
  BY <1>5 DEF CreateNode, Loop
<1>6. CASE Fail
  <2>1. module' = "out" /\ i' = 0
    BY <1>6 DEF Fail
  <2>2. owned' = {}
    BY <1>6, NothingOwnedAfterFail
  <2>3. cdevs' = {}
    BY <1>6 DEF Fail, Released, Deleted
  <2>4. \A d \in Devices : buffers[d] # None => d \in Freed
    BY <1>6 DEF Fail, Released, Freed
  <2>5. buffers' = [d \in Devices |-> None]
    BY <1>6, <2>4 DEF Fail, Free
  <2> QED  BY <2>1, <2>2, <2>3, <2>5
<1>7. CASE Exit
  BY <1>7 DEF Exit, Free
<1>8. ASSUME NEW f \in Files, FileStep(f) PROVE StageInv'
  <2>1. CASE WriteByte(f) \/ WriteFault(f) \/ WriteEnd(f)
    BY <2>1, WritesStayInBuffers DEF load
  <2>2. CASE ~(WriteByte(f) \/ WriteFault(f) \/ WriteEnd(f))
    BY <1>8, <2>2, OthersKeepBuffers DEF load
  <2> QED  BY <2>1, <2>2
<1>9. CASE UNCHANGED vars
  BY <1>9 DEF vars, load
<1> QED  BY <1>1, <1>2, <1>3, <1>4, <1>5, <1>6, <1>7, <1>8, <1>9 DEF Next, LoadStep

LEMMA FilesStep ==
  ASSUME SkeletonInv, [Next]_vars
  PROVE  FileInv'
<1> USE DEF SkeletonInv, FileInv, FilesKeepTheirBuffer, Using
<1>1. CASE Load \/ Acquire \/ AllocateBuffer \/ AddCdev \/ CreateNode
  BY <1>1 DEF Load, Acquire, Following, AllocateBuffer, AddCdev, CreateNode, Loop, calls
<1>2. CASE Fail
  BY <1>2, SkeletonAssumption DEF Fail, Vanish, Devices, Released
<1>3. CASE Exit
  BY <1>3, SkeletonAssumption DEF Exit, Vanish, Devices
<1>4. ASSUME NEW f \in Files, FileStep(f) PROVE FileInv'
  <2>1. ASSUME NEW d \in Devices, Lookup(f, d) PROVE FileInv'
    <3>1. module \in {"cdev", "node", "in"}
      BY <2>1 DEF Lookup, StageInv, CdevsSoFar
    <3> QED  BY <2>1, <3>1 DEF Lookup, load
  <2>2. CASE Open(f)
    BY <2>2 DEF Open, load
  <2>3. CASE Release(f)
    BY <2>3, SkeletonAssumption DEF Release, load, Devices
  <2>4. ASSUME NEW count \in 1 .. SKELETON_BUFFER_SIZE, ReadLength(f, count) PROVE FileInv'
    BY <2>4 DEF ReadLength, load
  <2>5. CASE ReadCopy(f)
    BY <2>5 DEF ReadCopy, load
  <2>6. CASE ReadFault(f)
    BY <2>6 DEF ReadFault, load
  <2>7. ASSUME NEW m \in Messages, WriteBegin(f, m) PROVE FileInv'
    BY <2>7 DEF WriteBegin, load
  <2>8. CASE WriteByte(f)
    BY <2>8 DEF WriteByte, load
  <2>9. CASE WriteFault(f)
    BY <2>9 DEF WriteFault, load
  <2>10. CASE WriteEnd(f)
    BY <2>10 DEF WriteEnd, load
  <2> QED  BY <1>4, <2>1, <2>2, <2>3, <2>4, <2>5, <2>6, <2>7, <2>8, <2>9, <2>10 DEF FileStep
<1>5. CASE UNCHANGED vars
  BY <1>5 DEF vars, load, calls
<1> QED  BY <1>1, <1>2, <1>3, <1>4, <1>5 DEF Next, LoadStep

-----------------------------------------------------------------------------
(* Writing.                                                                *)

LEMMA MinOfTwo ==
  ASSUME NEW a \in Int, NEW b \in Int
  PROVE  Min({a, b}) \in {a, b} /\ Min({a, b}) <= a /\ Min({a, b}) <= b
<1>1. \E x \in {a, b} : \A y \in {a, b} : x =< y
  BY DEF Min
<1> QED  BY <1>1 DEF Min

LEMMA PrefixOfSeq ==
  ASSUME NEW S, NEW s \in Seq(S), NEW n \in Nat, n <= Len(s)
  PROVE  SubSeq(s, 1, n) \in Seq(S)
  OBVIOUS

(* What is written is cut to leave room for the terminator.                *)
LEMMA CutMessage ==
  ASSUME NEW m \in Messages,
         NEW n, n = Min({Len(m), SKELETON_BUFFER_SIZE - 1})
  PROVE  SubSeq(m, 1, n) \in Seq(Nat \ {0}) /\ Len(SubSeq(m, 1, n)) < SKELETON_BUFFER_SIZE
<1> DEFINE c == SKELETON_BUFFER_SIZE - 1
<1>1. m \in Seq(Nat \ {0}) /\ Len(m) \in Nat /\ c \in Nat /\ SKELETON_BUFFER_SIZE \in Nat
  BY SkeletonAssumption
<1>2. n \in Nat /\ n <= Len(m) /\ n <= c
  <2> HIDE DEF c
  <2>1. n = Min({Len(m), c})
    BY DEF c
  <2>2. Len(m) \in Int /\ c \in Int
    BY <1>1
  <2>3. n \in {Len(m), c} /\ n <= Len(m) /\ n <= c
    BY <2>1, <2>2, MinOfTwo, Zenon
  <2> QED  BY <1>1, <2>3
<1>3. \A k \in 1 .. n : m[k] \in Nat \ {0}
  BY <1>1, <1>2
<1> DEFINE q == SubSeq(m, 1, n)
<1>4. q \in Seq(Nat \ {0})
  BY <1>1, <1>2, PrefixOfSeq, Zenon
<1>5. Len(q) = IF 1 <= n THEN n ELSE 0
  BY <1>1, <1>2, <1>3
<1>6. Len(q) < SKELETON_BUFFER_SIZE
  <2> HIDE DEF q
  <2> QED  BY <1>1, <1>2, <1>5
<1> QED  BY <1>4, <1>6

(* No write puts junk into a buffer.                                       *)
LEMMA JunkIsNotWritten ==
  ASSUME SkeletonInv, NEW f \in Files, WriteByte(f) \/ WriteFault(f) \/ WriteEnd(f),
         NEW d \in Devices, NEW p \in Places, buffers[d][p] # Junk
  PROVE  buffers'[d][p] # Junk
<1>1. pc[f] = "write"
  BY DEF WriteByte, WriteFault, WriteEnd
<1>2. /\ buffers \in [Devices -> [Places -> Byte]] /\ device[f] \in Devices
      /\ Passed(f)
  BY <1>1, WritersHaveBuffers DEF SkeletonInv, StageInv, BuffersSoFar, WriteInv, Allocated
<1>3. CASE WriteByte(f)
  <2>1. text[f][len[f] + 1] # Junk
    BY <1>2, <1>3 DEF WriteByte, Passed, Junk
  <2> QED  BY <1>2, <1>3, <2>1 DEF WriteByte
<1>4. CASE WriteFault(f)
  BY <1>2, <1>4 DEF WriteFault, Nul, Junk
<1>5. CASE WriteEnd(f)
  BY <1>2, <1>5 DEF WriteEnd, Nul, Junk
<1> QED  BY <1>3, <1>4, <1>5

LEMMA WritesStep ==
  ASSUME SkeletonInv, [Next]_vars
  PROVE  WriteInv'
<1>1. CASE LoadStep
  <2>1. CASE UNCHANGED <<buffers, calls>>
    BY <2>1 DEF SkeletonInv, WriteInv, Passed, calls
  <2>2. CASE AllocateBuffer
    BY <2>2, WritersHaveBuffers DEF AllocateBuffer, SkeletonInv, WriteInv, calls
  <2>3. CASE Fail \/ Exit
    <3>1. \A f \in Files : pc'[f] # "write"
      BY <2>3 DEF Fail, Exit, Vanish, Using, SkeletonInv, FileInv
    <3> QED  BY <2>3, <3>1 DEF Fail, Exit, Vanish, WriteInv
  <2> QED  BY <1>1, <2>1, <2>2, <2>3 DEF LoadStep, Load, Acquire, AddCdev, CreateNode
<1>2. ASSUME NEW f \in Files, WriteByte(f) \/ WriteFault(f) \/ WriteEnd(f) PROVE WriteInv'
  <2>1. pc[f] = "write" /\ Passed(f)
    BY <1>2 DEF WriteByte, WriteFault, WriteEnd, SkeletonInv, WriteInv
  <2>2. DOMAIN text' = Files /\ DOMAIN len' = Files
    BY <1>2 DEF WriteByte, WriteFault, WriteEnd, SkeletonInv, WriteInv
  <2>3. ASSUME NEW g \in Files, g # f, pc'[g] = "write" PROVE Passed(g)'
    <3>1. /\ pc[g] = "write" /\ UNCHANGED <<text[g], len[g], device>>
      BY <1>2, <2>3 DEF WriteByte, WriteFault, WriteEnd, SkeletonInv, WriteInv, FileInv
    <3>2. Passed(g) /\ device[g] \in Devices
      BY <3>1 DEF SkeletonInv, WriteInv, FileInv
    <3>3. \A p \in 0 .. (len[g] - 1) : p \in Places
      BY <3>2, SkeletonAssumption DEF Passed, Places
    <3>4. \A p \in 0 .. (len[g] - 1) : buffers'[device[g]][p] # Junk
      BY <1>2, <3>2, <3>3, JunkIsNotWritten DEF Passed
    <3> QED  BY <3>1, <3>2, <3>4 DEF Passed
  <2>4. ASSUME WriteByte(f) PROVE Passed(f)'
    <3>1. /\ buffers \in [Devices -> [Places -> Byte]] /\ device[f] \in Devices
          /\ \A p \in 0 .. len[f] : p \in Places
      BY <2>1, <2>4, WritersHaveBuffers, SkeletonAssumption
         DEF SkeletonInv, StageInv, BuffersSoFar, Allocated, WriteByte, Passed, Places
    <3>2. text[f][len[f] + 1] # Junk
      BY <2>1, <2>4 DEF WriteByte, Passed, Junk
    <3>3. UNCHANGED <<text, device>> /\ len'[f] = len[f] + 1
      BY <2>4 DEF WriteByte, SkeletonInv, WriteInv
    <3>4. buffers'[device[f]][len[f]] # Junk
      BY <2>1, <2>4, <3>1, <3>2 DEF WriteByte, Passed
    <3>5. \A p \in 0 .. (len[f] - 1) : buffers'[device[f]][p] # Junk
      BY <1>2, <2>1, <3>1, JunkIsNotWritten DEF Passed
    <3>6. len[f] \in Nat /\ len[f] < Len(text[f])
      BY <2>1, <2>4 DEF WriteByte, Passed
    <3> QED  BY <2>1, <3>3, <3>4, <3>5, <3>6 DEF Passed
  <2>5. ASSUME ~WriteByte(f) PROVE pc'[f] # "write"
    BY <1>2, <2>5 DEF WriteFault, WriteEnd, SkeletonInv, FileInv
  <2> QED  BY <2>2, <2>3, <2>4, <2>5 DEF WriteInv
<1>3. ASSUME NEW f \in Files, NEW m \in Messages, WriteBegin(f, m) PROVE WriteInv'
  <2>1. Passed(f)'
    <3> DEFINE n == Min({Len(m), SKELETON_BUFFER_SIZE - 1})
    <3>0. len'[f] = 0
      BY <1>3 DEF WriteBegin, SkeletonInv, WriteInv
    <3>1. text'[f] = SubSeq(m, 1, n)
      BY <1>3 DEF WriteBegin, SkeletonInv, WriteInv
    <3>2. text'[f] \in Seq(Nat \ {0}) /\ Len(text'[f]) < SKELETON_BUFFER_SIZE
      BY <3>1, CutMessage
    <3>3. Len(text'[f]) \in Nat
      BY <3>2
    <3>4. len'[f] \in 0 .. Len(text'[f])
      BY <3>0, <3>3
    <3>5. \A p \in 0 .. (len'[f] - 1) : FALSE
      BY <3>0
    <3> QED  BY <3>2, <3>4, <3>5 DEF Passed
  <2>2. ASSUME NEW g \in Files, g # f, pc'[g] = "write" PROVE Passed(g)'
    <3>1. pc[g] = "write" /\ UNCHANGED <<text[g], len[g], device, buffers>>
      BY <1>3, <2>2 DEF WriteBegin, SkeletonInv, WriteInv, FileInv
    <3> QED  BY <3>1 DEF Passed, SkeletonInv, WriteInv
  <2> QED  BY <1>3, <2>1, <2>2 DEF WriteBegin, SkeletonInv, WriteInv
<1>4. ASSUME NEW f \in Files, FileStep(f), ~(WriteByte(f) \/ WriteFault(f) \/ WriteEnd(f)),
             \A m \in Messages : ~WriteBegin(f, m)
      PROVE  WriteInv'
  <2>1. /\ UNCHANGED buffers /\ pc'[f] # "write"
        /\ DOMAIN text' = Files /\ DOMAIN len' = Files
        /\ \A g \in Files : g # f => UNCHANGED <<pc[g], text[g], len[g], device[g]>>
    BY <1>4 DEF FileStep, Lookup, Open, Release, ReadLength, ReadCopy, ReadFault, SkeletonInv, WriteInv, FileInv
  <2> QED  BY <2>1 DEF SkeletonInv, WriteInv, Passed
<1>5. CASE UNCHANGED vars
  BY <1>5 DEF SkeletonInv, WriteInv, Passed, vars, calls
<1> QED  BY <1>1, <1>2, <1>3, <1>4, <1>5 DEF Next

-----------------------------------------------------------------------------
(* What a write leaves when it ends or breaks off.                         *)
LEMMA EndedWriteLeavesString ==
  ASSUME SkeletonInv, NEW f \in Files, WriteFault(f) \/ WriteEnd(f)
  PROVE  IsString(buffers'[device[f]])
<1>1. pc[f] = "write" /\ Passed(f)
  BY DEF WriteFault, WriteEnd, SkeletonInv, WriteInv
<1>2. /\ buffers \in [Devices -> [Places -> Byte]] /\ device[f] \in Devices
      /\ len[f] \in Places
  BY <1>1, WritersHaveBuffers, SkeletonAssumption
     DEF SkeletonInv, StageInv, BuffersSoFar, Allocated, Passed, Places
<1>3. buffers'[device[f]][len[f]] = Nul
  BY <1>1, <1>2 DEF WriteFault, WriteEnd, Passed
<1>4. \A p \in 0 .. (len[f] - 1) : buffers'[device[f]][p] # Junk
  <2>1. \A p \in 0 .. (len[f] - 1) : p \in Places
    BY <1>2, SkeletonAssumption DEF Places
  <2> QED  BY <1>1, <1>2, <2>1, JunkIsNotWritten DEF Passed
<1> QED  BY <1>2, <1>3, <1>4 DEF IsString

LEMMA StringsStep ==
  ASSUME SkeletonInv, [Next]_vars
  PROVE  AtRestIsAString'
<1>1. CASE UNCHANGED <<buffers, calls>>
  BY <1>1 DEF SkeletonInv, AtRestIsAString, Writing, calls
<1>2. CASE AllocateBuffer
  <2>1. PICK old \in {Nul, Junk} :
          buffers' = [buffers EXCEPT ![i] = [p \in Places |-> IF p = 0 THEN Nul ELSE old]]
    BY <1>2 DEF AllocateBuffer
  <2>2. IsString([p \in Places |-> IF p = 0 THEN Nul ELSE old])
    BY SkeletonAssumption DEF IsString, Places
  <2>3. buffers \in [Devices -> {None} \cup Allocated]
    BY DEF SkeletonInv, StageInv, BuffersSoFar
  <2> QED  BY <1>2, <2>1, <2>2, <2>3 DEF AllocateBuffer, SkeletonInv, AtRestIsAString, Writing, calls
<1>3. CASE Fail \/ Exit
  <2>1. module' = "out"
    BY <1>3 DEF Fail, Exit
  <2> QED  BY <2>1, StageStep DEF StageInv, BuffersSoFar, AtRestIsAString
<1>4. ASSUME NEW f \in Files, WriteFault(f) \/ WriteEnd(f) PROVE AtRestIsAString'
  <2>1. UNCHANGED device /\ device[f] \in Devices /\ pc'[f] # "write"
        /\ \A g \in Files : g # f => UNCHANGED pc[g]
    BY <1>4 DEF WriteFault, WriteEnd, SkeletonInv, FileInv
  <2>2. ASSUME NEW d \in Devices, d # device[f], buffers'[d] # None, (Writing(d))' = {}
        PROVE  IsString(buffers[d]) /\ UNCHANGED buffers[d]
    <3>1. UNCHANGED buffers[d]
      BY <1>4, <2>2 DEF WriteFault, WriteEnd, SkeletonInv, StageInv, BuffersSoFar
    <3>2. Writing(d) = {}
      BY <2>1, <2>2 DEF Writing
    <3> QED  BY <2>2, <3>1, <3>2 DEF SkeletonInv, AtRestIsAString
  <2> QED  BY <1>4, <2>1, <2>2, EndedWriteLeavesString DEF AtRestIsAString, IsString
<1>5. ASSUME NEW f \in Files, WriteByte(f) PROVE AtRestIsAString'
  <2>1. UNCHANGED <<pc, device>> /\ f \in (Writing(device[f]))'
    BY <1>5 DEF WriteByte, Writing
  <2>2. \A d \in Devices : d # device[f] => UNCHANGED <<buffers[d]>>
    BY <1>5 DEF WriteByte, SkeletonInv, StageInv, BuffersSoFar
  <2> QED  BY <2>1, <2>2 DEF SkeletonInv, AtRestIsAString, Writing, IsString
<1>6. ASSUME NEW f \in Files, FileStep(f), ~(WriteByte(f) \/ WriteFault(f) \/ WriteEnd(f))
      PROVE  AtRestIsAString'
  <2>1. UNCHANGED buffers
    BY <1>6, OthersKeepBuffers
  <2>2. \A d \in Devices : (Writing(d))' = {} => Writing(d) = {}
    BY <1>6 DEF FileStep, Lookup, Open, Release, ReadLength, ReadCopy, ReadFault, WriteBegin,
                Writing, SkeletonInv, FileInv
  <2> QED  BY <2>1, <2>2 DEF SkeletonInv, AtRestIsAString
<1> QED  BY <1>1, <1>2, <1>3, <1>4, <1>5, <1>6
         DEF Next, LoadStep, Load, Acquire, AddCdev, CreateNode, vars

-----------------------------------------------------------------------------
LEMMA SkeletonInvariance == Spec => []SkeletonInv
<1>1. SkeletonInv /\ [Next]_vars => SkeletonInv'
  BY StageStep, FilesStep, WritesStep, StringsStep DEF SkeletonInv
<1> QED  BY <1>1, SkeletonInit, PTL DEF Spec

(* Whichever acquisition fails, nothing of a module that is out is left    *)
(* but its nodes.                                                          *)
THEOREM NothingIsKept == Spec => []UnloadedOwnsNothing
<1>1. SkeletonInv => UnloadedOwnsNothing
  BY DEF SkeletonInv, StageInv, OwnedSoFar, BuffersSoFar, CdevsSoFar, UnloadedOwnsNothing
<1> QED  BY <1>1, SkeletonInvariance, PTL

(* Files that were opened after init keep their buffer until they close.   *)
THEOREM BuffersAreKept == Spec => []FilesKeepTheirBuffer
<1>1. SkeletonInv => FilesKeepTheirBuffer
  BY DEF SkeletonInv, FileInv
<1> QED  BY <1>1, SkeletonInvariance, PTL

(* Any number of overlapping writes of any length leave a string.          *)
THEOREM WritesLeaveStrings == Spec => []AtRestIsAString
<1>1. SkeletonInv => AtRestIsAString
  BY DEF SkeletonInv
<1> QED  BY <1>1, SkeletonInvariance, PTL

-----------------------------------------------------------------------------
(* Reading.  A buffer holds a text if strnlen finds exactly that text.     *)
Holds(data, t) ==
  /\ t \in Seq(Byte \ {Nul}) /\ Len(t) \in Places
  /\ \A p \in 0 .. (Len(t) - 1) : data[p] = t[p + 1]
  /\ data[Len(t)] = Nul

(* The induction that this needs is that < is well founded.                *)
LEMMA LeastOfNaturals ==
  ASSUME NEW S \in SUBSET Nat, S # {}
  PROVE  Min(S) \in S /\ \A y \in S : Min(S) <= y
<1>1. PICK x \in S : \A y \in S : ~ (<<y, x>> \in OpToRel(<, Nat))
  BY NatLessThanWellFounded, WFMin
<1>2. \A y \in S : x =< y
  <2>1. \A y \in S : ~ (y < x)
    BY <1>1 DEF OpToRel
  <2> QED  BY <2>1
<1> QED  BY <1>2 DEF Min

LEMMA StrnlenIsBounded ==
  ASSUME NEW data
  PROVE  /\ Strnlen(data) \in 0 .. SKELETON_BUFFER_SIZE
         /\ \A p \in Places : data[p] = Nul => Strnlen(data) <= p
         /\ Strnlen(data) # SKELETON_BUFFER_SIZE => data[Strnlen(data)] = Nul
<1> DEFINE S == {p \in Places : data[p] = Nul} \cup {SKELETON_BUFFER_SIZE}
<1>1. S \in SUBSET (0 .. SKELETON_BUFFER_SIZE) /\ S \in SUBSET Nat /\ S # {}
  BY SkeletonAssumption DEF Places
<1>2. Min(S) \in S /\ \A y \in S : Min(S) <= y
  BY <1>1, LeastOfNaturals
<1>3. Strnlen(data) = Min(S)
  BY DEF Strnlen
<1> QED  BY <1>1, <1>2, <1>3

LEMMA StrnlenOfText ==
  ASSUME NEW data, NEW t, Holds(data, t)
  PROVE  Strnlen(data) = Len(t)
<1>1. Len(t) \in Places /\ Strnlen(data) <= Len(t) /\ Strnlen(data) \in Nat
  BY StrnlenIsBounded DEF Holds
<1>2. ASSUME Strnlen(data) < Len(t) PROVE FALSE
  <2>1. Strnlen(data) # SKELETON_BUFFER_SIZE /\ Strnlen(data) \in 0 .. (Len(t) - 1)
    BY <1>1, <1>2, SkeletonAssumption DEF Places
  <2>2. t[Strnlen(data) + 1] = Nul
    BY <2>1, StrnlenIsBounded DEF Holds
  <2>3. Strnlen(data) + 1 \in 1 .. Len(t)
    BY <1>1, <2>1 DEF Places
  <2>4. t[Strnlen(data) + 1] \in Byte \ {Nul}
    BY <2>3 DEF Holds
  <2> QED  BY <2>2, <2>4
<1> QED  BY <1>1, <1>2 DEF Places

(* A string that is at rest is the text of its buffer.                     *)
LEMMA TextIsHeld ==
  ASSUME NEW data \in Allocated, IsString(data)
  PROVE  Holds(data, Text(data))
<1> DEFINE n == Strnlen(data)
           t == [k \in 1 .. n |-> data[0 + k - 1]]
<1>1. PICK m \in Places : data[m] = Nul
  BY DEF IsString
<1>2. n \in Places /\ data[n] = Nul /\ \A p \in Places : data[p] = Nul => n <= p
  BY <1>1, StrnlenIsBounded, SkeletonAssumption DEF Places
<1>3. \A p \in 0 .. (n - 1) : data[p] \in Byte \ {Nul}
  BY <1>2, SkeletonAssumption DEF Places, Allocated
<1> HIDE DEF n
<1>4. n \in Nat
  BY <1>2 DEF Places
<1>5. \A k \in 1 .. n : data[0 + k - 1] \in Byte \ {Nul}
  BY <1>3, <1>4
<1>6. t \in Seq(Byte \ {Nul}) /\ Len(t) = n
  BY <1>4, <1>5
<1>7. \A p \in 0 .. (n - 1) : data[p] = t[p + 1]
  BY <1>4
<1>8. Text(data) = t
  BY DEF Text, Bytes, n
<1> QED  BY <1>2, <1>6, <1>7, <1>8 DEF Holds

(* What a copy returns continues what the copies before it returned.       *)
LEMMA CopyContinues ==
  ASSUME NEW data, NEW t, Holds(data, t),
         NEW o \in 0 .. Len(t), NEW n \in 0 .. (Len(t) - o)
  PROVE  SubSeq(t, 1, o) \o Bytes(data, o, n) = SubSeq(t, 1, o + n)
<1> DEFINE B == Byte \ {Nul}
           a == SubSeq(t, 1, o)
           b == Bytes(data, o, n)
           c == SubSeq(t, 1, o + n)
<1>1. t \in Seq(B) /\ Len(t) \in Nat /\ o \in Nat /\ n \in Nat /\ o + n <= Len(t)
  BY DEF Holds
<1>2. \A k \in 1 .. Len(t) : t[k] \in B
  BY <1>1
<1>3. a \in Seq(B) /\ Len(a) = o /\ \A k \in 1 .. o : a[k] = t[k]
  <2>1. \A k \in 1 .. o : t[k] \in B
    BY <1>1, <1>2
  <2> QED  BY <1>1, <2>1, SubSeqProperties
<1>4. c \in Seq(B) /\ Len(c) = o + n /\ \A k \in 1 .. (o + n) : c[k] = t[k]
  <2>1. \A k \in 1 .. (o + n) : t[k] \in B
    BY <1>1, <1>2
  <2> QED  BY <1>1, <2>1, SubSeqProperties
<1>5. b \in Seq(B) /\ Len(b) = n /\ \A k \in 1 .. n : b[k] = t[o + k]
  <2>1. \A k \in 1 .. n : data[o + k - 1] = t[o + k]
    <3> TAKE k \in 1 .. n
    <3>1. o + k - 1 \in 0 .. (Len(t) - 1) /\ (o + k - 1) + 1 = o + k
      BY <1>1
    <3> QED  BY <3>1 DEF Holds
  <2>2. \A k \in 1 .. n : t[o + k] \in B
    BY <1>1, <1>2
  <2> QED  BY <1>1, <2>1, <2>2 DEF Bytes
<1> HIDE DEF a, b, c
<1>6. a \o b \in Seq(B) /\ Len(a \o b) = o + n
      /\ \A k \in 1 .. (o + n) : (a \o b)[k] = IF k <= o THEN a[k] ELSE b[k - o]
  BY <1>1, <1>3, <1>5, ConcatProperties
<1>7. ASSUME NEW k \in 1 .. (o + n) PROVE (a \o b)[k] = c[k]
  <2>1. CASE k <= o
    BY <1>1, <1>3, <1>4, <1>6, <2>1
  <2>2. CASE ~(k <= o)
    <3>1. k - o \in 1 .. n /\ o + (k - o) = k
      BY <1>1, <2>2
    <3>2. (a \o b)[k] = b[k - o]
      BY <1>6, <2>2
    <3> QED  BY <1>4, <1>5, <3>1, <3>2
  <2> QED  BY <2>1, <2>2
<1>8. a \o b = c
  <2>1. Len(a \o b) = Len(c) /\ \A k \in 1 .. Len(a \o b) : (a \o b)[k] = c[k]
    BY <1>4, <1>6, <1>7
  <2> QED  BY <1>4, <1>6, <2>1, SeqEqual
<1> QED  BY <1>8 DEF a, b, c

-----------------------------------------------------------------------------
(* A quiet file alone writes its device.  When it does not, the buffer     *)
(* holds its text, and what it has read is the text up to its position.    *)
QuietFile(f) ==
  /\ pc[f] \in {"open", "read", "write"}
  /\ Writing(device[f]) \subseteq {f}
  /\ pc[f] # "write" => /\ Holds(buffers[device[f]], text[f])
                        /\ off[f] \in 0 .. Len(text[f])
                        /\ got[f] = SubSeq(text[f], 1, off[f])
  /\ pc[f] = "read" => /\ len[f] \in 0 .. (Len(text[f]) - off[f])
                       /\ len[f] = 0 <=> off[f] = Len(text[f])
  /\ pc[f] = "write" => /\ got[f] = <<>>
                        /\ \A p \in 0 .. (len[f] - 1) : buffers[device[f]][p] = text[f][p + 1]

QuietInv ==
  /\ quiet \subseteq Files /\ DOMAIN off = Files /\ DOMAIN got = Files
  /\ \A f \in quiet : QuietFile(f)

(* A file whose own state, whose buffer and whose writers are left alone.  *)
LEMMA QuietFrame ==
  ASSUME NEW f \in quiet, QuietFile(f), (Writing(device[f]))' \subseteq {f},
         UNCHANGED <<pc[f], device[f], off[f], len[f], text[f], got[f], buffers[device[f]]>>
  PROVE  QuietFile(f)'
  BY DEF QuietFile, Holds

(* A step of one file leaves the other quiet files alone.                  *)
LEMMA OthersStayQuiet ==
  ASSUME SkeletonInv, QuietInv, NEW g \in Files, FileStep(g), NEW f \in quiet', f # g
  PROVE  f \in quiet /\ QuietFile(f)'
<1> USE DEF SkeletonInv, FileInv, WriteInv, QuietInv
<1>1. f \in quiet /\ f \in Files
  <2>1. CASE Open(g)
    BY <2>1 DEF Open
  <2>2. ASSUME NEW m \in Messages, WriteBegin(g, m) PROVE f \in quiet
    BY <2>2 DEF WriteBegin
  <2>3. CASE quiet' \subseteq quiet
    BY <2>3
  <2> QED  BY <2>1, <2>2, <2>3 DEF FileStep, Lookup, Release, ReadLength, ReadCopy, ReadFault,
                                   WriteByte, WriteFault, WriteEnd
<1>2. UNCHANGED <<pc[f], device[f], off[f], len[f]>>
  BY <1>1 DEF FileStep, Lookup, Open, Release, ReadLength, ReadCopy, ReadFault, WriteBegin,
              WriteByte, WriteFault, WriteEnd
<1>3. QuietFile(f) /\ Writing(device[f]) \subseteq {f}
  BY <1>1 DEF QuietFile
<1>4. CASE WriteByte(g) \/ WriteFault(g) \/ WriteEnd(g)
  <2>1. g \in Writing(device[g])
    BY <1>4 DEF WriteByte, WriteFault, WriteEnd, Writing
  <2>2. device[g] # device[f]
    BY <1>3, <2>1
  <2>3. UNCHANGED <<text[f], got[f], buffers[device[f]]>>
    BY <1>1, <1>4, <2>2 DEF WriteByte, WriteFault, WriteEnd, StageInv, BuffersSoFar
  <2>4. (Writing(device[f]))' \subseteq {f}
    BY <1>2, <1>3, <1>4 DEF WriteByte, WriteFault, WriteEnd, Writing
  <2> QED  BY <1>1, <1>2, <1>3, <2>3, <2>4, QuietFrame
<1>5. ASSUME NEW m \in Messages, WriteBegin(g, m) PROVE QuietFile(f)'
  <2>1. device[f] # device[g]
    BY <1>5 DEF WriteBegin
  <2>2. UNCHANGED <<text[f], got[f], buffers[device[f]]>>
    BY <1>1, <1>5, <2>1 DEF WriteBegin
  <2>3. (Writing(device[f]))' \subseteq {f}
    BY <1>2, <1>3, <1>5, <2>1 DEF WriteBegin, Writing
  <2> QED  BY <1>1, <1>2, <1>3, <2>2, <2>3, QuietFrame
<1>6. CASE ~(WriteByte(g) \/ WriteFault(g) \/ WriteEnd(g)) /\ \A m \in Messages : ~WriteBegin(g, m)
  <2>1. UNCHANGED <<text[f], got[f], buffers[device[f]]>>
    BY <1>1, <1>6 DEF FileStep, Lookup, Open, Release, ReadLength, ReadCopy, ReadFault
  <2>2. pc'[g] # "write" /\ \A h \in Files : h # g => UNCHANGED <<pc[h], device[h]>>
    BY <1>6 DEF FileStep, Lookup, Open, Release, ReadLength, ReadCopy, ReadFault
  <2>3. (Writing(device[f]))' \subseteq {f}
    BY <1>2, <1>3, <2>2 DEF Writing
  <2> QED  BY <1>1, <1>2, <1>3, <2>1, <2>3, QuietFrame
<1> QED  BY <1>1, <1>4, <1>5, <1>6

(* The steps of a quiet file itself that read.                             *)
LEMMA ReadsStayQuiet ==
  ASSUME SkeletonInv, QuietInv, NEW g \in quiet,
         (\E count \in 1 .. SKELETON_BUFFER_SIZE : ReadLength(g, count)) \/ ReadCopy(g) \/ ReadFault(g)
  PROVE  QuietFile(g)'
<1> DEFINE data == buffers[device[g]]
           t == text[g]
           o == off[g]
<1>1. g \in Files /\ QuietFile(g) /\ pc[g] \in {"open", "read"}
  BY DEF ReadLength, ReadCopy, ReadFault, QuietInv
<1>2. Holds(data, t) /\ o \in 0 .. Len(t) /\ got[g] = SubSeq(t, 1, o) /\ Len(t) \in Nat
  BY <1>1 DEF QuietFile, Holds
<1>3. UNCHANGED <<device, text, buffers>> /\ pc'[g] \in {"open", "read"}
      /\ \A h \in Files : h # g => UNCHANGED pc[h]
  BY <1>1 DEF ReadLength, ReadCopy, ReadFault, SkeletonInv, FileInv
<1>4. (Writing(device[g]))' \subseteq {g}
  BY <1>1, <1>3 DEF QuietFile, Writing
<1>5. Holds(data, t)'
  BY <1>2, <1>3 DEF Holds
<1>6. ASSUME NEW count \in 1 .. SKELETON_BUFFER_SIZE, ReadLength(g, count) PROVE QuietFile(g)'
  <2>1. UNCHANGED <<off, got>> /\ pc'[g] = "read"
    BY <1>1, <1>6 DEF ReadLength, SkeletonInv, FileInv
  <2>2. Strnlen(data) = Len(t)
    BY <1>2, StrnlenOfText
  <2> DEFINE rest == Len(t) - o
  <2>3. len'[g] = IF rest <= 0 THEN 0 ELSE Min({count, rest})
    BY <1>1, <1>6, <2>2 DEF ReadLength, SkeletonInv, WriteInv
  <2>4. rest \in Nat /\ count \in Nat \ {0}
    BY <1>2
  <2> HIDE DEF rest
  <2>5. Min({count, rest}) \in {count, rest} /\ Min({count, rest}) <= count /\ Min({count, rest}) <= rest
    BY <2>4, MinOfTwo
  <2>6. len'[g] \in 0 .. rest /\ (len'[g] = 0 <=> rest = 0)
    BY <2>3, <2>4, <2>5
  <2>7. rest = 0 <=> o = Len(t)
    BY <1>2 DEF rest
  <2> QED  BY <1>2, <1>3, <1>4, <1>5, <2>1, <2>6, <2>7 DEF QuietFile, rest
<1>7. CASE ReadCopy(g)
  <2>1. len[g] \in 0 .. (Len(t) - o)
    BY <1>1, <1>7 DEF ReadCopy, QuietFile
  <2>2. pc'[g] = "open" /\ off'[g] = o + len[g] /\ got'[g] = got[g] \o Bytes(data, o, len[g])
    BY <1>1, <1>7 DEF ReadCopy, SkeletonInv, FileInv, QuietInv
  <2>3. got'[g] = SubSeq(t, 1, o + len[g])
    <3> HIDE DEF data, t, o
    <3>1. SubSeq(t, 1, o) \o Bytes(data, o, len[g]) = SubSeq(t, 1, o + len[g])
      BY <1>2, <2>1, CopyContinues
    <3> QED  BY <1>2, <2>2, <3>1
  <2>4. o + len[g] \in 0 .. Len(t)
    BY <1>2, <2>1
  <2> QED  BY <1>3, <1>4, <1>5, <2>2, <2>3, <2>4 DEF QuietFile
<1>8. CASE ReadFault(g)
  <2>1. UNCHANGED <<off, got>> /\ pc'[g] = "open"
    BY <1>1, <1>8 DEF ReadFault, SkeletonInv, FileInv
  <2> QED  BY <1>2, <1>3, <1>4, <1>5, <2>1 DEF QuietFile
<1> QED  BY <1>6, <1>7, <1>8

(* The steps that make a file quiet, and its own writes.                   *)
LEMMA OpensAreQuiet ==
  ASSUME SkeletonInv, QuietInv, NEW g \in Files, Open(g), g \in quiet'
  PROVE  QuietFile(g)'
<1> USE DEF SkeletonInv, FileInv, WriteInv, QuietInv
<1> DEFINE data == buffers[device[g]]
<1>1. pc[g] = "opening" /\ g \notin quiet
  BY DEF Open, QuietFile
<1>2. Writing(device[g]) = {}
  BY <1>1 DEF Open
<1>3. g \in Using /\ module \in {"cdev", "node", "in"} /\ device[g] \in Devices
  BY <1>1 DEF Using
<1>4. data \in Allocated
  BY <1>3 DEF StageInv, BuffersSoFar
<1>5. data # None
  BY <1>4, SkeletonAssumption DEF Allocated, Places, None
<1>6. Holds(data, Text(data))
  <2>1. IsString(data)
    BY <1>2, <1>3, <1>5 DEF AtRestIsAString
  <2> HIDE DEF data
  <2> QED  BY <1>4, <2>1, TextIsHeld
<1>7. /\ pc'[g] = "open" /\ off'[g] = 0 /\ got'[g] = <<>> /\ text'[g] = Text(data)
      /\ UNCHANGED <<device, buffers>>
      /\ \A h \in Files : h # g => UNCHANGED pc[h]
  BY <1>2 DEF Open
<1>8. (Writing(device[g]))' \subseteq {g}
  BY <1>2, <1>7 DEF Writing
<1>9. Len(Text(data)) \in Nat /\ SubSeq(Text(data), 1, 0) = <<>>
  BY <1>6, SubSeqEmpty DEF Holds
<1> QED  BY <1>6, <1>7, <1>8, <1>9 DEF QuietFile, Holds

LEMMA WritersStayQuiet ==
  ASSUME SkeletonInv, QuietInv, NEW g \in Files, g \in quiet',
         (\E m \in Messages : WriteBegin(g, m)) \/ WriteByte(g) \/ WriteFault(g) \/ WriteEnd(g)
  PROVE  QuietFile(g)'
<1> USE DEF SkeletonInv, FileInv, WriteInv, QuietInv
<1>1. ASSUME NEW m \in Messages, WriteBegin(g, m) PROVE QuietFile(g)'
  <2>1. Writing(device[g]) = {}
    BY <1>1 DEF WriteBegin
  <2>2. pc'[g] = "write" /\ got'[g] = <<>> /\ len'[g] = 0 /\ UNCHANGED device
        /\ \A h \in Files : h # g => UNCHANGED pc[h]
    BY <1>1 DEF WriteBegin
  <2>3. (Writing(device[g]))' \subseteq {g}
    BY <2>1, <2>2 DEF Writing
  <2> QED  BY <2>2, <2>3 DEF QuietFile
<1>2. ASSUME WriteByte(g) PROVE QuietFile(g)'
  <2>1. g \in quiet /\ QuietFile(g) /\ pc[g] = "write" /\ Passed(g)
    BY <1>2 DEF WriteByte
  <2>2. buffers \in [Devices -> Allocated] /\ device[g] \in Devices
    BY <2>1, WritersHaveBuffers DEF StageInv, BuffersSoFar
  <2>3. UNCHANGED <<pc, device, text, got>> /\ len'[g] = len[g] + 1
    BY <1>2 DEF WriteByte
  <2>4. len[g] \in Nat /\ len[g] \in Places
    BY <1>2, <2>1, SkeletonAssumption DEF WriteByte, Passed, Places
  <2>5. buffers'[device[g]] = [buffers[device[g]] EXCEPT ![len[g]] = text[g][len[g] + 1]]
    BY <1>2, <2>2 DEF WriteByte
  <2>6. ASSUME NEW p \in 0 .. len[g] PROVE buffers'[device[g]][p] = text[g][p + 1]
    <3>1. p \in Places
      BY <2>4, SkeletonAssumption DEF Places
    <3>2. buffers[device[g]] \in Allocated
      BY <2>2
    <3>3. CASE p = len[g]
      BY <2>5, <3>1, <3>2, <3>3 DEF Allocated
    <3>4. CASE p # len[g]
      <4>1. p \in 0 .. (len[g] - 1)
        BY <2>4, <3>4
      <4>2. buffers[device[g]][p] = text[g][p + 1]
        BY <2>1, <4>1 DEF QuietFile
      <4> QED  BY <2>5, <3>1, <3>2, <3>4, <4>2 DEF Allocated
    <3> QED  BY <3>3, <3>4
  <2>7. \A p \in 0 .. (len'[g] - 1) : buffers'[device[g]][p] = text[g][p + 1]
    BY <2>3, <2>4, <2>6
  <2>8. (Writing(device[g]))' \subseteq {g}
    BY <2>1, <2>3 DEF QuietFile, Writing
  <2> QED  BY <2>1, <2>3, <2>7, <2>8 DEF QuietFile
<1>3. ASSUME WriteEnd(g) PROVE QuietFile(g)'
  <2>1. g \in quiet /\ QuietFile(g) /\ pc[g] = "write" /\ Passed(g) /\ len[g] = Len(text[g])
    BY <1>3 DEF WriteEnd
  <2>2. buffers[device[g]] \in Allocated /\ device[g] \in Devices
    BY <2>1, WritersHaveBuffers
  <2>3. UNCHANGED <<device, text, got>> /\ off'[g] = 0 /\ pc'[g] = "open"
        /\ \A h \in Files : h # g => UNCHANGED pc[h]
    BY <1>3, <2>1 DEF WriteEnd
  <2>4. text[g] \in Seq(Nat \ {0}) /\ Len(text[g]) \in Nat /\ Len(text[g]) < SKELETON_BUFFER_SIZE
    BY <2>1 DEF Passed
  <2>5. Len(text[g]) \in Places
    BY <2>4, SkeletonAssumption DEF Places
  <2>6. buffers'[device[g]] = [buffers[device[g]] EXCEPT ![Len(text[g])] = Nul]
    BY <1>3, <2>1, <2>2 DEF WriteEnd, StageInv, BuffersSoFar
  <2>7. buffers'[device[g]][Len(text[g])] = Nul
    BY <2>2, <2>5, <2>6 DEF Allocated
  <2>8. ASSUME NEW p \in 0 .. (Len(text[g]) - 1) PROVE buffers'[device[g]][p] = text[g][p + 1]
    <3>1. p \in Places /\ p # Len(text[g])
      BY <2>4, SkeletonAssumption DEF Places
    <3>2. buffers[device[g]][p] = text[g][p + 1]
      BY <2>1 DEF QuietFile
    <3> QED  BY <2>2, <2>6, <3>1, <3>2 DEF Allocated
  <2>9. text[g] \in Seq(Byte \ {Nul})
    <3>1. Nat \ {0} \subseteq Byte \ {Nul}
      BY DEF Byte, Nul
    <3> QED  BY <2>4, <3>1, SeqMonotonic
  <2>10. Holds(buffers[device[g]], text[g])'
    BY <2>3, <2>5, <2>7, <2>8, <2>9 DEF Holds
  <2>11. got[g] = SubSeq(text[g], 1, 0)
    BY <2>1, SubSeqEmpty DEF QuietFile
  <2>12. (Writing(device[g]))' \subseteq {g}
    BY <2>1, <2>3 DEF QuietFile, Writing
  <2> QED  BY <2>3, <2>4, <2>10, <2>11, <2>12 DEF QuietFile
<1>4. ~WriteFault(g)
  BY DEF WriteFault
<1> QED  BY <1>1, <1>2, <1>3, <1>4

LEMMA QuietStep ==
  ASSUME SkeletonInv, QuietInv, [Next]_vars
  PROVE  QuietInv'
<1>1. CASE UNCHANGED <<buffers, calls>>
  BY <1>1 DEF QuietInv, QuietFile, Holds, Writing, calls
<1>2. CASE AllocateBuffer
  <2>1. Using = {} /\ UNCHANGED calls
    BY <1>2 DEF AllocateBuffer, SkeletonInv, FileInv, Using
  <2>2. quiet = {}
    BY <2>1 DEF QuietInv, QuietFile, Using
  <2> QED  BY <2>1, <2>2 DEF QuietInv, calls
<1>3. CASE Fail \/ Exit
  BY <1>3 DEF Fail, Exit, Vanish, QuietInv
<1>4. ASSUME NEW g \in Files, FileStep(g) PROVE QuietInv'
  <2>1. quiet' \subseteq Files /\ DOMAIN off' = Files /\ DOMAIN got' = Files
    <3>1. quiet' \subseteq quiet \cup {g}
      <4>1. CASE Open(g)
        BY <4>1 DEF Open
      <4>2. ASSUME NEW m \in Messages, WriteBegin(g, m) PROVE quiet' \subseteq quiet \cup {g}
        BY <4>2 DEF WriteBegin
      <4> QED  BY <1>4, <4>1, <4>2 DEF FileStep, Lookup, Release, ReadLength, ReadCopy, ReadFault,
                                      WriteByte, WriteFault, WriteEnd
    <3>2. DOMAIN off' = Files /\ DOMAIN got' = Files
      BY <1>4 DEF QuietInv, FileStep, Lookup, Open, Release, ReadLength, ReadCopy, ReadFault,
                  WriteBegin, WriteByte, WriteFault, WriteEnd
    <3> QED  BY <3>1, <3>2 DEF QuietInv
  <2>2. \A f \in quiet' : f # g => QuietFile(f)'
    BY <1>4, OthersStayQuiet
  <2>3. ASSUME g \in quiet' PROVE QuietFile(g)'
    <3>1. CASE Open(g)
      BY <2>3, <3>1, OpensAreQuiet
    <3>2. CASE (\E m \in Messages : WriteBegin(g, m)) \/ WriteByte(g) \/ WriteFault(g) \/ WriteEnd(g)
      BY <2>3, <3>2, WritersStayQuiet
    <3>3. CASE (\E count \in 1 .. SKELETON_BUFFER_SIZE : ReadLength(g, count)) \/ ReadCopy(g) \/ ReadFault(g)
      <4>1. g \in quiet
        BY <2>3, <3>3 DEF ReadLength, ReadCopy, ReadFault
      <4> QED  BY <3>3, <4>1, ReadsStayQuiet
    <3>4. ~Release(g) /\ \A d \in Devices : ~Lookup(g, d)
      BY <2>3 DEF Release, Lookup, QuietInv, QuietFile
    <3> QED  BY <1>4, <3>1, <3>2, <3>3, <3>4 DEF FileStep
  <2> QED  BY <2>1, <2>2, <2>3 DEF QuietInv
<1> QED  BY <1>1, <1>2, <1>3, <1>4
         DEF Next, LoadStep, Load, Acquire, AddCdev, CreateNode, vars

(* Reads in pieces of any size, of messages of any length from buffers of  *)
(* any size, return the message.                                           *)
THEOREM ReadsReturnTheText == Spec => []ReadsAreExact
<1>1. Init => QuietInv
  BY DEF Init, QuietInv
<1>2. SkeletonInv /\ QuietInv /\ [Next]_vars => QuietInv'
  BY QuietStep
<1>3. QuietInv => ReadsAreExact
  BY DEF QuietInv, QuietFile, ReadsAreExact
<1> QED  BY <1>1, <1>2, <1>3, SkeletonInvariance, PTL DEF Spec

-----------------------------------------------------------------------------
(* Type correctness.  A read never passes the end of the buffer, also if   *)
(* others write between its strnlen and its copy.                          *)
PlaceInv ==
  /\ nodes \subseteq Devices /\ early \subseteq Files
  /\ off \in [Files -> 0 .. SKELETON_BUFFER_SIZE]
  /\ len \in [Files -> 0 .. SKELETON_BUFFER_SIZE]
  /\ text \in [Files -> Seq(Byte)] /\ got \in [Files -> Seq(Byte)]
  /\ \A f \in Files : pc[f] = "read" => off[f] + len[f] <= SKELETON_BUFFER_SIZE

LEMMA BytesAreBytes ==
  ASSUME NEW data \in Allocated, NEW from \in Nat, NEW n \in Nat, from + n <= SKELETON_BUFFER_SIZE
  PROVE  Bytes(data, from, n) \in Seq(Byte)
<1>1. \A k \in 1 .. n : from + k - 1 \in Places
  BY SkeletonAssumption DEF Places
<1>2. \A k \in 1 .. n : data[from + k - 1] \in Byte
  BY <1>1 DEF Allocated
<1> QED  BY <1>2 DEF Bytes

LEMMA UsersHaveBuffers ==
  ASSUME SkeletonInv, NEW f \in Files, pc[f] \in {"opening", "open", "read", "write"}
  PROVE  device[f] \in Devices /\ buffers[device[f]] \in Allocated
<1>1. f \in Using
  BY DEF Using
<1> QED  BY <1>1 DEF SkeletonInv, FileInv, StageInv, BuffersSoFar

LEMMA PlaceStep ==
  ASSUME SkeletonInv, PlaceInv, [Next]_vars
  PROVE  PlaceInv'
<1> USE SkeletonAssumption DEF PlaceInv
<1>1. CASE LoadStep
  <2>1. nodes' \subseteq Devices
    BY <1>1 DEF LoadStep, Load, Acquire, AllocateBuffer, AddCdev, CreateNode, Fail, Exit,
                SkeletonInv, StageInv
  <2>2. CASE UNCHANGED calls
    BY <2>1, <2>2 DEF calls
  <2>3. CASE Fail \/ Exit
    <3>1. UNCHANGED early /\ \A f \in Files : pc'[f] # "read"
      BY <2>3 DEF Fail, Exit, Vanish, Using, SkeletonInv, FileInv
    <3>2. <<>> \in Seq(Byte)
      BY EmptySeq
    <3>3. off' = [f \in Files |-> 0] /\ len' = [f \in Files |-> 0]
          /\ text' = [f \in Files |-> <<>>] /\ got' = [f \in Files |-> <<>>]
      BY <2>3 DEF Fail, Exit, Vanish
    <3>4. text' \in [Files -> Seq(Byte)] /\ got' \in [Files -> Seq(Byte)]
      BY <3>2, <3>3
    <3> QED  BY <2>1, <3>1, <3>3, <3>4
  <2> QED  BY <1>1, <2>2, <2>3 DEF LoadStep, Load, Acquire, AllocateBuffer, AddCdev, CreateNode
<1>2. ASSUME NEW g \in Files, FileStep(g) PROVE PlaceInv'
  <2> USE <1>2 DEF SkeletonInv, FileInv
  <2>1. UNCHANGED nodes
    BY OthersKeepBuffers, WritesStayInBuffers DEF load
  <2>2. ASSUME NEW d \in Devices, Lookup(g, d) PROVE PlaceInv'
    BY <2>1, <2>2 DEF Lookup
  <2>3. CASE Open(g)
    <3> DEFINE data == buffers[device[g]]
    <3>1. data \in Allocated
      BY <2>3, UsersHaveBuffers DEF Open
    <3>2. Text(data) \in Seq(Byte) /\ <<>> \in Seq(Byte)
      <4> HIDE DEF data
      <4> QED  BY <3>1, StrnlenIsBounded, BytesAreBytes DEF Text
    <3> QED  BY <2>1, <2>3, <3>2 DEF Open
  <2>4. CASE Release(g)
    BY <2>1, <2>4, EmptySeq DEF Release
  <2>5. ASSUME NEW count \in 1 .. SKELETON_BUFFER_SIZE, ReadLength(g, count) PROVE PlaceInv'
    <3> DEFINE n == Strnlen(buffers[device[g]])
               rest == n - off[g]
    <3>1. n \in 0 .. SKELETON_BUFFER_SIZE
      BY StrnlenIsBounded
    <3>2. UNCHANGED <<off, text, got, early>> /\ \A f \in Files : f # g => UNCHANGED <<pc[f], len[f]>>
      BY <2>5 DEF ReadLength
    <3>3. len' = [len EXCEPT ![g] = IF rest <= 0 THEN 0 ELSE Min({count, rest})]
      BY <2>5 DEF ReadLength
    <3> HIDE DEF n
    <3>4. rest \in Int /\ rest <= SKELETON_BUFFER_SIZE - off[g] /\ count \in Nat
      BY <3>1
    <3> HIDE DEF rest
    <3>5. Min({count, rest}) \in {count, rest} /\ Min({count, rest}) <= rest
      <4>1. count \in Int /\ rest \in Int
        BY <3>4
      <4> QED  BY <4>1, MinOfTwo, Zenon
    <3>6. (IF rest <= 0 THEN 0 ELSE Min({count, rest})) \in 0 .. (SKELETON_BUFFER_SIZE - off[g])
      BY <3>4, <3>5
    <3>7. len' \in [Files -> 0 .. SKELETON_BUFFER_SIZE] /\ off[g] + len'[g] <= SKELETON_BUFFER_SIZE
      <4> DEFINE l == IF rest <= 0 THEN 0 ELSE Min({count, rest})
      <4>1. len' = [len EXCEPT ![g] = l] /\ l \in 0 .. (SKELETON_BUFFER_SIZE - off[g])
        BY <3>3, <3>6
      <4>2. off[g] \in 0 .. SKELETON_BUFFER_SIZE
        OBVIOUS
      <4> HIDE DEF l
      <4> QED  BY <4>1, <4>2
    <3>8. \A f \in Files : pc'[f] = "read" => off'[f] + len'[f] <= SKELETON_BUFFER_SIZE
      BY <3>2, <3>7
    <3> QED  BY <2>1, <3>2, <3>7, <3>8
  <2>6. CASE ReadCopy(g)
    <3>1. pc[g] = "read" /\ buffers[device[g]] \in Allocated
      BY <2>6, UsersHaveBuffers DEF ReadCopy
    <3>2. Bytes(buffers[device[g]], off[g], len[g]) \in Seq(Byte)
      BY <3>1, BytesAreBytes
    <3>3. got' \in [Files -> Seq(Byte)]
      BY <2>6, <3>2 DEF ReadCopy
    <3>4. off' \in [Files -> 0 .. SKELETON_BUFFER_SIZE] /\ len' \in [Files -> 0 .. SKELETON_BUFFER_SIZE]
      BY <2>6, <3>1 DEF ReadCopy
    <3>5. \A f \in Files : pc'[f] = "read" => off'[f] + len'[f] <= SKELETON_BUFFER_SIZE
      BY <2>6 DEF ReadCopy
    <3> QED  BY <2>1, <2>6, <3>3, <3>4, <3>5 DEF ReadCopy
  <2>7. CASE ReadFault(g)
    BY <2>1, <2>7 DEF ReadFault
  <2>8. ASSUME NEW m \in Messages, WriteBegin(g, m) PROVE PlaceInv'
    <3> DEFINE cut == SubSeq(m, 1, Min({Len(m), SKELETON_BUFFER_SIZE - 1}))
    <3>1. cut \in Seq(Nat \ {0})
      BY CutMessage
    <3> HIDE DEF cut
    <3>2. cut \in Seq(Byte) /\ <<>> \in Seq(Byte)
      <4>1. Nat \ {0} \subseteq Byte
        BY DEF Byte
      <4>2. cut \in Seq(Byte)
        BY <3>1, <4>1, SeqMonotonic, Zenon
      <4>3. <<>> \in Seq(Byte)
        BY EmptySeq, Zenon
      <4> QED  BY <4>2, <4>3
    <3>3. text' = [h \in Files |-> IF h = g THEN cut
                    ELSE IF pc[h] # "write" /\ device[h] = device[g] THEN <<>> ELSE text[h]]
      BY <2>8 DEF WriteBegin, cut
    <3>4. text' \in [Files -> Seq(Byte)]
      BY <3>2, <3>3
    <3>5. got' \in [Files -> Seq(Byte)]
      BY <2>8, <3>2 DEF WriteBegin
    <3>6. UNCHANGED <<off, early>> /\ len' \in [Files -> 0 .. SKELETON_BUFFER_SIZE]
      BY <2>8 DEF WriteBegin
    <3>7. \A f \in Files : pc'[f] = "read" => off'[f] + len'[f] <= SKELETON_BUFFER_SIZE
      BY <2>8 DEF WriteBegin
    <3> QED  BY <2>1, <3>4, <3>5, <3>6, <3>7
  <2>9. CASE WriteByte(g)
    <3>1. len[g] + 1 \in 0 .. SKELETON_BUFFER_SIZE
      BY <2>9 DEF WriteByte, WriteInv, Passed
    <3> QED  BY <2>1, <2>9, <3>1 DEF WriteByte
  <2>10. CASE WriteFault(g) \/ WriteEnd(g)
    <3>1. <<>> \in Seq(Byte)
      BY EmptySeq
    <3>2. UNCHANGED <<got, early>> /\ text' \in {text, [text EXCEPT ![g] = <<>>]}
          /\ off' \in {off, [off EXCEPT ![g] = 0]} /\ len' = [len EXCEPT ![g] = 0]
          /\ pc' = [pc EXCEPT ![g] = "open"]
      BY <2>10 DEF WriteFault, WriteEnd
    <3>3. text' \in [Files -> Seq(Byte)]
      BY <3>1, <3>2
    <3>4. off' \in [Files -> 0 .. SKELETON_BUFFER_SIZE] /\ len' \in [Files -> 0 .. SKELETON_BUFFER_SIZE]
      <4>1. 0 \in 0 .. SKELETON_BUFFER_SIZE
        OBVIOUS
      <4>2. [off EXCEPT ![g] = 0] \in [Files -> 0 .. SKELETON_BUFFER_SIZE]
        BY <4>1
      <4>3. [len EXCEPT ![g] = 0] \in [Files -> 0 .. SKELETON_BUFFER_SIZE]
        BY <4>1
      <4> QED  BY <3>2, <4>2, <4>3
    <3>5. \A f \in Files : pc'[f] = "read" => off'[f] + len'[f] <= SKELETON_BUFFER_SIZE
      BY <3>2
    <3> QED  BY <2>1, <3>2, <3>3, <3>4, <3>5
  <2> QED  BY <2>2, <2>3, <2>4, <2>5, <2>6, <2>7, <2>8, <2>9, <2>10 DEF FileStep
<1>3. CASE UNCHANGED vars
  BY <1>3 DEF vars, load, calls
<1> QED  BY <1>1, <1>2, <1>3 DEF Next

(* Positions stay within the buffer, and what is read and written is made  *)
(* of bytes.                                                               *)
THEOREM TypeCorrect == Spec => []TypeOK
<1>1. Init => PlaceInv
  BY SkeletonAssumption, EmptySeq DEF Init, PlaceInv
<1>2. SkeletonInv /\ PlaceInv /\ [Next]_vars => PlaceInv'
  BY PlaceStep
<1>3. Init => QuietInv
  BY DEF Init, QuietInv
<1>4. SkeletonInv /\ QuietInv /\ [Next]_vars => QuietInv'
  BY QuietStep
<1>5. SkeletonInv /\ PlaceInv /\ QuietInv => TypeOK
  BY DEF SkeletonInv, StageInv, OwnedSoFar, BuffersSoFar, CdevsSoFar, FileInv, Allocated,
         PlaceInv, QuietInv, TypeOK, Released
<1> QED  BY <1>1, <1>2, <1>3, <1>4, <1>5, SkeletonInvariance, PTL DEF Spec
=============================================================================
