--------------------------- MODULE FanDaemonProofs ---------------------------
(***************************************************************************)
(* Proof that the table of client connections is right for every number of *)
(* clients and slots: client_events[0 .. client_event_count - 1] is the    *)
(* set of open connections, each once, although the loop follows stale     *)
(* pointers into it.  Then that the daemon implements RequestServer, which *)
(* rests on who stands where between connect and the answer; and that the  *)
(* pointers are exact while there is never more than one connection.       *)
(***************************************************************************)
EXTENDS FanDaemon, FiniteSetTheorems, TLAPS

(* What the invariant needs to know of the types; the backlog and the      *)
(* answers do not matter to it.                                            *)
TableType ==
  /\ conn \in [Fds -> Clients \cup {None}]
  /\ client_events \in [Slots -> Fds \cup {0}]
  /\ client_event_count \in 0 .. MAX_SOCKET_CLIENTS
  /\ interest \in [Fds -> Slots \cup {NoSlot}]
  /\ armed \subseteq Fds
  /\ batch \in Seq(Slots \cup {Listen})
  /\ backlog \in Seq(Clients)
  /\ daemon \in {"loop", "recv", "send", "dead"}
  /\ fd \in Fds \cup {0}
  /\ daemon \in {"recv", "send"} => fd \in Fds

(* accept is called once for each time the server socket was ready, so it  *)
(* finds a connection.                                                     *)
ListenInv ==
  /\ \A i, j \in DOMAIN batch : batch[i] = Listen /\ batch[j] = Listen => i = j
  /\ \A i \in DOMAIN batch : batch[i] = Listen => backlog # <<>>

TableInv == TableType /\ PointersAreFilled /\ SlotsMatchConnections

(* Accepting: the new entry is the new connection, and no other has its    *)
(* descriptor.                                                             *)
LEMMA AdmitLemma ==
  ASSUME TableType, SlotsMatchConnections, client_event_count < MAX_SOCKET_CLIENTS,
         NEW c \in Clients, NEW f \in Fds, f \notin Open, Admit(c, f)
  PROVE  /\ SlotsMatchConnections'
         /\ client_events' \in [Slots -> Fds \cup {0}]
         /\ client_event_count' \in 1 .. MAX_SOCKET_CLIENTS
<1> USE DaemonAssumption DEF TableType, Slots
<1>1. /\ client_event_count \in Slots
      /\ client_event_count' = client_event_count + 1
      /\ client_events' \in [Slots -> Fds \cup {0}]
      /\ \A i \in Slots : client_events'[i] =
           IF i = client_event_count THEN f ELSE client_events[i]
  BY DEF Admit
<1>2. Open' = Open \cup {f}
  BY DEF Admit, Open
<1>3. InUse' = InUse \cup {f}
  <2>1. ASSUME NEW x \in InUse' PROVE x \in InUse \cup {f}
    BY <1>1, <2>1 DEF InUse
  <2>2. ASSUME NEW x \in InUse PROVE x \in InUse'
    <3>1. PICK i \in 0 .. (client_event_count - 1) : x = client_events[i]
      BY <2>2 DEF InUse
    <3>2. i \in 0 .. (client_event_count' - 1) /\ client_events'[i] = x
      BY <1>1, <3>1
    <3>3. QED
      BY <3>2 DEF InUse
  <2>3. f \in InUse'
    BY <1>1 DEF InUse
  <2>4. QED
    BY <2>1, <2>2, <2>3
<1>4. \A i \in 0 .. (client_event_count - 1) : client_events[i] # f
  BY DEF SlotsMatchConnections, InUse
<1>5. \A i, j \in 0 .. (client_event_count' - 1) :
        i # j => client_events'[i] # client_events'[j]
  BY <1>1, <1>4 DEF SlotsMatchConnections
<1>6. QED
  BY <1>1, <1>2, <1>3, <1>5 DEF SlotsMatchConnections

(* Removing: the entry of a closed descriptor is replaced by the last one, *)
(* and all other connections keep theirs.                                  *)
LEMMA RemoveLemma ==
  ASSUME TableType, SlotsMatchConnections, fd \in Fds, RemoveSlot
  PROVE  /\ InUse' = InUse \ {fd}
         /\ \A i, j \in 0 .. (client_event_count' - 1) :
              i # j => client_events'[i] # client_events'[j]
         /\ client_events' \in [Slots -> Fds \cup {0}]
         /\ client_event_count' \in 0 .. MAX_SOCKET_CLIENTS
         /\ \A i \in Slots : client_events[i] # 0 => client_events'[i] # 0
<1> USE DaemonAssumption DEF TableType, Slots
<1>1. CASE UNCHANGED table /\ SlotOf(fd) = {}
  <2>1. fd \notin InUse
    <3>1. SUFFICES ASSUME NEW k \in 0 .. (client_event_count - 1), client_events[k] = fd
                   PROVE  FALSE
      BY DEF InUse
    <3>2. k \in SlotOf(fd)
      BY <3>1 DEF SlotOf, SlotsMatchConnections
    <3>3. QED
      BY <3>2, <1>1
  <2>2. QED
    BY <2>1, <1>1 DEF InUse, table, SlotsMatchConnections
<1>2. ASSUME NEW i \in SlotOf(fd),
             client_event_count' = client_event_count - 1,
             client_events' = [client_events EXCEPT ![i] = client_events[client_event_count - 1]]
      PROVE  /\ InUse' = InUse \ {fd}
             /\ \A j, k \in 0 .. (client_event_count' - 1) :
                  j # k => client_events'[j] # client_events'[k]
             /\ client_events' \in [Slots -> Fds \cup {0}]
             /\ client_event_count' \in 0 .. MAX_SOCKET_CLIENTS
             /\ \A j \in Slots : client_events[j] # 0 => client_events'[j] # 0
  <2> DEFINE last == client_event_count - 1
  <2>1. i \in 0 .. last /\ client_events[i] = fd
    BY DEF SlotOf
  <2>2. last \in 0 .. last /\ last \in Slots /\ i \in Slots /\ last \in Int
    BY <2>1
  <2>3. /\ \A j \in Slots : client_events'[j] =
             IF j = i THEN client_events[last] ELSE client_events[j]
        /\ client_events' \in [Slots -> Fds \cup {0}]
    BY <1>2, <2>2
  <2>4. client_events[last] \in Fds
    <3>1. client_events[last] \in InUse
      BY <2>2 DEF InUse
    <3>2. QED
      BY <3>1 DEF SlotsMatchConnections, Open
  <2>5. \A j \in 0 .. last : client_events[j] = fd => j = i
    BY <2>1, <2>2 DEF SlotsMatchConnections
  <2>6. InUse' = InUse \ {fd}
    <3>1. ASSUME NEW x \in InUse' PROVE x \in InUse \ {fd}
      <4>1. PICK j \in 0 .. (last - 1) : x = client_events'[j]
        BY <1>2, <3>1 DEF InUse
      <4>2. j \in Slots /\ j \in 0 .. last /\ j # last
        BY <2>2, <4>1
      <4>3. CASE j = i
        BY <4>1, <4>2, <4>3, <2>2, <2>3, <2>5 DEF InUse
      <4>4. CASE j # i
        BY <4>1, <4>2, <4>4, <2>3, <2>5 DEF InUse
      <4>5. QED
        BY <4>3, <4>4
    <3>2. ASSUME NEW x \in InUse, x # fd PROVE x \in InUse'
      <4>1. PICK j \in 0 .. last : x = client_events[j]
        BY <3>2 DEF InUse
      <4>2. j # i /\ j \in Slots
        BY <2>1, <2>2, <3>2, <4>1
      <4>3. CASE j = last
        <5>1. i \in 0 .. (last - 1) /\ client_events'[i] = x
          BY <2>1, <2>2, <2>3, <4>1, <4>2, <4>3
        <5>2. QED
          BY <5>1, <1>2 DEF InUse
      <4>4. CASE j # last
        <5>1. j \in 0 .. (last - 1) /\ client_events'[j] = x
          BY <2>2, <2>3, <4>1, <4>2, <4>4
        <5>2. QED
          BY <5>1, <1>2 DEF InUse
      <4>5. QED
        BY <4>3, <4>4
    <3>3. QED
      <4>1. fd \notin InUse'
        BY <3>1
      <4>2. QED
        BY <3>1, <3>2
  <2>7. \A j, k \in 0 .. (client_event_count' - 1) :
          j # k => client_events'[j] # client_events'[k]
    BY <1>2, <2>2, <2>3 DEF SlotsMatchConnections
  <2>8. client_event_count' \in 0 .. MAX_SOCKET_CLIENTS
    BY <1>2, <2>2
  <2>9. \A j \in Slots : client_events[j] # 0 => client_events'[j] # 0
    BY <2>3, <2>4 DEF Fds
  <2>10. QED
    BY <2>3, <2>6, <2>7, <2>8, <2>9
<1>3. QED
  BY <1>1, <1>2 DEF RemoveSlot

(* Epoll waits: the pointers of the ready connections become the batch.    *)
LEMMA WaitLemma ==
  ASSUME TableInv, EpollWait
  PROVE  TableInv'
<1> USE DaemonAssumption DEF TableInv, TableType, PointersAreFilled, EpollWait
<1>1. PICK S \in SUBSET Events :
        /\ armed' = armed \ S
        /\ \E s \in SetToSeqs(S) :
             batch' = [i \in DOMAIN s |-> IF s[i] = Listen THEN Listen ELSE interest[s[i]]]
  OBVIOUS
<1>0. PICK s \in SetToSeqs(S) :
        batch' = [i \in DOMAIN s |-> IF s[i] = Listen THEN Listen ELSE interest[s[i]]]
  BY <1>1
<1>2. /\ batch' \in Seq(Slots \cup {Listen})
      /\ \A i \in DOMAIN batch' : batch'[i] # Listen => client_events[batch'[i]] # 0
  <2>1. PICK n \in Nat : s \in [1 .. n -> S]
    <3>1. IsFiniteSet(S)
      <4>1. IsFiniteSet(Fds)
        BY FS_Interval DEF Fds
      <4>2. IsFiniteSet(Fds \cup {Listen})
        BY <4>1, FS_AddElement
      <4>3. S \subseteq Fds \cup {Listen}
        BY DEF Events, Ready
      <4>4. QED
        BY <4>2, <4>3, FS_Subset
    <3>2. Cardinality(S) \in Nat
      BY <3>1, FS_CardinalityType
    <3>3. QED
      BY <3>2 DEF SetToSeqs
  <2>2. \A x \in S : x # Listen => interest[x] \in Slots /\ client_events[interest[x]] # 0
    BY DEF Events, Ready
  <2>3. batch' = [i \in 1 .. n |-> IF s[i] = Listen THEN Listen ELSE interest[s[i]]]
    BY <1>0, <2>1
  <2>4. \A i \in 1 .. n : (IF s[i] = Listen THEN Listen ELSE interest[s[i]]) \in Slots \cup {Listen}
    BY <2>1, <2>2
  <2>5. batch' \in [1 .. n -> Slots \cup {Listen}]
    BY <2>3, <2>4
  <2>6. batch' \in Seq(Slots \cup {Listen})
    BY <2>5
  <2>7. QED
    BY <2>1, <2>2, <2>3, <2>6
<1>3. QED
  BY <1>1, <1>2 DEF table, SlotsMatchConnections, InUse, Open

(* Accepting a client.                                                     *)
LEMMA AcceptLemma ==
  ASSUME TableInv, backlog # <<>>, Accept
  PROVE  TableInv'
<1> USE DaemonAssumption DEF TableInv, TableType, PointersAreFilled
<1>1. /\ batch' \in Seq(Slots \cup {Listen}) /\ backlog' \in Seq(Clients)
      /\ Head(backlog) \in Clients
      /\ \A i \in DOMAIN batch' : i + 1 \in DOMAIN batch /\ batch'[i] = batch[i + 1]
  BY DEF Accept
<1>2. CASE Reject(Head(backlog))
  BY <1>1, <1>2 DEF Accept, Reject, table, SlotsMatchConnections, InUse, Open
<1>3. ASSUME client_event_count < MAX_SOCKET_CLIENTS,
             NEW f \in Fds, Lowest(f), Admit(Head(backlog), f)
      PROVE  TableInv'
  <2>1. /\ SlotsMatchConnections'
        /\ client_events' \in [Slots -> Fds \cup {0}]
        /\ client_event_count' \in 1 .. MAX_SOCKET_CLIENTS
    BY <1>1, <1>3, AdmitLemma DEF Lowest
  <2>2. client_event_count \in Slots
    BY <1>3 DEF Slots
  <2>3. /\ \A i \in Slots : client_events[i] # 0 => client_events'[i] # 0
        /\ client_events'[client_event_count] # 0
    BY <1>3, <2>2 DEF Admit, Fds
  <2>4. /\ conn' \in [Fds -> Clients \cup {None}]
        /\ interest' \in [Fds -> Slots \cup {NoSlot}]
        /\ armed' \subseteq Fds
    BY <1>1, <1>3, <2>2 DEF Admit
  <2>5. \A g \in armed' : interest'[g] \in Slots /\ client_events'[interest'[g]] # 0
    BY <1>3, <2>2, <2>3 DEF Admit
  <2>6. \A i \in DOMAIN batch' : batch'[i] # Listen => client_events'[batch'[i]] # 0
    <3>1. \A i \in DOMAIN batch' : batch'[i] \in Slots \cup {Listen}
      BY <1>1
    <3>2. QED
      BY <1>1, <2>3, <3>1
  <2>7. QED
    BY <1>1, <2>1, <2>4, <2>5, <2>6 DEF Accept
<1>4. QED
  BY <1>2, <1>3 DEF Accept

(* Answering a client, whichever descriptor the loop has in hand.          *)
LEMMA RespondLemma ==
  ASSUME TableInv, Respond
  PROVE  TableInv'
<1> USE DaemonAssumption DEF TableInv, TableType, PointersAreFilled
<1>1. fd \in Fds /\ RemoveSlot
  BY DEF Respond
<1>2. /\ InUse' = InUse \ {fd}
      /\ \A i, j \in 0 .. (client_event_count' - 1) :
           i # j => client_events'[i] # client_events'[j]
      /\ client_events' \in [Slots -> Fds \cup {0}]
      /\ client_event_count' \in 0 .. MAX_SOCKET_CLIENTS
      /\ \A i \in Slots : client_events[i] # 0 => client_events'[i] # 0
  BY <1>1, RemoveLemma
<1>3. Open' = Open \ {fd}
  BY <1>1 DEF Respond, Open
<1>4. /\ conn' \in [Fds -> Clients \cup {None}]
      /\ interest' \in [Fds -> Slots \cup {NoSlot}]
      /\ armed' = armed \ {fd}
      /\ \A f \in armed' : interest'[f] = interest[f]
      /\ batch' = batch /\ backlog' = backlog /\ daemon' = "loop" /\ fd' = 0
  BY <1>1 DEF Respond
<1>5. /\ \A f \in armed' : interest'[f] \in Slots /\ client_events'[interest'[f]] # 0
      /\ \A i \in DOMAIN batch' : batch'[i] # Listen => client_events'[batch'[i]] # 0
  <2>1. \A i \in DOMAIN batch : batch[i] \in Slots \cup {Listen}
    OBVIOUS
  <2>2. QED
    BY <1>2, <1>4, <2>1
<1>6. SlotsMatchConnections'
  BY <1>2, <1>3 DEF SlotsMatchConnections
<1>7. QED
  BY <1>2, <1>4, <1>5, <1>6

(* The batch names the server socket at most once, and then with reason.   *)
LEMMA ListenLemma ==
  ASSUME TableInv, ListenInv, Next
  PROVE  ListenInv'
<1> USE DaemonAssumption DEF TableInv, TableType, ListenInv
<1>1. CASE EpollWait
  <2>0. PICK S \in SUBSET Events : \E s \in SetToSeqs(S) :
          batch' = [i \in DOMAIN s |-> IF s[i] = Listen THEN Listen ELSE interest[s[i]]]
    BY <1>1 DEF EpollWait
  <2>1. PICK s \in SetToSeqs(S) :
          batch' = [i \in DOMAIN s |-> IF s[i] = Listen THEN Listen ELSE interest[s[i]]]
    BY <2>0
  <2>2. /\ s \in [DOMAIN s -> S]
        /\ \A i, j \in DOMAIN s : i # j => s[i] # s[j]
    BY DEF SetToSeqs
  <2>3. \A x \in S : x # Listen => interest[x] # Listen
    BY DEF PointersAreFilled, Events, Ready, Slots, Listen
  <2>4. DOMAIN batch' = DOMAIN s /\ \A i \in DOMAIN s : batch'[i] = Listen => s[i] = Listen
    BY <2>1, <2>2, <2>3
  <2>5. Listen \in S => backlog # <<>>
    BY DEF Events, Ready, Listen, Fds
  <2>6. QED
    BY <1>1, <2>2, <2>4, <2>5 DEF EpollWait
<1>2. CASE Accept \/ AcceptFails \/ Dispatch
  <2>1. /\ batch # <<>> /\ batch' = Tail(batch)
        /\ Head(batch) = Listen \/ backlog' = backlog
    BY <1>2 DEF Accept, AcceptFails, Dispatch, kernel
  <2>2. /\ 1 \in DOMAIN batch /\ Head(batch) = batch[1]
        /\ \A i \in DOMAIN batch' : /\ i + 1 \in DOMAIN batch /\ i + 1 # 1
                                    /\ batch'[i] = batch[i + 1]
    BY <2>1
  <2>3. QED
    BY <2>1, <2>2
<1>3. CASE UNCHANGED <<batch, backlog>>
  BY <1>3
<1>4. ASSUME NEW c \in Clients, Connect(c) PROVE ListenInv'
  BY <1>4 DEF Connect
<1>5. QED
  BY <1>1, <1>2, <1>3, <1>4
     DEF Next, DaemonStep, Recv, Respond, Perish, Send, Receive, Depart, kernel

(* Every step keeps the table right.                                       *)
LEMMA StepLemma ==
  ASSUME TableInv, ListenInv, Next
  PROVE  TableInv'
<1> USE DaemonAssumption DEF TableInv, TableType
<1>1. CASE EpollWait
  BY <1>1, WaitLemma
<1>2. CASE Accept
  <2>1. backlog # <<>>
    BY <1>2 DEF Accept, ListenInv
  <2>2. QED
    BY <1>2, <2>1, AcceptLemma
<1>10. CASE AcceptFails
  <2>1. /\ batch' \in Seq(Slots \cup {Listen})
        /\ \A i \in DOMAIN batch' : i + 1 \in DOMAIN batch /\ batch'[i] = batch[i + 1]
    BY <1>10 DEF AcceptFails
  <2>2. QED
    BY <1>10, <2>1 DEF AcceptFails, kernel, table, PointersAreFilled, SlotsMatchConnections,
       InUse, Open
<1>3. CASE Dispatch
  <2>1. /\ batch' \in Seq(Slots \cup {Listen})
        /\ \A i \in DOMAIN batch' : i + 1 \in DOMAIN batch /\ batch'[i] = batch[i + 1]
        /\ Head(batch) \in Slots /\ client_events[Head(batch)] # 0
    BY <1>3 DEF Dispatch, PointersAreFilled
  <2>2. QED
    BY <1>3, <2>1 DEF Dispatch, kernel, table, PointersAreFilled, SlotsMatchConnections, InUse, Open
<1>4. CASE Respond
  BY <1>4, RespondLemma
<1>5. CASE UNCHANGED <<conn, interest, armed, table, batch>> /\ backlog' \in Seq(Clients)
           /\ daemon' \in {"loop", "recv", "send", "dead"} /\ fd' = fd
           /\ (daemon' \in {"recv", "send"} => daemon \in {"recv", "send"})
  BY <1>5 DEF table, PointersAreFilled, SlotsMatchConnections, InUse, Open
<1>6. CASE Recv \/ Perish
  BY <1>5, <1>6 DEF Recv, Perish, kernel
<1>7. ASSUME NEW c \in Clients, Connect(c) PROVE TableInv'
  <2>1. backlog' \in Seq(Clients)
    BY <1>7 DEF Connect
  <2>2. QED
    BY <1>5, <1>7, <2>1 DEF Connect
<1>8. ASSUME NEW c \in Clients, Send(c) \/ Receive(c) \/ Depart(c) PROVE TableInv'
  BY <1>5, <1>8 DEF Send, Receive, Depart, kernel
<1>9. QED
  BY <1>1, <1>2, <1>3, <1>4, <1>6, <1>7, <1>8, <1>10 DEF Next, DaemonStep

(* The table invariant, with what it rests on, holds throughout.           *)
THEOREM TableInvariance == Spec => [](TableInv /\ ListenInv)
<1>1. Init => TableInv /\ ListenInv
  <2> SUFFICES ASSUME Init PROVE TableInv /\ ListenInv
    OBVIOUS
  <2>1. Open = {} /\ InUse = {}
    BY DEF Init, Open, InUse
  <2>2. QED
    BY <2>1, DaemonAssumption
       DEF Init, TableInv, TableType, ListenInv, PointersAreFilled, SlotsMatchConnections
<1>2. (TableInv /\ ListenInv) /\ [Next]_vars => (TableInv /\ ListenInv)'
  <2> SUFFICES ASSUME TableInv, ListenInv, [Next]_vars PROVE (TableInv /\ ListenInv)'
    OBVIOUS
  <2>1. CASE Next
    BY <2>1, StepLemma, ListenLemma
  <2>2. CASE UNCHANGED vars
    BY <2>2 DEF vars, kernel, table, TableInv, TableType, ListenInv, PointersAreFilled,
       SlotsMatchConnections, InUse, Open
  <2>3. QED
    BY <2>1, <2>2
<1>3. QED
  BY <1>1, <1>2, PTL DEF Spec

(* client_events is always the set of open connections, each once, and the *)
(* loop never follows a pointer to a slot that was never filled.           *)
THEOREM TableIsRight == Spec => []TableIsSound
<1>1. TableInv => TableIsSound
  BY DEF TableInv, TableIsSound
<1>2. QED
  BY <1>1, TableInvariance, PTL

-----------------------------------------------------------------------------
(* The clients and the queue of the kernel.                                *)
ClientInv ==
  /\ pc \in [Clients -> {"start", "connected", "sent", "done", "gone"}]
  /\ answer \in [Clients -> {"none", "response", "eof"}]
  /\ Len(backlog) <= Backlog

LEMMA ClientLemma ==
  ASSUME TableInv, ListenInv, ClientInv, Next
  PROVE  ClientInv'
<1> USE DaemonAssumption DEF TableInv, TableType, ClientInv
<1>1. CASE Accept
  <2>1. backlog # <<>> /\ UNCHANGED pc
    BY <1>1 DEF Accept, ListenInv
  <2>2. Head(backlog) \in Clients /\ Len(Tail(backlog)) = Len(backlog) - 1 /\ Len(backlog) \in Nat
    BY <2>1
  <2>3. Len(backlog') <= Backlog
    BY <1>1, <2>2 DEF Accept
  <2>4. answer' \in [Clients -> {"none", "response", "eof"}]
    BY <1>1, <2>2 DEF Accept, Reject, Admit
  <2>5. QED
    BY <2>1, <2>3, <2>4
<1>2. CASE Respond
  <2>1. conn[fd] # None => conn[fd] \in Clients
    BY <1>2 DEF Respond
  <2>2. QED
    BY <1>2, <2>1 DEF Respond
<1>3. CASE Perish
  BY <1>3 DEF Perish, kernel
<1>4. ASSUME NEW c \in Clients, Connect(c) PROVE ClientInv'
  <2>1. Len(backlog') = Len(backlog) + 1 /\ Len(backlog) < Backlog /\ Len(backlog) \in Nat
    BY <1>4 DEF Connect
  <2>2. QED
    BY <1>4, <2>1 DEF Connect
<1>5. ASSUME NEW c \in Clients, Send(c) \/ Receive(c) \/ Depart(c) PROVE ClientInv'
  BY <1>5 DEF Send, Receive, Depart, kernel
<1>6. CASE EpollWait \/ AcceptFails \/ Dispatch \/ Recv
  BY <1>6 DEF EpollWait, AcceptFails, Dispatch, Recv, kernel
<1>7. QED
  BY <1>1, <1>2, <1>3, <1>4, <1>5, <1>6 DEF Next, DaemonStep

(* Type correctness: neither the table nor the queue of the kernel ever    *)
(* holds more than it has room for, and every pointer is one into the      *)
(* table.                                                                  *)
THEOREM TypeCorrect == Spec => []TypeOK
<1>1. Init => ClientInv
  BY DaemonAssumption DEF Init, ClientInv
<1>2. (TableInv /\ ListenInv) /\ ClientInv /\ [Next]_vars => ClientInv'
  <2>1. UNCHANGED vars /\ ClientInv => ClientInv'
    BY DEF vars, kernel, ClientInv
  <2>2. QED
    BY <2>1, ClientLemma
<1>3. (TableInv /\ ListenInv) /\ ClientInv => TypeOK
  BY DEF TableInv, TableType, ClientInv, TypeOK
<1>4. QED
  BY <1>1, <1>2, <1>3, TableInvariance, PTL DEF Spec
-----------------------------------------------------------------------------
(* The daemon implements RequestServer.  The mapping takes the clients at  *)
(* the other end of open descriptors for those that are held.              *)

(* A client that waits or is held has connected and has no answer, unless  *)
(* the daemon has died.                                                    *)
Unanswered(c) == pc[c] # "start" /\ (daemon # "dead" => answer[c] = "none")

(* Every client is at one place only, and the one to be answered has sent  *)
(* its request or left.                                                    *)
PartnerInv ==
  /\ \A f, g \in Open : conn[f] = conn[g] => f = g
  /\ \A i, j \in DOMAIN backlog : backlog[i] = backlog[j] => i = j
  /\ \A i \in DOMAIN backlog : \A f \in Open : backlog[i] # conn[f]
  /\ \A i \in DOMAIN backlog : Unanswered(backlog[i])
  /\ \A f \in Open : Unanswered(conn[f])
  /\ daemon = "send" /\ conn[fd] # None => pc[conn[fd]] \in {"sent", "gone"}

Held == {conn[f] : f \in Open}

(* Nobody is answered before connecting.                                   *)
StartInv == \A c \in Clients : pc[c] = "start" => answer[c] = "none"

DaemonInv == TableInv /\ ListenInv /\ ClientInv /\ StartInv /\ PartnerInv

(* The number of slots in use is the number of clients held.               *)
LEMMA HeldCount ==
  ASSUME TableInv, PartnerInv
  PROVE  IsFiniteSet(Held) /\ Cardinality(Held) = client_event_count
<1> DEFINE n == client_event_count
           I == 0 .. (n - 1)
           b == [i \in I |-> conn[client_events[i]]]
<1>1. n \in Nat /\ InUse = Open
  BY DEF TableInv, TableType, SlotsMatchConnections
<1>2. \A i \in I : client_events[i] \in Open
  BY <1>1 DEF InUse
<1>3. b \in Injection(I, Held)
  <2>1. b \in [I -> Held]
    BY <1>2 DEF Held
  <2>2. ASSUME NEW i \in I, NEW j \in I, b[i] = b[j] PROVE i = j
    <3>1. client_events[i] = client_events[j]
      BY <1>2, <2>2 DEF PartnerInv
    <3>2. QED
      BY <3>1 DEF TableInv, SlotsMatchConnections
  <2>3. QED
    BY <2>1, <2>2 DEF Injection, IsInjective
<1>4. b \in Surjection(I, Held)
  <2>1. ASSUME NEW c \in Held PROVE \E i \in I : b[i] = c
    <3>1. PICK f \in Open : c = conn[f]
      BY DEF Held
    <3>2. PICK i \in I : f = client_events[i]
      BY <1>1, <3>1 DEF InUse
    <3>3. QED
      BY <3>1, <3>2
  <2>2. QED
    BY <1>3, <2>1 DEF Surjection, Injection
<1>5. ExistsBijection(I, Held)
  BY <1>3, <1>4 DEF ExistsBijection, Bijection
<1>6. IsFiniteSet(I) /\ Cardinality(I) = n
  BY <1>1, FS_Interval
<1>7. QED
  BY <1>5, <1>6, FS_Bijection

(* Letting the head of the queue in, or refusing it.                       *)
LEMMA PartnerAccept ==
  ASSUME DaemonInv, Accept
  PROVE  PartnerInv'
<1> USE DaemonAssumption
<1> DEFINE c == Head(backlog)
<1>1. /\ backlog # <<>> /\ 1 \in DOMAIN backlog /\ c = backlog[1] /\ c \in Clients
      /\ \A i \in DOMAIN backlog' : /\ i + 1 \in DOMAIN backlog /\ i + 1 # 1 /\ i \in Int
                                     /\ backlog'[i] = backlog[i + 1]
      /\ daemon' = daemon /\ daemon = "loop" /\ UNCHANGED <<pc, fd>>
  <2>1. backlog # <<>> /\ backlog \in Seq(Clients)
    BY DEF Accept, DaemonInv, TableInv, TableType, ListenInv
  <2>2. QED
    BY <2>1 DEF Accept
<1> HIDE DEF c
<1>2. \A i, j \in DOMAIN backlog' : backlog'[i] = backlog'[j] => i = j
  <2>1. SUFFICES ASSUME NEW i \in DOMAIN backlog', NEW j \in DOMAIN backlog',
                        backlog'[i] = backlog'[j]
                 PROVE  i = j
    OBVIOUS
  <2>2. i + 1 = j + 1
    BY <1>1, <2>1 DEF DaemonInv, PartnerInv
  <2>3. QED
    BY <1>1, <2>2
<1>3. \A i \in DOMAIN backlog' : backlog'[i] # c
  <2>1. \A i \in DOMAIN backlog : backlog[i] = c => i = 1
    BY <1>1 DEF DaemonInv, PartnerInv
  <2>2. QED
    BY <1>1, <2>1
<1>4. CASE Reject(c)
  <2>1. UNCHANGED <<conn, Open>>
    BY <1>4 DEF Reject, Open
  <2>2. \A d \in Clients : d # c => answer'[d] = answer[d]
    BY <1>4 DEF Reject, DaemonInv, ClientInv
  <2>3. (\A i \in DOMAIN backlog : Unanswered(backlog[i]))'
    <3>1. \A i \in DOMAIN backlog : backlog[i] \in Clients /\ Unanswered(backlog[i])
      BY DEF DaemonInv, TableInv, TableType, PartnerInv
    <3>2. QED
      BY <1>1, <1>3, <2>2, <3>1 DEF Unanswered
  <2>4. (\A f \in Open : Unanswered(conn[f]))'
    <3>1. \A f \in Open : conn[f] \in Clients /\ conn[f] # c /\ Unanswered(conn[f])
      BY <1>1 DEF DaemonInv, TableInv, TableType, PartnerInv, Open
    <3>2. QED
      BY <1>1, <2>1, <2>2, <3>1 DEF Unanswered
  <2>5. \A i \in DOMAIN backlog' : \A f \in Open' : backlog'[i] # conn'[f]
    BY <1>1, <2>1 DEF DaemonInv, PartnerInv
  <2>6. \A f, g \in Open' : conn'[f] = conn'[g] => f = g
    BY <2>1 DEF DaemonInv, PartnerInv
  <2>7. QED
    BY <1>1, <1>2, <2>3, <2>4, <2>5, <2>6 DEF PartnerInv
<1>5. ASSUME NEW f \in Fds, Lowest(f), Admit(c, f) PROVE PartnerInv'
  <2>1. /\ f \notin Open /\ Open' = Open \cup {f} /\ conn'[f] = c /\ answer' = answer
        /\ \A g \in Open : conn'[g] = conn[g]
    BY <1>1, <1>5 DEF Admit, Lowest, Open, DaemonInv, TableInv, TableType
  <2>2. \A g \in Open : conn[g] # c
    BY <1>1 DEF DaemonInv, PartnerInv
  <2>3. \A g, h \in Open' : conn'[g] = conn'[h] => g = h
    BY <2>1, <2>2 DEF DaemonInv, PartnerInv
  <2>4. \A i \in DOMAIN backlog' : \A g \in Open' : backlog'[i] # conn'[g]
    <3>1. \A i \in DOMAIN backlog' : \A g \in Open : backlog'[i] # conn[g]
      BY <1>1 DEF DaemonInv, PartnerInv
    <3>2. QED
      BY <1>3, <2>1, <3>1
  <2>5. (\A i \in DOMAIN backlog : Unanswered(backlog[i]))'
    BY <1>1, <2>1 DEF DaemonInv, PartnerInv, Unanswered
  <2>6. (\A g \in Open : Unanswered(conn[g]))'
    <3>1. Unanswered(c) /\ \A g \in Open : Unanswered(conn[g])
      BY <1>1 DEF DaemonInv, PartnerInv
    <3>2. QED
      BY <1>1, <2>1, <3>1 DEF Unanswered
  <2>7. QED
    BY <1>1, <1>2, <2>3, <2>4, <2>5, <2>6 DEF PartnerInv
<1>6. QED
  BY <1>4, <1>5 DEF Accept, c

(* Answering whoever is at the other end of the descriptor in hand.        *)
LEMMA PartnerRespond ==
  ASSUME DaemonInv, Respond
  PROVE  PartnerInv'
<1> USE DaemonAssumption
<1>1. /\ fd \in Fds /\ daemon = "send" /\ daemon' = "loop"
      /\ backlog' = backlog /\ pc' = pc
      /\ Open' = Open \ {fd}
      /\ \A f \in Open' : conn'[f] = conn[f]
  BY DEF Respond, DaemonInv, TableInv, TableType, Open
<1>2. \A c \in Clients : c # conn[fd] => answer'[c] = answer[c]
  BY DEF Respond, DaemonInv, ClientInv
<1>3. \A i \in DOMAIN backlog : backlog[i] \in Clients /\ backlog[i] # conn[fd]
  BY <1>1 DEF DaemonInv, TableInv, TableType, PartnerInv, Open
<1>4. \A f \in Open' : conn[f] \in Clients /\ conn[f] # conn[fd]
  BY <1>1 DEF DaemonInv, TableInv, TableType, PartnerInv, Open
<1>5. (\A i \in DOMAIN backlog : Unanswered(backlog[i]))'
  <2>1. \A i \in DOMAIN backlog : Unanswered(backlog[i])
    BY DEF DaemonInv, PartnerInv
  <2>2. QED
    BY <1>1, <1>2, <1>3, <2>1 DEF Unanswered
<1>6. (\A f \in Open : Unanswered(conn[f]))'
  <2>1. \A f \in Open : Unanswered(conn[f])
    BY DEF DaemonInv, PartnerInv
  <2>2. QED
    BY <1>1, <1>2, <1>4, <2>1 DEF Unanswered
<1>7. /\ \A f, g \in Open' : conn'[f] = conn'[g] => f = g
      /\ \A i, j \in DOMAIN backlog' : backlog'[i] = backlog'[j] => i = j
      /\ \A i \in DOMAIN backlog' : \A f \in Open' : backlog'[i] # conn'[f]
  BY <1>1 DEF DaemonInv, PartnerInv
<1>8. QED
  BY <1>1, <1>5, <1>6, <1>7 DEF PartnerInv

(* A client connects: it was at no place before.                           *)
LEMMA PartnerConnect ==
  ASSUME DaemonInv, NEW c \in Clients, Connect(c)
  PROVE  PartnerInv'
<1>1. /\ backlog \in Seq(Clients) /\ backlog' = Append(backlog, c)
      /\ pc[c] = "start" /\ pc'[c] = "connected"
      /\ \A d \in Clients : d # c => pc'[d] = pc[d]
      /\ UNCHANGED <<answer, conn, Open, daemon, fd>> /\ daemon # "dead"
  BY DEF Connect, DaemonInv, TableInv, TableType, ClientInv, Open
<1>2. /\ \A i \in DOMAIN backlog : backlog[i] \in Clients /\ Unanswered(backlog[i])
      /\ \A f \in Open : conn[f] \in Clients /\ Unanswered(conn[f])
  BY DEF DaemonInv, TableInv, TableType, PartnerInv, Open
<1>3. /\ \A i \in DOMAIN backlog : backlog[i] # c
      /\ \A f \in Open : conn[f] # c
  BY <1>1, <1>2 DEF Unanswered
<1>4. answer[c] = "none"
  BY <1>1 DEF DaemonInv, StartInv
<1>5. \A i \in DOMAIN backlog' : \/ i \in DOMAIN backlog /\ backlog'[i] = backlog[i]
                                 \/ i = Len(backlog) + 1 /\ backlog'[i] = c
  BY <1>1
<1>6. (\A i \in DOMAIN backlog : Unanswered(backlog[i]))'
  <2>1. SUFFICES ASSUME NEW i \in DOMAIN backlog' PROVE Unanswered(backlog[i])'
    OBVIOUS
  <2>2. CASE i \in DOMAIN backlog /\ backlog'[i] = backlog[i]
    BY <1>1, <1>2, <1>3, <2>2 DEF Unanswered
  <2>3. CASE backlog'[i] = c
    BY <1>1, <1>4, <2>3 DEF Unanswered
  <2>4. QED
    BY <1>5, <2>2, <2>3
<1>7. (\A f \in Open : Unanswered(conn[f]))'
  BY <1>1, <1>2, <1>3 DEF Unanswered
<1>8. \A i, j \in DOMAIN backlog' : backlog'[i] = backlog'[j] => i = j
  BY <1>3, <1>5 DEF DaemonInv, PartnerInv
<1>9. \A i \in DOMAIN backlog' : \A f \in Open' : backlog'[i] # conn'[f]
  BY <1>1, <1>3, <1>5 DEF DaemonInv, PartnerInv
<1>10. daemon = "send" /\ conn[fd] # None => conn[fd] \in Clients /\ conn[fd] # c
  BY <1>2, <1>3 DEF DaemonInv, TableInv, TableType, Open
<1>11. QED
  BY <1>1, <1>6, <1>7, <1>8, <1>9, <1>10 DEF DaemonInv, PartnerInv

(* The other steps of a client: it stays where it is.                      *)
LEMMA PartnerClient ==
  ASSUME DaemonInv, NEW c \in Clients, Send(c) \/ Receive(c) \/ Depart(c)
  PROVE  PartnerInv'
<1>1. /\ pc[c] # "start" /\ pc'[c] \in {"sent", "done", "gone"}
      /\ pc'[c] = "done" => answer[c] # "none"
      /\ \A d \in Clients : d # c => pc'[d] = pc[d]
      /\ UNCHANGED <<answer, backlog, conn, Open, daemon, fd>>
  BY DEF Send, Receive, Depart, kernel, DaemonInv, ClientInv, Open
<1>2. \A d \in Clients : Unanswered(d) => Unanswered(d)'
  BY <1>1 DEF Unanswered
<1>3. (\A i \in DOMAIN backlog : Unanswered(backlog[i]))'
  <2>1. \A i \in DOMAIN backlog : backlog[i] \in Clients /\ Unanswered(backlog[i])
    BY DEF DaemonInv, TableInv, TableType, PartnerInv
  <2>2. QED
    BY <1>1, <1>2, <2>1
<1>4. \A f \in Open : conn[f] \in Clients /\ Unanswered(conn[f])
  BY DEF DaemonInv, TableInv, TableType, PartnerInv, Open
<1>5. (\A f \in Open : Unanswered(conn[f]))'
  BY <1>1, <1>2, <1>4
<1>6. (daemon = "send" /\ conn[fd] # None => pc[conn[fd]] \in {"sent", "gone"})'
  <2>1. SUFFICES ASSUME daemon = "send", conn[fd] # None
                 PROVE  pc'[conn[fd]] \in {"sent", "gone"}
    BY <1>1
  <2>2. fd \in Open /\ conn[fd] \in Clients /\ answer[conn[fd]] = "none"
    BY <1>4, <2>1 DEF DaemonInv, TableInv, TableType, Open, Unanswered
  <2>3. pc[conn[fd]] \in {"sent", "gone"}
    BY <2>1 DEF DaemonInv, PartnerInv
  <2>4. QED
    BY <1>1, <2>2, <2>3
<1>7. QED
  BY <1>1, <1>3, <1>5, <1>6 DEF DaemonInv, PartnerInv

(* The steps of the daemon that concern no client.                         *)
LEMMA PartnerInside ==
  ASSUME DaemonInv, EpollWait \/ AcceptFails \/ Dispatch \/ Recv \/ Perish
  PROVE  PartnerInv'
<1>1. UNCHANGED <<pc, backlog, conn, Open>>
  BY DEF EpollWait, AcceptFails, Dispatch, Recv, Perish, kernel, Open
<1>2. \A c : Unanswered(c) => Unanswered(c)'
  BY DEF EpollWait, AcceptFails, Dispatch, Recv, Perish, Unanswered
<1>3. /\ (\A i \in DOMAIN backlog : Unanswered(backlog[i]))'
      /\ (\A f \in Open : Unanswered(conn[f]))'
  BY <1>1, <1>2 DEF DaemonInv, PartnerInv
<1>4. (daemon = "send" /\ conn[fd] # None => pc[conn[fd]] \in {"sent", "gone"})'
  BY <1>1 DEF EpollWait, AcceptFails, Dispatch, Recv, Perish, kernel, Readable
<1>5. QED
  BY <1>1, <1>3, <1>4 DEF DaemonInv, PartnerInv

LEMMA StartStep ==
  ASSUME DaemonInv, Next
  PROVE  StartInv'
<1> USE DEF DaemonInv, ClientInv, StartInv
<1>1. CASE Accept
  <2>1. Head(backlog) \in Clients /\ pc[Head(backlog)] # "start"
    <3>1. backlog # <<>> /\ backlog \in Seq(Clients)
      BY <1>1 DEF Accept, TableInv, TableType, ListenInv
    <3>2. 1 \in DOMAIN backlog /\ Head(backlog) = backlog[1] /\ backlog[1] \in Clients
      BY <3>1
    <3>3. QED
      BY <3>2 DEF PartnerInv, Unanswered
  <2>2. QED
    BY <1>1, <2>1 DEF Accept, Reject, Admit
<1>2. CASE Respond
  <2>1. conn[fd] # None => pc[conn[fd]] # "start"
    BY <1>2 DEF Respond, PartnerInv
  <2>2. QED
    BY <1>2, <2>1 DEF Respond
<1>3. CASE Perish
  BY <1>3 DEF Perish
<1>4. CASE EpollWait \/ AcceptFails \/ Dispatch \/ Recv
  BY <1>4 DEF EpollWait, AcceptFails, Dispatch, Recv
<1>5. ASSUME NEW c \in Clients, Connect(c) \/ Send(c) \/ Receive(c) \/ Depart(c)
      PROVE  StartInv'
  BY <1>5 DEF Connect, Send, Receive, Depart
<1>6. QED
  BY <1>1, <1>2, <1>3, <1>4, <1>5 DEF Next, DaemonStep

(* The table, the queue and the clients are right together.                *)
THEOREM DaemonInvariance == Spec => []DaemonInv
<1>1. Init => DaemonInv
  <2> SUFFICES ASSUME Init PROVE DaemonInv
    OBVIOUS
  <2>1. Open = {} /\ InUse = {}
    BY DEF Init, Open, InUse
  <2>2. TableInv /\ ListenInv
    BY <2>1, DaemonAssumption
       DEF Init, TableInv, TableType, ListenInv, PointersAreFilled, SlotsMatchConnections
  <2>3. ClientInv /\ StartInv
    BY DaemonAssumption DEF Init, ClientInv, StartInv
  <2>4. PartnerInv
    BY <2>1 DEF Init, PartnerInv
  <2>5. QED
    BY <2>2, <2>3, <2>4 DEF DaemonInv
<1>2. DaemonInv /\ [Next]_vars => DaemonInv'
  <2> SUFFICES ASSUME DaemonInv, [Next]_vars PROVE DaemonInv'
    OBVIOUS
  <2>1. CASE Next
    <3>1. TableInv' /\ ListenInv' /\ ClientInv'
      BY <2>1, StepLemma, ListenLemma, ClientLemma DEF DaemonInv
    <3>2. StartInv'
      BY <2>1, StartStep
    <3>3. PartnerInv'
      BY <2>1, PartnerAccept, PartnerRespond, PartnerConnect, PartnerClient, PartnerInside
         DEF Next, DaemonStep
    <3>4. QED
      BY <3>1, <3>2, <3>3 DEF DaemonInv
  <2>2. CASE UNCHANGED vars
    <3>1. TableInv' /\ ListenInv'
      BY <2>2 DEF vars, kernel, table, DaemonInv, TableInv, TableType, ListenInv,
         PointersAreFilled, SlotsMatchConnections, InUse, Open
    <3>2. ClientInv' /\ StartInv' /\ PartnerInv'
      BY <2>2 DEF vars, kernel, DaemonInv, ClientInv, StartInv, PartnerInv, Unanswered, Open
    <3>3. QED
      BY <3>1, <3>2 DEF DaemonInv
  <2>3. QED
    BY <2>1, <2>2
<1>3. QED
  BY <1>1, <1>2, PTL DEF Spec

-----------------------------------------------------------------------------
(* The simulation, one lemma for each kind of step.                        *)

(* What happens inside the daemon is invisible: the clients see nothing of *)
(* a batch, of a pointer that is followed, of recv, or of an accept that   *)
(* fails.                                                                  *)
LEMMA InsideIsStutter ==
  ASSUME EpollWait \/ AcceptFails \/ Dispatch \/ Recv
  PROVE  UNCHANGED Server!vars
<1>1. UNCHANGED <<pc, answer, backlog, conn, Open>>
  BY DEF EpollWait, AcceptFails, Dispatch, Recv, kernel, Open
<1>2. (daemon # "dead") = (daemon' # "dead")
  BY DEF EpollWait, AcceptFails, Dispatch, Recv
<1>3. Held' = Held
  BY <1>1 DEF Held
<1>4. QED
  BY <1>1, <1>2, <1>3 DEF Server!vars, Held

(* The steps of a client are the same in both.                             *)
LEMMA ClientsSimulate ==
  ASSUME NEW c \in Clients
  PROVE  /\ Connect(c) => Server!Connect(c)
         /\ Send(c)    => Server!Send(c)
         /\ Receive(c) => Server!Receive(c)
         /\ Depart(c)  => Server!Depart(c)
<1>1. UNCHANGED conn => Held' = Held
  BY DEF Held, Open
<1>2. Connect(c) => Server!Connect(c)
  BY <1>1 DEF Connect, Server!Connect, Held
<1>3. Send(c) => Server!Send(c)
  BY <1>1 DEF Send, Server!Send, Held, kernel
<1>4. Receive(c) => Server!Receive(c)
  BY <1>1 DEF Receive, Server!Receive, Held, kernel
<1>5. Depart(c) => Server!Depart(c)
  BY <1>1 DEF Depart, Server!Depart, Held, kernel
<1>6. QED
  BY <1>2, <1>3, <1>4, <1>5

(* The instance counts as this module does.                                *)
LEMMA SameCount == \A S : Server!Cardinality(S) = Cardinality(S)
BY DEF Server!Cardinality, Cardinality

(* Accepting lets the first in the queue in, or refuses it when the house  *)
(* is full.                                                                *)
LEMMA AcceptSimulates ==
  ASSUME DaemonInv, Accept
  PROVE  Server!LetIn \/ Server!Refuse
<1> USE DaemonAssumption
<1>1. /\ backlog # <<>> /\ backlog' = Tail(backlog) /\ UNCHANGED <<pc, daemon>>
      /\ daemon = "loop"
  <2>1. /\ batch # <<>> /\ Head(batch) = Listen /\ backlog' = Tail(backlog)
        /\ UNCHANGED <<pc, daemon>> /\ daemon = "loop"
    BY DEF Accept
  <2>2. 1 \in DOMAIN batch /\ batch[1] = Listen
    BY <2>1 DEF DaemonInv, TableInv, TableType
  <2>3. QED
    BY <2>1, <2>2 DEF DaemonInv, ListenInv
<1>2. /\ Cardinality(Held) = client_event_count
      /\ client_event_count \in 0 .. MAX_SOCKET_CLIENTS
  BY HeldCount DEF DaemonInv, TableInv, TableType
<1>3. ASSUME client_event_count >= MAX_SOCKET_CLIENTS, Reject(Head(backlog))
      PROVE  Server!Refuse
  <2>1. Held' = Held
    BY <1>3 DEF Reject, Held, Open
  <2>2. Cardinality(Held) = MAX_SOCKET_CLIENTS
    BY <1>2, <1>3
  <2>3. QED
    BY <1>1, <1>3, <2>1, <2>2, SameCount DEF Server!Refuse, Reject, Held
<1>4. ASSUME client_event_count < MAX_SOCKET_CLIENTS,
             NEW f \in Fds, Lowest(f), Admit(Head(backlog), f)
      PROVE  Server!LetIn
  <2>1. Head(backlog) \in Clients
    BY <1>1 DEF DaemonInv, TableInv, TableType
  <2>2. /\ f \notin Open /\ Open' = Open \cup {f} /\ conn'[f] = Head(backlog)
        /\ \A g \in Open : conn'[g] = conn[g]
    BY <1>4, <2>1 DEF Admit, Lowest, Open, DaemonInv, TableInv, TableType
  <2>3. Held' = Held \cup {Head(backlog)}
    BY <2>2 DEF Held
  <2>4. QED
    BY <1>1, <1>2, <1>4, <2>3, SameCount DEF Server!LetIn, Admit, Held
<1>5. QED
  BY <1>3, <1>4 DEF Accept

(* Responding serves the client at the other end, which has sent a request *)
(* and has no answer yet; through a stale pointer to a descriptor that is  *)
(* closed, nothing happens that a client could see.                        *)
LEMMA RespondSimulates ==
  ASSUME DaemonInv, Respond
  PROVE  \/ UNCHANGED Server!vars
         \/ \E c \in Clients : Server!Serve(c)
<1> USE DaemonAssumption
<1>1. /\ fd \in Fds /\ daemon = "send" /\ daemon' = "loop"
      /\ backlog' = backlog /\ pc' = pc
      /\ Open' = Open \ {fd}
      /\ \A f \in Open' : conn'[f] = conn[f]
  BY DEF Respond, DaemonInv, TableInv, TableType, Open
<1>2. CASE conn[fd] = None
  <2>1. Open' = Open /\ answer' = answer
    BY <1>1, <1>2 DEF Open, Respond
  <2>2. Held' = Held
    BY <1>1, <2>1 DEF Held
  <2>3. QED
    BY <1>1, <2>1, <2>2 DEF Server!vars, Held
<1>3. CASE conn[fd] # None
  <2>1. PICK c \in Clients : c = conn[fd] /\ c \in Held /\ fd \in Open
    BY <1>1, <1>3 DEF DaemonInv, TableInv, TableType, Open, Held
  <2>2. answer[c] = "none"
    BY <1>1, <2>1 DEF DaemonInv, PartnerInv, Unanswered
  <2>3. pc[c] = "sent"
    BY <1>1, <1>3, <2>1 DEF DaemonInv, PartnerInv, Respond
  <2>4. answer' = [answer EXCEPT ![c] = "response"]
    BY <1>3, <2>1 DEF Respond
  <2>5. Held' = Held \ {c}
    <3>1. \A f \in Open : conn[f] = c => f = fd
      BY <2>1 DEF DaemonInv, PartnerInv
    <3>2. QED
      BY <1>1, <2>1, <3>1 DEF Held
  <2>6. Server!Serve(c)
    BY <1>1, <2>1, <2>2, <2>3, <2>4, <2>5 DEF Server!Serve, Held
  <2>7. QED
    BY <2>6
<1>4. QED
  BY <1>2, <1>3

(* Only a client that was let in and left before its answer brings the     *)
(* daemon down.                                                            *)
LEMMA PerishSimulates ==
  ASSUME DaemonInv, Perish
  PROVE  Server!Die
<1>1. fd \in Open
  BY DEF Perish, DaemonInv, TableInv, TableType, Open
<1>2. conn[fd] \in Held /\ pc[conn[fd]] = "gone"
  BY <1>1 DEF Held, Perish
<1>3. Held' = Held
  BY DEF Perish, kernel, Held, Open
<1>4. QED
  BY <1>2, <1>3 DEF Perish, kernel, Server!Die, Held

(* The daemon is a RequestServer, for every number of clients and slots    *)
(* and every length of the queue.                                          *)
THEOREM ImplementsServer == Spec => IsRequestServer
<1>1. Init => Server!Init
  <2> SUFFICES ASSUME Init PROVE Server!Init
    OBVIOUS
  <2>1. Held = {}
    BY DEF Init, Held, Open
  <2>2. QED
    BY <2>1 DEF Init, Server!Init, Held
<1>2. DaemonInv /\ [Next]_vars => [Server!Next]_(Server!vars)
  <2> SUFFICES ASSUME DaemonInv, [Next]_vars
               PROVE  Server!Next \/ UNCHANGED Server!vars
    OBVIOUS
  <2>1. CASE EpollWait \/ AcceptFails \/ Dispatch \/ Recv
    BY <2>1, InsideIsStutter
  <2>2. CASE Accept
    BY <2>2, AcceptSimulates DEF Server!Next
  <2>3. CASE Respond
    BY <2>3, RespondSimulates DEF Server!Next
  <2>4. CASE Perish
    BY <2>4, PerishSimulates DEF Server!Next
  <2>5. ASSUME NEW c \in Clients, Connect(c) \/ Send(c) \/ Receive(c) \/ Depart(c)
        PROVE  Server!Next
    BY <2>5, ClientsSimulate DEF Server!Next
  <2>6. CASE UNCHANGED vars
    <3>1. UNCHANGED <<pc, answer, backlog, daemon>> /\ Held' = Held
      BY <2>6 DEF vars, kernel, Held, Open
    <3>2. QED
      BY <3>1 DEF Server!vars, Held
  <2>7. QED
    BY <2>1, <2>2, <2>3, <2>4, <2>5, <2>6 DEF Next, DaemonStep
<1>3. QED
  BY <1>1, <1>2, DaemonInvariance, PTL DEF Spec, IsRequestServer, Server!Spec

(* A client is answered once: what its recv returns, a response or the end *)
(* of the stream, is never replaced, neither by a second response through  *)
(* a stale pointer nor by the death of the daemon.                         *)
THEOREM OneAnswer ==
  Spec => [][\A c \in Clients : answer[c] # "none" => answer'[c] = answer[c]]_vars
<1>1. ASSUME DaemonInv, [Next]_vars, NEW c \in Clients, answer[c] # "none"
      PROVE  answer'[c] = answer[c]
  <2> USE <1>1
  <2>1. CASE Accept
    <3>1. backlog # <<>> /\ backlog \in Seq(Clients) /\ daemon = "loop"
      BY <2>1 DEF Accept, DaemonInv, TableInv, TableType, ListenInv
    <3>2. 1 \in DOMAIN backlog /\ Head(backlog) = backlog[1]
      BY <3>1
    <3>3. Head(backlog) # c
      BY <3>1, <3>2 DEF DaemonInv, PartnerInv, Unanswered
    <3>4. QED
      BY <2>1, <3>3 DEF Accept, Reject, Admit, DaemonInv, ClientInv
  <2>2. CASE Respond
    <3>1. conn[fd] # None => conn[fd] # c
      BY <2>2 DEF Respond, DaemonInv, TableInv, TableType, PartnerInv, Unanswered, Open
    <3>2. QED
      BY <2>2, <3>1 DEF Respond, DaemonInv, ClientInv
  <2>3. CASE Perish
    BY <2>3 DEF Perish
  <2>4. CASE UNCHANGED answer
    BY <2>4
  <2>5. CASE EpollWait \/ AcceptFails \/ Dispatch \/ Recv \/ UNCHANGED vars
    BY <2>4, <2>5 DEF EpollWait, AcceptFails, Dispatch, Recv, vars
  <2>6. ASSUME NEW d \in Clients, Connect(d) \/ Send(d) \/ Receive(d) \/ Depart(d)
        PROVE  UNCHANGED answer
    BY <2>6 DEF Connect, Send, Receive, Depart
  <2>7. QED
    BY <2>1, <2>2, <2>3, <2>4, <2>5, <2>6 DEF Next, DaemonStep
<1>2. DaemonInv /\ [Next]_vars =>
        [\A c \in Clients : answer[c] # "none" => answer'[c] = answer[c]]_vars
  BY <1>1
<1>3. QED
  BY <1>2, DaemonInvariance, PTL DEF Spec

-----------------------------------------------------------------------------
(* The safety half of LoneRequestsAnswered: stale pointers need company.   *)

(* There is never more than one connection, accepted or not.               *)
Lone == Len(backlog) + Cardinality(Open) <= 1

(* A pointer leads to a connection with something to be read, so that recv *)
(* neither blocks on another client nor fails on a closed descriptor.      *)
PointersAreExact ==
  /\ \A i \in DOMAIN batch : batch[i] # Listen =>
       client_events[batch[i]] \in Fds /\ Readable(client_events[batch[i]])
  /\ daemon = "recv" => Readable(fd)

LoneInv ==
  /\ \A f \in Open : interest[f] \in Slots /\ client_events[interest[f]] = f
  /\ Len(batch) <= 1
  /\ \A i \in DOMAIN batch : batch[i] # Listen =>
       client_events[batch[i]] \in Fds /\ Readable(client_events[batch[i]])
  /\ daemon # "loop" => batch = <<>>
  /\ daemon \in {"recv", "send"} => Readable(fd)

(* One connection is one: either it waits or it is open.                   *)
LEMMA LoneMeans ==
  ASSUME TableInv, Lone
  PROVE  /\ \A f, g \in Open : f = g
         /\ backlog # <<>> => Open = {}
<1>1. IsFiniteSet(Open) /\ Cardinality(Open) \in Nat
  <2>1. IsFiniteSet(Fds)
    BY DaemonAssumption, FS_Interval DEF Fds
  <2>2. Open \in SUBSET Fds
    BY DEF Open
  <2>3. QED
    BY <2>1, <2>2, FS_Subset, FS_CardinalityType
<1>2. Len(backlog) \in Nat /\ (backlog # <<>> => Len(backlog) >= 1)
  BY DEF TableInv, TableType
<1>3. ASSUME NEW f \in Open, NEW g \in Open, f # g PROVE FALSE
  <2>1. IsFiniteSet(Open \ {f}) /\ Cardinality(Open \ {f}) = Cardinality(Open) - 1
    BY <1>1, <1>3, FS_RemoveElement
  <2>2. Cardinality(Open \ {f}) = 0
    BY <1>1, <1>2, <2>1, FS_CardinalityType DEF Lone
  <2>3. Open \ {f} = {}
    BY <2>1, <2>2, FS_EmptySet
  <2>4. QED
    BY <1>3, <2>3
<1>4. ASSUME backlog # <<>> PROVE Open = {}
  <2>1. Cardinality(Open) = 0
    BY <1>1, <1>2, <1>4 DEF Lone
  <2>2. QED
    BY <1>1, <2>1, FS_EmptySet
<1>5. QED
  BY <1>3, <1>4

(* A batch then has one event, and a pointer to the one connection.        *)
LEMMA LoneWait ==
  ASSUME DaemonInv, LoneInv, Lone, EpollWait
  PROVE  LoneInv'
<1>1. TableInv
  BY DEF DaemonInv
<1>2. /\ daemon = "loop" /\ daemon' = "loop"
      /\ UNCHANGED <<pc, conn, Open, interest, client_events>>
  BY DEF EpollWait, table, Open
<1>3. Ready \subseteq Open
  BY <1>1 DEF Ready, Readable, Open, TableInv, TableType
<1>0. PICK S \in SUBSET Events : \E s \in SetToSeqs(S) :
        batch' = [i \in DOMAIN s |-> IF s[i] = Listen THEN Listen ELSE interest[s[i]]]
  BY DEF EpollWait
<1>4. \A x, y \in S : x = y
  BY <1>1, <1>3, LoneMeans DEF Events
<1>5. PICK s \in SetToSeqs(S) :
        batch' = [i \in DOMAIN s |-> IF s[i] = Listen THEN Listen ELSE interest[s[i]]]
  BY <1>0
<1>6. PICK n \in Nat : s \in [1 .. n -> S] /\ \A i, j \in 1 .. n : i # j => s[i] # s[j]
  <2>1. IsFiniteSet(S)
    <3>1. IsFiniteSet(Fds)
      BY DaemonAssumption, FS_Interval DEF Fds
    <3>2. IsFiniteSet(Fds \cup {Listen})
      BY <3>1, FS_AddElement
    <3>3. S \in SUBSET (Fds \cup {Listen})
      BY <1>3 DEF Events, Open
    <3>4. QED
      BY <3>2, <3>3, FS_Subset
  <2>2. Cardinality(S) \in Nat
    BY <2>1, FS_CardinalityType
  <2>3. s \in [1 .. Cardinality(S) -> S] /\ \A i, j \in DOMAIN s : i # j => s[i] # s[j]
    BY <2>2 DEF SetToSeqs
  <2>4. QED
    BY <2>2, <2>3
<1>7. n <= 1
  <2>1. SUFFICES ASSUME n > 1 PROVE FALSE
    BY <1>6
  <2>2. 1 \in 1 .. n /\ 2 \in 1 .. n
    BY <2>1
  <2>3. s[1] = s[2] /\ s[1] # s[2]
    BY <1>4, <1>6, <2>2
  <2>4. QED
    BY <2>3
<1>8. batch' = [i \in 1 .. n |-> IF s[i] = Listen THEN Listen ELSE interest[s[i]]]
  BY <1>5, <1>6
<1>9. Len(batch') <= 1 /\ DOMAIN batch' = 1 .. n
  BY <1>7, <1>8
<1>10. ASSUME NEW i \in DOMAIN batch', batch'[i] # Listen
       PROVE  client_events[batch'[i]] \in Fds /\ Readable(client_events[batch'[i]])
  <2>1. s[i] \in Ready /\ batch'[i] = interest[s[i]]
    BY <1>6, <1>8, <1>9, <1>10 DEF Events
  <2>2. client_events[batch'[i]] = s[i]
    BY <1>3, <2>1 DEF LoneInv
  <2>3. QED
    BY <1>3, <2>1, <2>2 DEF Ready, Open
<1>11. QED
  BY <1>2, <1>9, <1>10 DEF LoneInv, Readable

(* Every step keeps the one pointer exact.                                 *)
LEMMA LoneStep ==
  ASSUME DaemonInv, LoneInv, Lone, Lone', [Next]_vars
  PROVE  LoneInv'
<1> USE DaemonAssumption
<1>1. TableInv /\ TableType /\ batch \in Seq(Slots \cup {Listen})
  BY DEF DaemonInv, TableInv, TableType
<1>2. (\A f, g \in Open : f = g) /\ (backlog # <<>> => Open = {})
  BY <1>1, LoneMeans
<1>3. CASE EpollWait
  BY <1>3, LoneWait
<1>4. CASE Accept
  <2>1. backlog # <<>> /\ Open = {} /\ daemon = "loop" /\ UNCHANGED <<pc, daemon>>
    <3>1. daemon = "loop" /\ UNCHANGED <<pc, daemon>> /\ batch # <<>> /\ Head(batch) = Listen
      BY <1>4 DEF Accept
    <3>2. 1 \in DOMAIN batch /\ batch[1] = Listen
      BY <1>1, <3>1
    <3>3. backlog # <<>>
      BY <3>2 DEF DaemonInv, ListenInv
    <3>4. QED
      BY <1>2, <3>1, <3>3
  <2>2. batch' = <<>>
    BY <1>1, <1>4 DEF Accept, LoneInv
  <2>3. client_event_count = 0
    <3>1. InUse = {} /\ client_event_count \in Nat
      BY <1>1, <2>1 DEF TableInv, TableType, SlotsMatchConnections
    <3>2. client_event_count > 0 => client_events[0] \in InUse
      BY <3>1 DEF InUse
    <3>3. QED
      BY <3>1, <3>2
  <2>4. PICK f \in Fds : Admit(Head(backlog), f)
    BY <1>4, <2>3 DEF Accept
  <2>5. \A g \in Open' : g = f
    BY <2>1, <2>4 DEF Admit, Open
  <2>6. interest'[f] = 0 /\ client_events'[0] = f /\ 0 \in Slots
    BY <1>1, <2>3, <2>4 DEF Admit, TableType, Slots
  <2>7. QED
    BY <2>1, <2>2, <2>5, <2>6 DEF LoneInv
<1>12. CASE AcceptFails
  <2>1. UNCHANGED <<pc, conn, Open, interest, client_events, daemon>> /\ daemon = "loop"
    BY <1>12 DEF AcceptFails, kernel, table, Open
  <2>2. batch' = <<>>
    BY <1>1, <1>12 DEF AcceptFails, LoneInv
  <2>3. QED
    BY <2>1, <2>2 DEF LoneInv
<1>5. CASE Dispatch
  <2>1. UNCHANGED <<pc, conn, Open, interest, client_events>>
    BY <1>5 DEF Dispatch, kernel, table, Open
  <2>2. 1 \in DOMAIN batch /\ Head(batch) = batch[1] /\ Head(batch) # Listen
    BY <1>1, <1>5 DEF Dispatch
  <2>3. batch' = <<>>
    BY <1>1, <1>5 DEF Dispatch, LoneInv
  <2>4. Readable(fd)'
    BY <1>5, <2>1, <2>2 DEF Dispatch, LoneInv, Readable
  <2>5. QED
    BY <1>5, <2>1, <2>3, <2>4 DEF Dispatch, LoneInv
<1>6. CASE Respond
  <2>1. fd \in Open /\ batch = <<>> /\ batch' = <<>> /\ daemon' = "loop"
    BY <1>1, <1>6 DEF Respond, LoneInv, Readable, Open, TableType
  <2>2. Open' = {}
    BY <1>1, <1>2, <1>6, <2>1 DEF Respond, Open, TableType
  <2>3. QED
    BY <2>1, <2>2 DEF LoneInv
<1>7. ASSUME UNCHANGED <<conn, interest, table, batch, fd>>,
             daemon' = "loop" <=> daemon = "loop",
             daemon' \in {"recv", "send"} => daemon \in {"recv", "send"},
             \A c \in Clients : pc[c] \in {"sent", "gone"} /\ answer[c] = "none" =>
               pc'[c] \in {"sent", "gone"}
      PROVE  LoneInv'
  <2>1. ASSUME NEW f \in Fds, Readable(f), daemon # "dead" PROVE Readable(f)'
    <3>1. f \in Open /\ conn[f] \in Clients /\ conn'[f] = conn[f] /\ conn[f] # None
      BY <1>1, <1>7, <2>1 DEF Readable, Open, TableType
    <3>2. pc[conn[f]] \in {"sent", "gone"} /\ answer[conn[f]] = "none"
      BY <2>1, <3>1 DEF Readable, DaemonInv, PartnerInv, Unanswered
    <3>3. QED
      BY <1>7, <3>1, <3>2 DEF Readable
  <2>2. Open' = Open /\ client_events' = client_events
    BY <1>7 DEF Open, table
  <2>3. (daemon \in {"recv", "send"} => Readable(fd))'
    <3>1. SUFFICES ASSUME daemon' \in {"recv", "send"} PROVE Readable(fd)'
      OBVIOUS
    <3>2. fd \in Fds /\ Readable(fd) /\ daemon # "dead" /\ fd' = fd
      BY <1>1, <1>7, <3>1 DEF LoneInv, TableType
    <3>3. QED
      BY <1>7, <2>1, <3>2 DEF Readable
  <2>4. ASSUME NEW i \in DOMAIN batch', batch'[i] # Listen
        PROVE  client_events'[batch'[i]] \in Fds /\ Readable(client_events[batch[i]])'
    <3>1. /\ batch' = batch /\ daemon # "dead"
          /\ client_events[batch[i]] \in Fds /\ Readable(client_events[batch[i]])
      BY <1>7, <2>4 DEF LoneInv
    <3>2. PICK f \in Fds : f = client_events[batch[i]] /\ Readable(f)
      BY <3>1
    <3>3. Readable(f)'
      BY <2>1, <3>1, <3>2
    <3>4. QED
      BY <2>2, <3>1, <3>2, <3>3 DEF Readable
  <2>5. QED
    BY <1>7, <2>2, <2>3, <2>4 DEF LoneInv
<1>8. CASE Recv \/ Perish
  BY <1>7, <1>8 DEF Recv, Perish, kernel
<1>9. ASSUME NEW c \in Clients, Connect(c) \/ Send(c) \/ Receive(c) \/ Depart(c)
      PROVE  LoneInv'
  <2>1. UNCHANGED <<conn, interest, table, batch, fd, daemon>>
    BY <1>9 DEF Connect, Send, Receive, Depart, kernel
  <2>2. \A d \in Clients : pc[d] \in {"sent", "gone"} /\ answer[d] = "none" =>
          pc'[d] \in {"sent", "gone"}
    BY <1>9 DEF Connect, Send, Receive, Depart, DaemonInv, ClientInv
  <2>3. QED
    BY <1>7, <2>1, <2>2
<1>10. CASE UNCHANGED vars
  BY <1>7, <1>10 DEF vars, kernel
<1>11. QED
  BY <1>3, <1>4, <1>5, <1>6, <1>8, <1>9, <1>10, <1>12 DEF Next, DaemonStep

(* While there is never more than one connection, which may be one that a  *)
(* killed client has left behind, no pointer is stale: what blocks the     *)
(* daemon in recv, or uses up an event for nothing, is always company.     *)
THEOREM LonePointersAreExact == Spec /\ []Lone => []PointersAreExact
<1>1. Init => LoneInv
  BY DEF Init, LoneInv, Open
<1>2. DaemonInv /\ Lone /\ Lone' /\ LoneInv /\ [Next]_vars => LoneInv'
  BY LoneStep
<1>3. LoneInv => PointersAreExact
  BY DEF LoneInv, PointersAreExact
<1>4. QED
  BY <1>1, <1>2, <1>3, DaemonInvariance, PTL DEF Spec
=============================================================================
