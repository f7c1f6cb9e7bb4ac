----------------------------- MODULE FanDaemon ------------------------------
(***************************************************************************)
(* The event loop of the fan daemon and the life of its socket clients:    *)
(* src/07_miniproj/daemon/main.c and socket.c, and the client fan-ctl,     *)
(* src/07_miniproj/application/main.c.                                     *)
(*                                                                         *)
(* epoll keeps, for each connection, a pointer into the table              *)
(* client_events, and the loop follows that pointer when it comes to the   *)
(* event, not when the connection became ready.  The model keeps exactly   *)
(* that: a batch holds slots of the table.  What a request does to the fan *)
(* is the subject of FanControl; here a request is a message.              *)
(***************************************************************************)
EXTENDS Integers, SequencesExt

CONSTANTS
  Clients,             \* the processes that run fan-ctl, once each
  None,                \* no client
  MAX_SOCKET_CLIENTS,  \* slots of client_events
  Backlog,             \* connections the kernel queues for accept
  Room                 \* how many of the 10 events of one epoll_wait buttons
                       \* and screen may leave to the sockets

ASSUME DaemonAssumption ==
  /\ None \notin Clients
  /\ MAX_SOCKET_CLIENTS \in Nat \ {0}
  /\ Backlog \in Nat \ {0}
  /\ Room # {} /\ Room \subseteq Nat \ {0}

Slots    == 0 .. (MAX_SOCKET_CLIENTS - 1)
Fds      == 1 .. (MAX_SOCKET_CLIENTS + 1)  \* file descriptors of connections
Listen   == -1                             \* the event of the server socket
NoSlot   == -2

VARIABLES
  pc,             \* where each client is
  answer,         \* what its recv will return: "none" yet, "response" or "eof"
  backlog,        \* connections that wait for accept
  conn,           \* the client at the other end of a file descriptor
  client_events,  \* the fd in each slot; a slot keeps its fd when it is given up
  client_event_count,
  interest,       \* the slot that epoll holds for a file descriptor
  armed,          \* the descriptors whose EPOLLONESHOT has not fired
  batch,          \* the events of the last epoll_wait still to be processed
  daemon,         \* "loop", "recv", "send", or "dead" (killed by SIGPIPE)
  fd              \* the descriptor in hand

kernel == <<backlog, conn, interest, armed>>
table  == <<client_events, client_event_count>>
vars   == <<pc, answer, kernel, table, batch, daemon, fd>>

Open   == {f \in Fds : conn[f] # None}
InUse  == {client_events[i] : i \in 0 .. (client_event_count - 1)}

-----------------------------------------------------------------------------
(* fan-ctl: connect, send, recv, close; or it is killed.                   *)

Connect(c) ==
  /\ pc[c] = "start" /\ daemon # "dead"
  /\ Len(backlog) < Backlog
  /\ backlog' = Append(backlog, c)
  /\ pc' = [pc EXCEPT ![c] = "connected"]
  /\ UNCHANGED <<answer, conn, interest, armed, table, batch, daemon, fd>>

(* Sending on a connection that the daemon has closed kills the client.    *)
Send(c) ==
  /\ pc[c] = "connected"
  /\ pc' = [pc EXCEPT ![c] = IF answer[c] = "eof" THEN "gone" ELSE "sent"]
  /\ UNCHANGED <<answer, kernel, table, batch, daemon, fd>>

(* recv fails on a connection that was closed, and resp keeps its zeros.   *)
Receive(c) ==
  /\ pc[c] = "sent" /\ answer[c] # "none"
  /\ pc' = [pc EXCEPT ![c] = "done"]
  /\ UNCHANGED <<answer, kernel, table, batch, daemon, fd>>

Depart(c) ==
  /\ pc[c] \in {"connected", "sent"}
  /\ pc' = [pc EXCEPT ![c] = "gone"]
  /\ UNCHANGED <<answer, kernel, table, batch, daemon, fd>>

-----------------------------------------------------------------------------
(* The loop of main: wait, then process the events one by one.             *)

Readable(f) == conn[f] # None /\ pc[conn[f]] \in {"sent", "gone"}
Ready       == {f \in armed : Readable(f)}

Events      == Ready \cup (IF backlog = <<>> THEN {} ELSE {Listen})

(* What one epoll_wait hands out: all that is ready, or as much of it as   *)
(* there is room for.                                                      *)
Handed(S) ==
  /\ S # {} /\ S \subseteq Events
  /\ \E n \in Room : Cardinality(S) <= n /\ (S # Events => Cardinality(S) = n)

(* The events became ready in any order.  epoll hands out the pointer it   *)
(* holds for each, and a one-shot event is disarmed.                       *)
EpollWait ==
  /\ daemon = "loop" /\ batch = <<>>
  /\ \E S \in SUBSET Events :
       /\ Handed(S)
       /\ \E s \in SetToSeqs(S) :
            batch' = [i \in DOMAIN s |-> IF s[i] = Listen THEN Listen ELSE interest[s[i]]]
       /\ armed' = armed \ S
  /\ UNCHANGED <<pc, answer, backlog, conn, interest, table, daemon, fd>>

Lowest(f) == f \in Fds \ Open /\ \A g \in 1 .. (f - 1) : g \in Open

(* Mutants: the connection is not added to epoll; epoll gets the slot      *)
(* after the one that was filled.                                          *)
AdmitUnwatched(c, f) ==
  /\ conn' = [conn EXCEPT ![f] = c]
  /\ client_events' = [client_events EXCEPT ![client_event_count] = f]
  /\ client_event_count' = client_event_count + 1
  /\ UNCHANGED <<answer, interest, armed>>

AdmitNextSlot(c, f) ==
  /\ conn' = [conn EXCEPT ![f] = c]
  /\ client_events' = [client_events EXCEPT ![client_event_count] = f]
  /\ client_event_count' = client_event_count + 1
  /\ interest' = [interest EXCEPT ![f] = client_event_count']
  /\ armed' = armed \cup {f}
  /\ UNCHANGED answer

(* The connection takes the next slot, and epoll is given that slot.       *)
Admit(c, f) ==
  /\ conn' = [conn EXCEPT ![f] = c]
  /\ client_events' = [client_events EXCEPT ![client_event_count] = f]
  /\ client_event_count' = client_event_count + 1
  /\ interest' = [interest EXCEPT ![f] = client_event_count]
  /\ armed' = armed \cup {f}
  /\ UNCHANGED answer

(* Too many clients: the connection is closed at once.                     *)
Reject(c) ==
  /\ answer' = [answer EXCEPT ![c] = "eof"]
  /\ UNCHANGED <<conn, interest, armed, table>>

(* Mutant: the table is taken to have no end.                              *)
AcceptUnbounded ==
  /\ daemon = "loop" /\ batch # <<>> /\ Head(batch) = Listen
  /\ batch' = Tail(batch)
  /\ \E f \in Fds : Lowest(f) /\ Admit(Head(backlog), f)
  /\ backlog' = Tail(backlog)
  /\ UNCHANGED <<pc, daemon, fd>>

(* SOCKET_ACCEPT_CLIENT: the connection gets the lowest free descriptor.   *)
Accept ==
  /\ daemon = "loop" /\ batch # <<>> /\ Head(batch) = Listen
  /\ batch' = Tail(batch)
  /\ \/ /\ client_event_count >= MAX_SOCKET_CLIENTS
        /\ Reject(Head(backlog))
     \/ /\ client_event_count < MAX_SOCKET_CLIENTS
        /\ \E f \in Fds : Lowest(f) /\ Admit(Head(backlog), f)
  /\ backlog' = Tail(backlog)
  /\ UNCHANGED <<pc, daemon, fd>>

(* accept may fail; the event is used up, the connection keeps its place   *)
(* in the queue, and the server socket stays ready.                        *)
AcceptFails ==
  /\ daemon = "loop" /\ batch # <<>> /\ Head(batch) = Listen
  /\ batch' = Tail(batch)
  /\ UNCHANGED <<pc, answer, kernel, table, daemon, fd>>

(* SOCKET_CLIENT_REQUEST: *ev is copied, with whatever fd the slot now has. *)
Dispatch ==
  /\ daemon = "loop" /\ batch # <<>> /\ Head(batch) # Listen
  /\ batch' = Tail(batch)
  /\ fd' = client_events[Head(batch)]
  /\ daemon' = "recv"
  /\ UNCHANGED <<pc, answer, kernel, table>>

(* Mutant: recv does not wait for the request.                             *)
RecvNoWait ==
  /\ daemon = "recv"
  /\ daemon' = "send"
  /\ UNCHANGED <<pc, answer, kernel, table, batch, fd>>

(* recv on a blocking socket: it waits for a request or for the end of the *)
(* stream, and fails at once on a descriptor that is closed.               *)
Recv ==
  /\ daemon = "recv"
  /\ conn[fd] = None \/ Readable(fd)
  /\ daemon' = "send"
  /\ UNCHANGED <<pc, answer, kernel, table, batch, fd>>

(* The removal from the pool: the last entry replaces the first one of fd. *)
SlotOf(f) == {i \in 0 .. (client_event_count - 1) :
                /\ client_events[i] = f
                /\ \A j \in 0 .. (i - 1) : client_events[j] # f}

(* Mutant: the replacement is taken one past the last entry.               *)
RemoveSlotPastEnd ==
  \/ /\ SlotOf(fd) = {}
     /\ UNCHANGED table
  \/ \E i \in SlotOf(fd) :
       /\ client_event_count' = client_event_count - 1
       /\ client_events' = [client_events EXCEPT
            ![i] = client_events[client_event_count % MAX_SOCKET_CLIENTS]]

RemoveSlot ==
  \/ /\ SlotOf(fd) = {}
     /\ UNCHANGED table
  \/ \E i \in SlotOf(fd) :
       /\ client_event_count' = client_event_count - 1
       /\ client_events' = [client_events EXCEPT ![i] = client_events[client_event_count - 1]]

(* send and close; closing also takes the descriptor out of epoll.         *)
Respond ==
  /\ daemon = "send"
  /\ conn[fd] # None => pc[conn[fd]] # "gone"
  /\ answer' = IF conn[fd] = None THEN answer
               ELSE [answer EXCEPT ![conn[fd]] = "response"]
  /\ conn' = [conn EXCEPT ![fd] = None]
  /\ interest' = [interest EXCEPT ![fd] = NoSlot]
  /\ armed' = armed \ {fd}
  /\ RemoveSlot
  /\ daemon' = "loop"
  /\ fd' = 0
  /\ UNCHANGED <<pc, backlog, batch>>

(* send to a client that has gone raises SIGPIPE, which nobody handles; all *)
(* connections are closed.                                                 *)
Perish ==
  /\ daemon = "send" /\ conn[fd] # None /\ pc[conn[fd]] = "gone"
  /\ daemon' = "dead"
  /\ answer' = [c \in Clients |-> IF answer[c] = "none" /\ pc[c] # "start"
                                THEN "eof" ELSE answer[c]]
  /\ UNCHANGED <<pc, kernel, table, batch, fd>>

-----------------------------------------------------------------------------
Init ==
  /\ pc = [c \in Clients |-> "start"]
  /\ answer = [c \in Clients |-> "none"]
  /\ backlog = <<>>
  /\ conn = [f \in Fds |-> None]
  /\ client_events = [i \in Slots |-> 0] /\ client_event_count = 0
  /\ interest = [f \in Fds |-> NoSlot]
  /\ armed = {}
  /\ batch = <<>>
  /\ daemon = "loop" /\ fd = 0

DaemonStep == EpollWait \/ Accept \/ Dispatch \/ Recv \/ Respond \/ Perish

Next ==
  \/ DaemonStep \/ AcceptFails
  \/ \E c \in Clients : Connect(c) \/ Send(c) \/ Receive(c) \/ Depart(c)

Spec == Init /\ [][Next]_vars

(* The daemon runs whenever it can, and accept does not fail for ever; a   *)
(* client that has connected goes on.                                      *)
FairSpec ==
  /\ Spec
  /\ WF_vars(DaemonStep) /\ SF_vars(Accept)
  /\ \A c \in Clients : WF_vars(Send(c)) /\ WF_vars(Receive(c))
-----------------------------------------------------------------------------
TypeOK ==
  /\ pc \in [Clients -> {"start", "connected", "sent", "done", "gone"}]
  /\ answer \in [Clients -> {"none", "response", "eof"}]
  /\ backlog \in Seq(Clients) /\ Len(backlog) <= Backlog
  /\ conn \in [Fds -> Clients \cup {None}]
  /\ client_events \in [Slots -> Fds \cup {0}]
  /\ client_event_count \in 0 .. MAX_SOCKET_CLIENTS
  /\ interest \in [Fds -> Slots \cup {NoSlot}]
  /\ armed \subseteq Fds
  /\ batch \in Seq(Slots \cup {Listen})
  /\ daemon \in {"loop", "recv", "send", "dead"}
  /\ fd \in Fds \cup {0}

(* The table is the set of open connections, each once: no connection is   *)
(* lost from it, none stays in it after close.  This survives even the     *)
(* wrong dispatches that stale pointers lead to.                           *)
SlotsMatchConnections ==
  /\ InUse = Open
  /\ \A i, j \in 0 .. (client_event_count - 1) :
       i # j => client_events[i] # client_events[j]

(* A slot that epoll or the rest of the batch points to has been filled:   *)
(* the loop never takes the zero of a fresh slot for a descriptor.         *)
PointersAreFilled ==
  /\ \A f \in armed : interest[f] \in Slots /\ client_events[interest[f]] # 0
  /\ \A i \in DOMAIN batch : batch[i] # Listen => client_events[batch[i]] # 0

(* The table and the pointers into it are sound.                           *)
TableIsSound == SlotsMatchConnections /\ PointersAreFilled

(* What a client can see of the daemon is RequestServer: whichever         *)
(* connection a stale pointer leads to, the first to connect is let in     *)
(* first or refused because all slots are taken, an answer follows a       *)
(* request and comes once, and only a client that left stops the daemon.   *)
Server == INSTANCE RequestServer WITH
            waiting <- backlog,
            held    <- {conn[f] : f \in Open},
            up      <- daemon # "dead"

IsRequestServer == Server!Spec

(* "When a request is received, the daemon processes it, sends a response, *)
(* and closes the connection": every request gets an answer, unless its    *)
(* client is killed.                                                       *)
RequestsAnswered == \A c \in Clients : pc[c] = "sent" ~> pc[c] \in {"done", "gone"}

(* The same while there is never more than one connection, which may be    *)
(* one that a killed client has left behind.                               *)
LoneRequestsAnswered ==
  [](Len(backlog) + Cardinality(Open) <= 1) => RequestsAnswered
=============================================================================
