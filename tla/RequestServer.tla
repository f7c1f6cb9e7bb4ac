--------------------------- MODULE RequestServer ----------------------------
(***************************************************************************)
(* What the fan daemon promises to the processes that run fan-ctl, without *)
(* descriptors, without the table of clients and without epoll: clients    *)
(* are let in in the order in which they connected, or refused when the    *)
(* house is full; one that was let in and has sent its request is answered *)
(* at most once; and nothing but a client that left before its answer      *)
(* brings the server down.                                                 *)
(***************************************************************************)
EXTENDS Integers, Sequences, FiniteSets

CONSTANTS
  Clients,             \* the processes that run fan-ctl, once each
  MAX_SOCKET_CLIENTS,  \* clients the server holds at a time
  Backlog              \* clients that may wait to be let in

VARIABLES
  pc,       \* where each client is
  answer,   \* what its recv will return: "none" yet, "response" or "eof"
  waiting,  \* clients that have connected, in that order
  held,     \* clients that were let in and have no answer yet
  up        \* the server runs

vars == <<pc, answer, waiting, held, up>>

-----------------------------------------------------------------------------
(* The clients.                                                            *)

Connect(c) ==
  /\ pc[c] = "start" /\ up
  /\ Len(waiting) < Backlog
  /\ waiting' = Append(waiting, c)
  /\ pc' = [pc EXCEPT ![c] = "connected"]
  /\ UNCHANGED <<answer, held, up>>

Send(c) ==
  /\ pc[c] = "connected"
  /\ pc' = [pc EXCEPT ![c] = IF answer[c] = "eof" THEN "gone" ELSE "sent"]
  /\ UNCHANGED <<answer, waiting, held, up>>

Receive(c) ==
  /\ pc[c] = "sent" /\ answer[c] # "none"
  /\ pc' = [pc EXCEPT ![c] = "done"]
  /\ UNCHANGED <<answer, waiting, held, up>>

Depart(c) ==
  /\ pc[c] \in {"connected", "sent"}
  /\ pc' = [pc EXCEPT ![c] = "gone"]
  /\ UNCHANGED <<answer, waiting, held, up>>

-----------------------------------------------------------------------------
(* The server.                                                             *)

LetIn ==
  /\ up /\ waiting # <<>> /\ Cardinality(held) < MAX_SOCKET_CLIENTS
  /\ waiting' = Tail(waiting)
  /\ held' = held \cup {Head(waiting)}
  /\ UNCHANGED <<pc, answer, up>>

Refuse ==
  /\ up /\ waiting # <<>> /\ Cardinality(held) = MAX_SOCKET_CLIENTS
  /\ waiting' = Tail(waiting)
  /\ answer' = [answer EXCEPT ![Head(waiting)] = "eof"]
  /\ UNCHANGED <<pc, held, up>>

(* No answer without a request, and none to a client that has one.         *)
Serve(c) ==
  /\ up /\ c \in held /\ pc[c] = "sent" /\ answer[c] = "none"
  /\ answer' = [answer EXCEPT ![c] = "response"]
  /\ held' = held \ {c}
  /\ UNCHANGED <<pc, waiting, up>>

(* Whoever has connected and has no answer finds the connection closed.    *)
Die ==
  /\ up /\ \E c \in held : pc[c] = "gone"
  /\ up' = FALSE
  /\ answer' = [c \in Clients |-> IF answer[c] = "none" /\ pc[c] # "start"
                                THEN "eof" ELSE answer[c]]
  /\ UNCHANGED <<pc, waiting, held>>

-----------------------------------------------------------------------------
Init ==
  /\ pc = [c \in Clients |-> "start"]
  /\ answer = [c \in Clients |-> "none"]
  /\ waiting = <<>> /\ held = {}
  /\ up = TRUE

Next ==
  \/ LetIn \/ Refuse \/ Die
  \/ \E c \in Clients : Connect(c) \/ Send(c) \/ Receive(c) \/ Depart(c) \/ Serve(c)

Spec == Init /\ [][Next]_vars
=============================================================================
