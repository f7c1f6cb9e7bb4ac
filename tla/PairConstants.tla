---------------------------- MODULE PairConstants ----------------------------
(* The conversation of the two processes of SocketPair.                    *)
EXTENDS Sequences, Functions

CONSTANTS
  messages,    \* what the child sends; the last one is "exit"
  signals,     \* the signals that setup_signals catches, in its order
  Uncaught     \* other signals that end a process

ASSUME PairAssumption ==
  /\ messages \in Seq(STRING) /\ messages # <<>>
  /\ signals \in Seq(STRING) /\ Uncaught \cap Range(signals) = {}
=============================================================================
