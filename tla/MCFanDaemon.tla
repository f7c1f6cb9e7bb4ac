---------------------------- MODULE MCFanDaemon -----------------------------
(* Model values for FanDaemon.                                             *)
EXTENDS FanDaemon

CONSTANTS c1, c2, c3, c4

MCThree == {c1, c2, c3}
MCFour  == {c1, c2, c3, c4}
=============================================================================
