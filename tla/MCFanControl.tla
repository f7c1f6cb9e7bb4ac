---------------------------- MODULE MCFanControl ----------------------------
(* Values for FanControl: a range of 1 to 4 around the table {2, 3}.       *)
EXTENDS FanControl

MCTable     == {2, 3}
MCRequested == {-1, 0, 1, 4, 5}
MCButtons   == {"faster", "slower", "mode"}
=============================================================================
