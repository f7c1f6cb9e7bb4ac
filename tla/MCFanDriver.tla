---------------------------- MODULE MCFanDriver ----------------------------
(* Model values and symmetry for FanDriver.                                *)
EXTENDS FanDriver, TLC

CONSTANTS w1, w2

MCOneWriter  == {w1}
MCTwoWriters == {w1, w2}
MCSymmetry   == Permutations(MCTwoWriters)

(* Below, inside and above the gap of the table; 16 is half of MCWord.     *)
MCTemps       == {34000, 38000, 50000}
MCFrequencies == {0, 7, 16}
MCOnOff       == {0, 7}
MCCool        == {34000}
MCWord        == 32
=============================================================================
