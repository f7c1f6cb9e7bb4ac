------------------------- MODULE MCSkeletonDevices --------------------------
(* Model values for SkeletonDevices: the empty message, one that fits, and *)
(* one that is cut.                                                        *)
EXTENDS SkeletonDevices, TLC

CONSTANTS f1, f2

MCFiles    == {f1, f2}
MCMessages == {<<>>, <<1>>, <<2, 2, 2>>}
MCSymmetry == Permutations(MCFiles)
=============================================================================
