--------------------------- MODULE MCSwitchDriver ---------------------------
(* The blocking readers of SwitchDriver.                                   *)
EXTENDS SwitchDriver

CONSTANTS r1, r2

MCReaders == {r1, r2}
=============================================================================
