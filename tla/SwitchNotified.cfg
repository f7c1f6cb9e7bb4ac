SPECIFICATION Spec
CONSTANTS
  r1 = r1
  r2 = r2
  Readers <- MCReaders
  MaxInterrupts = 3
CHECK_DEADLOCK FALSE
INVARIANTS
  AppIsNotified
