SPECIFICATION FairSpec
CONSTANTS
  r1 = r1
  r2 = r2
  Readers <- MCReaders
  MaxInterrupts = 4
CHECK_DEADLOCK FALSE
INVARIANTS
  TypeOK
  LostToFaultsOnly
  LateByOne
PROPERTIES
  TwoAreFetched
