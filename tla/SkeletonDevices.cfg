SPECIFICATION Spec
CONSTANTS
  f1 = f1
  f2 = f2
  Files <- MCFiles
  Messages <- MCMessages
  devices_number = 2
  SKELETON_BUFFER_SIZE = 3
SYMMETRY MCSymmetry
INVARIANTS
  TypeOK
  UnloadedOwnsNothing
  FilesKeepTheirBuffer
  AtRestIsAString
  ReadsAreExact
