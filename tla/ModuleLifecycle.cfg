SPECIFICATION Spec
CONSTANTS
  Drivers <- MCDrivers
  Programs <- MCPrograms
  Ladder <- MCLadder
  Casts <- MCCasts
  Unique <- MCUnique
  Clashes <- MCClashes
  Refused = {"irq 0 shared"}
  Forgiving <- MCForgiving
  Fatal <- MCFatal
  Unowned <- MCUnowned
  Outline <- MCOutline
  Careful <- MCCareful
  Exact <- MCExact
  Strict <- MCStrict
  Fragile <- MCFragile
  Robbers = {"button", "switch"}
CHECK_DEADLOCK FALSE
INVARIANTS
  TypeOK
  NothingIsOrphaned
  ErrorsAreHandled
  OnlyRobbed
  ClassesAreExact
