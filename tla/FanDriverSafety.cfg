SPECIFICATION Spec
CONSTANTS
  w1 = w1
  w2 = w2
  Writers <- MCTwoWriters
  Binder = Binder
  Softirq = Softirq
  None = None
  Frequencies <- MCOnOff
  Temps <- MCTemps
  Word <- MCWord
  TickInLock = TRUE
CHECK_DEADLOCK FALSE
SYMMETRY MCSymmetry
INVARIANTS
  TypeOK
  StoppedOnlyAtZero
  HighIsAttended
  UnboundOwnsNothing
  UnsetTimerOnlyInProbe
PROPERTIES
  IsRegister
  ZeroComesFromAStore
