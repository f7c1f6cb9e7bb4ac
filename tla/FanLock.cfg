SPECIFICATION Spec
CONSTANTS
  w1 = w1
  w2 = w2
  Writers <- MCTwoWriters
  Binder = Binder
  Softirq = Softirq
  None = None
  Frequencies <- MCFrequencies
  Temps <- MCTemps
  Word <- MCWord
  TickInLock = TRUE
SYMMETRY MCSymmetry
CHECK_DEADLOCK FALSE
INVARIANTS
  LockIsSafe
