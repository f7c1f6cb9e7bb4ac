SPECIFICATION FairSpec
CONSTANTS
  w1 = w1
  w2 = w2
  Writers <- MCOneWriter
  Binder = Binder
  Softirq = Softirq
  None = None
  Frequencies <- MCOnOff
  Temps <- MCCool
  Word <- MCWord
  TickInLock = FALSE
PROPERTIES
  ZeroStops
  KeepsToggling
