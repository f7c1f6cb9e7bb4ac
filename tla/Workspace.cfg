SPECIFICATION FairSpec
CONSTANTS
  messages <- MCMessages
  signals <- MCSignals
  Uncaught = {"SIGKILL"}
  MIN_BLINK_PERIOD_MS = 60
  MAX_BLINK_PERIOD_MS = 150
  BLINK_STEP_MS = 50
  MaxPresses = 2
  Files = {"f1", "f2"}
  Buffers = {"b1", "b2"}
  Bytes = {"a", "b"}
  Messages <- MCTexts
  Nothing = Nothing
  Garbage = Garbage
  Pending = Pending
  HighestFd = 5
  Signals = 2
  MaxSignals = 2
  MaxSleep = 2
  Frequencies = {5, 20}
  Temperatures <- MCTemperatures
  MaxChanges = 2
  MaxLosses = 1
  Lossy = {1, 7}
CHECK_DEADLOCK FALSE
INVARIANTS
  TypeOK
  ConversationIsSound
  QuietStart
  ModulesAreSound
  DaemonsAreDetached
  DisplayIsClean
PROPERTIES
  EachEnds
  InputsTakeEffect
