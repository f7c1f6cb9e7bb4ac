SPECIFICATION Spec
CONSTANTS
  Buttons <- MCButtons
  Callers = {softirq}
  Table <- MCTable
  FAN_FREQUENCY_MIN = 1
  FAN_FREQUENCY_MAX = 4
  FAN_FREQUENCY_STEP = 1
  Requested <- MCRequested
INVARIANTS
  TypeOK
  CopyIsRight
  FrequencyInRange
  LedRests
  OkMeansDone
