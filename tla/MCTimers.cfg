SPECIFICATION Spec
CONSTANTS
  Intervals = {60}
  Foreign = {60, 120, 300}
  MaxInterval = 300
  Health = 30
  Tolerance = 5
  MaxWait = 10
  Micro = 10
  Word = 2800
  TimeTakes = {0, 6, 20}
  ConditionTakes = {0, 20, 40}
  DataTakes = {0, 12, 120}
  HealthTakes = {0, 2, 20}
  DataMax = 120
  HealthMax = 20
  TimeOut = 6
  ConditionOut = 20
  DataOut = 12
  HealthOut = 2
  Ages = {0, 6, 20}
  Drift = 2
  MaxOff = 26
  StartOff <- MCStartOff
  Back = 20
  MaxTime = 260
INVARIANTS TypeOK RestsUntilDue HealthGap
PROPERTIES NoReadingSkipped
CHECK_DEADLOCK FALSE
