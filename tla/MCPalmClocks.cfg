CONSTANTS
  Clock = {"fast", "slow"}
  AwakeRate <- MCAwakeRate
  SleepRate <- MCSleepRate
  CounterSize = 4
  CompareValues = {0, 2}
  Day = 3
  RtcEvent = {"MINUTE", "ALARM"}
  EventAt <- MCEventAt
  MaskValues <- MCMaskValues
  MaxPassed = 3
  MaxSecond = 4
SPECIFICATION Spec
CONSTRAINTS OneDeviceMoves FewSnapshots
INVARIANTS TimerCountsTime RtcRequestCurrent SecondBringsItsEvents
