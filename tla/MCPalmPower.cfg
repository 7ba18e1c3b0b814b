CONSTANTS
  HwButton = {"power", "app"}
  Gaps = {1}
  SaveHoldMs = 2
  ResetHoldMs = 1
  SwitchHoldMs = 2
  GraceMs = 1
  DebounceMs = 2
  StableMs = 1
  ActiveMhz = 240
  SleepMhz = 80
  BootSlices = 1
  PulseSlices = 1
  SettleMs = 2
  TimeoutMs = 3
  WakeSettleMs = 1
  WakeAttempts = 2
SPECIFICATION Spec
INVARIANTS KeysFollowFinger PowerFollowsGuest CaptureIsQuiet WakingFingerNeverTaps
PROPERTIES HoldsAreEarned SaveEnds AwakeIsShown RequestIsServed
