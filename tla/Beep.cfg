SPECIFICATION FairSpec
CONSTANTS
  Callers = {key, net, beep}
  Periods = {0, 2, 101}
  MinPeriod = 1
  MaxPeriod = 100
  FirstPeriod = 2
CHECK_DEADLOCK FALSE
INVARIANTS TypeOK NoDoubleArm OffIsSilent ReleasedIsSilent
PROPERTIES ToneSounds
