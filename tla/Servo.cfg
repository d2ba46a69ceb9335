SPECIFICATION FairSpec
CONSTANTS
  Clients = {taxi, other}
  Angles <- SomeAngles
  Degrees = 2
  MinHigh = 1
  MaxHigh = 3
  Step = 1
  Late = 1
CHECK_DEADLOCK FALSE
INVARIANTS PulseBetween OneHolder ClosedIsStill NoFault
PROPERTIES ArmFollows ReleaseReturns
