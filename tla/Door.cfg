SPECIFICATION Spec
CONSTANTS
  NoCard = NoCard
  TornCard = TornCard
  Cards = {c1}
  MaxDigits = 1
  CardValid = 1
  DriveLimit = 1
  SmokeConsec = 2
  Keys = {"digit", "confirm", "close", "dismiss"}
  Downlink = {"pass", "fail", "beep_on", "beep_off", "fatigue_on", "fatigue_off"}
  Air = {"low"}
  Active = {"key", "rfid", "net"}
  MayExit = FALSE
  BeepNode = TRUE
INVARIANTS TypeOK DriveTimerIffDoorOpen OpenDoorReachesServo ClosedDoorIsShut
