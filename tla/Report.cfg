SPECIFICATION FairSpec
CONSTANTS
  NoCard = NoCard
  TornCard = TornCard
  Cards = {c1}
  MaxDigits = 1
  CardValid = 1
  DriveLimit = 1
  SmokeConsec = 2
  Keys = {"close"}
  Downlink = {"pass", "fail"}
  Air = {"low"}
  Active = {"key", "net", "beep", "hb"}
  MayExit = FALSE
  BeepNode = TRUE
INVARIANTS BuzzerOwned
PROPERTIES PlatformConverges OverdriveRaises
