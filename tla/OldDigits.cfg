SPECIFICATION Spec
CONSTANTS
  NoCard = NoCard
  TornCard = TornCard
  Cards = {c1, c2}
  MaxDigits = 1
  CardValid = 1
  DriveLimit = 1
  SmokeConsec = 2
  Keys = {"digit", "confirm"}
  Downlink = {}
  Air = {"low"}
  Active = {"key", "rfid", "net"}
  MayExit = FALSE
  BeepNode = TRUE
INVARIANTS CodeTypedForCard
