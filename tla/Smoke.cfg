SPECIFICATION FairSpec
CONSTANTS
  NoCard = NoCard
  TornCard = TornCard
  Cards = {c1}
  MaxDigits = 1
  CardValid = 1
  DriveLimit = 1
  SmokeConsec = 2
  Keys = {"dismiss"}
  Downlink = {"fail"}
  Air = {"low", "mid", "high", "fail"}
  Active = {"key", "net", "beep", "smoke"}
  MayExit = TRUE
  BeepNode = FALSE
INVARIANTS SilentAfterExit
PROPERTIES AlarmHeard TonesEnd SmokeFollowsAir NoChatter
