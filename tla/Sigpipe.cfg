SPECIFICATION FairSpec
CONSTANTS
  Reporters = {heartbeat}
  Heartbeat = heartbeat
  Net = net
  Console = console
  Width = 4
  SendBuf = 2
  MaxInbox = 2
CHECK_DEADLOCK FALSE
PROPERTY RestartUnnoticed
