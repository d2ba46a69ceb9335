SPECIFICATION FairSpec
CONSTANTS
  Reporters = {heartbeat}
  Heartbeat = heartbeat
  Net = net
  Console = console
  Width = 3
  SendBuf = 2
  MaxInbox = 2
CHECK_DEADLOCK FALSE
INVARIANTS SerialCountsFrames FdIsLive
PROPERTIES Reconnects
