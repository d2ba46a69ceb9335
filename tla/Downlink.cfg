SPECIFICATION FairSpec
CONSTANTS
  MaxSerial = 5
  BufSize = 60
INVARIANTS InSync
PROPERTIES Implements
