SPECIFICATION FairSpec
CONSTANTS
  Clients = {taxi, adc_test}
  Numbers = {5, 7, 8}
  None = None
CHECK_DEADLOCK FALSE
INVARIANTS TrueSample NoFault
PROPERTIES ReadReturns
