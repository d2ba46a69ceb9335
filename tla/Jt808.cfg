SPECIFICATION Spec
CONSTANTS
  Senders = {"s", "t"}
  Messages <- SomeMessages
  Cap = 8
  MaxFrames = 3
  MaxCuts = 2
INVARIANTS TypeOK Parity
PROPERTIES TakesWhatWasSent
