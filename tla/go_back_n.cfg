SPECIFICATION FairSpec
CONSTANTS
  NumPackets = 4
  Window = 3
  MaxLoss = 3
  MaxSpurious = 1
  MaxInFlight = 4
INVARIANTS
  TypeOK
  RtoArmed
PROPERTIES
  ImplementsTransfer
  Termination
