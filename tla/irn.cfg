SPECIFICATION FairSpec
CONSTANTS
  NumPackets = 5
  Bdp = 3
  MaxLoss = 3
  MaxSpurious = 1
  MaxInFlight = 3
INVARIANTS TypeOK SackSound AheadOfGap SackListExact RtoArmed
PROPERTIES ImplementsTransfer Termination
