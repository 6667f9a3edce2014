SPECIFICATION Spec
CONSTANTS
  NumPackets = 5
  Bdp = 3
  MaxLoss = 1
  MaxSpurious = 0
  MaxInFlight = 3
INVARIANT WithinBdp
