SPECIFICATION Spec
CONSTANTS
  Paths = {p1, p2, p3}
  NumPackets = 5
  MaxLoss = 1
INVARIANTS
  TypeOK
  AssertsHold
  InOrder
  TwoPaths
PROPERTY
  NothingStuck
