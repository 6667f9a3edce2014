SPECIFICATION FairSpec
CONSTANTS
  BitmapSize = 1
  NumPackets = 4
  Window = 3
  Reordering = TRUE
  MaxLoss = 3
  MaxSpurious = 1
  MaxData = 2
  MaxControl = 2
INVARIANTS
  NoLostContext
  MultiInRange
PROPERTIES
  ImplementsTransfer
  Termination
