SPECIFICATION Spec
CONSTANTS
  BitmapSize = 2
  NumPackets = 4
  Window = 0
  Reordering = FALSE
  MaxLoss = 1
  MaxSpurious = 0
  MaxData = 3
  MaxControl = 3
INVARIANT
  FinishMeansAll
