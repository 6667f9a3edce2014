SPECIFICATION Spec
CONSTANTS
  BitmapSize = 1
  NumPackets = 4
  Window = 0
  Reordering = FALSE
  MaxLoss = 2
  MaxSpurious = 1
  MaxData = 3
  MaxControl = 3
INVARIANT
  FirstBehindWindow
