SPECIFICATION Spec
CONSTANTS
  BitmapSize = 2
  NumPackets = 6
  Window = 0
  Reordering = FALSE
  MaxLoss = 3
  MaxSpurious = 1
  MaxData = 3
  MaxControl = 3
INVARIANTS
  TypeOK
  NoLostContext
  BitsSound
  TimersArmed
  TableSound
  WindowOrder
  RtoArmed
  MultiInRange
PROPERTIES
  EntriesOnlyFill
  ImplementsTransfer
