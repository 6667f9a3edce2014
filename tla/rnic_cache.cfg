SPECIFICATION Spec
CONSTANTS
  FirstN = 2
  LruSize = 2
  FixedLatency = 1
  MaxNodes = 4
  MaxChunks = 2
  MaxIndex = 3
  MaxBacklog = 1
INVARIANTS TypeOK CacheIsHeadWindow LruHoldsMostRecent InflightExact ReplyWhenDmaDone
