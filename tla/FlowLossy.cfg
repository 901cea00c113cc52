SPECIFICATION FairSpec

CONSTANTS
  QueueMax = 8
  SeqSpace = 8
  Buffer = 3
  LateBound = 3
  ReorderDelay = 0
  NackInterval = 1
  MaxRetries = 2
  MissingMax = 2
  MaxNacks = 2
  MergePairs = TRUE
  NULL = NULL
  FirstSeq = 6
  LastPacket = 4
  MaxTime = 10
  MaxAge = 2
  Reorders = FALSE
  Stalls = FALSE
  MaxRebases = 1
  MaxFlaps = 0
CHECK_DEADLOCK FALSE

INVARIANTS
  NacksAreHoles
  MissingOnce
  ShortSizeExact

PROPERTIES
  InOrder
  NoSilentGap
  Played
  Delivers
