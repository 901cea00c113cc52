SPECIFICATION Spec

CONSTANTS
  QueueMax = 4
  SeqSpace = 8
  Buffer = 2
  LateBound = 2
  ReorderDelay = 0
  NackInterval = 1
  MaxRetries = 2
  MissingMax = 2
  MaxNacks = 2
  MergePairs = FALSE
  NULL = NULL
  FirstSeq = 6
  LastPacket = 4
  MaxTime = 7
  MaxAge = 2
  Reorders = TRUE
  Stalls = TRUE
  MaxRebases = 1
  MaxFlaps = 1
CHECK_DEADLOCK FALSE

INVARIANTS
  TypeOK
  
  NacksWithinArray
