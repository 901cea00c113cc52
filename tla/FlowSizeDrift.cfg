SPECIFICATION Spec

CONSTANTS
  QueueMax = 4
  SeqSpace = 8
  Buffer = 3
  LateBound = 4
  ReorderDelay = 0
  NackInterval = 1
  MaxRetries = 0
  MissingMax = 0
  MaxNacks = 2
  MergePairs = FALSE
  NULL = NULL
  FirstSeq = 0
  LastPacket = 4
  MaxTime = 13
  MaxAge = 2
  Reorders = TRUE
  Stalls = FALSE
  MaxRebases = 0
  MaxFlaps = 0
CHECK_DEADLOCK FALSE

INVARIANTS
  SizeInSync
