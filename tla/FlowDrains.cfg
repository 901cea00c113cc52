SPECIFICATION OutputSpec

CONSTANTS
  QueueMax = 4
  SeqSpace = 8
  Buffer = 3
  LateBound = 4
  ReorderDelay = 0
  NackInterval = 1
  MaxRetries = 0
  MissingMax = 0
  MaxNacks = 2
  MergePairs = FALSE
  NULL = NULL
  FirstSeq = 0
  LastPacket = 4
  MaxTime = 10
  MaxAge = 1
  Reorders = FALSE
  Stalls = FALSE
  MaxRebases = 0
  MaxFlaps = 0
  FifoSize = 4
  Readers = {r1}
  MaxHeld = 1
CHECK_DEADLOCK FALSE

INVARIANTS
  BlocksFreedOnce

PROPERTIES
  NoSilentLoss
  AllRead
  Drains
