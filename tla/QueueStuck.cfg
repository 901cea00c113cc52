SPECIFICATION FairSpec

CONSTANTS
  QueueMax = 4
  SeqSpace = 8
  IndexSize = 4
  Advanced = TRUE
  MinTime = 1
  ShrinkTime = 1
  MaxData = 1
  RetryMax = 4
  RetryTime = 1
  Rtt = 0
  MaxCount = 1
  MaxNacks = 1
  FifoLimit = 2
  None = None
  Peers = {p1}
  MaxFlaps = 0
  MaxBurst = 3
  NackWindow = 0
  Search = 0

PROPERTIES
  Resumes
