SPECIFICATION Spec

CONSTANTS
  QueueMax = 4
  SeqSpace = 4
  IndexSize = 4
  Advanced = TRUE
  MinTime = 2
  ShrinkTime = 2
  MaxData = 1
  RetryMax = 2
  RetryTime = 0
  Rtt = 1
  MaxCount = 1
  MaxNacks = 1
  FifoLimit = 2
  None = None
  Peers = {p1, p2}
  MaxFlaps = 1
  MaxBurst = 1
  NackWindow = 2
  Search = 1
SYMMETRY PeerSymmetry

INVARIANTS
  TypeOK
  RingExact
  Found

PROPERTIES
  Retained
  Paced
