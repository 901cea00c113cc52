SPECIFICATION FairSpec

CONSTANTS
  NLegs = 3
  MuteLegs = {}
  Rtts = {}
  Drop = 3
  Restore = 2
  DropSettle = 1
  StallAfter = 1
  InitWeights <- AllWeights
  NewWeights = {}
  MaxChanges = 0
  Trickle = 2
  BufferTime = 3
  Srp = FALSE
  Churn = FALSE

INVARIANTS
  NeverDropped
  DuplicateGetsAll
  RoundExact

PROPERTIES
  EveryLegCarries
