SPECIFICATION Spec

CONSTANTS
  NLegs = 2
  MuteLegs = {1, 2}
  Rtts = {1, 4}
  Drop = 3
  Restore = 2
  DropSettle = 1
  StallAfter = 1
  InitWeights <- TwoThree
  NewWeights = {}
  MaxChanges = 0
  Trickle = 2
  BufferTime = 3
  Srp = FALSE
  Churn = TRUE

INVARIANTS
  NeverDropped
