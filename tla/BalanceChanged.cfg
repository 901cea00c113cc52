SPECIFICATION Spec

CONSTANTS
  NLegs = 2
  MuteLegs = {2}
  Rtts = {1, 4}
  Drop = 3
  Restore = 2
  DropSettle = 1
  StallAfter = 1
  InitWeights <- OneTwo
  NewWeights = {0, 2}
  MaxChanges = 1
  Trickle = 2
  BufferTime = 3
  Srp = TRUE
  Churn = TRUE

INVARIANTS
  TypeOK
  NoTwoLost
