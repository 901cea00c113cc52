SPECIFICATION GuardFairSpec

CONSTANTS
  NLegs = 3
  MuteLegs = {1, 2}
  Rtts = {1, 4}
  Drop = 3
  Restore = 2
  DropSettle = 1
  StallAfter = 1
  InitWeights <- EqualWeights
  NewWeights = {0}
  MaxChanges = 1

INVARIANTS
  GuardTypeOK

PROPERTIES
  LeavesCarrier
  CheckKeepsCarrier
  RoleHeld
  Restores
