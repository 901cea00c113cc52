SPECIFICATION FairSpec

CONSTANTS
  RetryMax = 1
  ResendMax = 2
  Bases <- MCBases
  Numbers <- MCNumbers
  MaxFaults = 2
  MaxReauths = 1
  MaxRestarts = 1
CHECK_DEADLOCK FALSE

INVARIANTS
  TypeOK
  
  Authentic
  GuessesBounded


  
