SPECIFICATION FairSpec
CONSTANTS
  x = x
  x1 = x1
  x2 = x2
  None = None
  MaxPeers = 3
  Addrs = {x1, x2}
  Callers = {x}
  Owner <- MCOwner
  Srps = {TRUE, FALSE}
  Weights = {0, 1}
  Silent = 0
  Timeout = 1
  RemoveAfter = 0
  Grace = 0
  Wrap = 8
INVARIANTS
  TypeOK
  CountExplained
  NoDangling
  Carries
PROPERTIES
  Forgotten
