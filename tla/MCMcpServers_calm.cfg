CONSTANTS
  k1 = k1
  k2 = k2
  x1 = x1
  x2 = x2
  None = None
  Conns = {k1, k2}
  Procs = {1, 2, 3, 4, 5}
  Calls = {x1, x2}
  MaxCrashes = 1
  MaxChanges = 2
SPECIFICATION FairSpec
INVARIANTS  NoStrayServer
PROPERTIES CallsSettle 
CHECK_DEADLOCK FALSE
