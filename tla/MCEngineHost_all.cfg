CONSTANTS
  e1 = e1
  e2 = e2
  c1 = c1
  None = None
  Engines = {e1, e2}
  Calls = {c1}
  MaxAttempts = 2
  MaxCrashes = 1
  MaxSwitches = 1
  MaxTimers = 2
SPECIFICATION FairSpec
INVARIANTS TypeOK NoStrayEngine
PROPERTIES CrashIsRepaired CallsSettle
CHECK_DEADLOCK FALSE
