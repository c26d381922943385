CONSTANTS
  p1 = p1
  p2 = p2
  a1 = a1
  a2 = a2
  Procs = {p1, p2}
  Autos = {a1}
  Schedules <- NoGap
  RunLimits = {0}
  SearchWindow = 3
  Lookahead = 1
  MaxRunsPerTick = 1
  MaxClock = 4
  MaxEdits = 1
  MaxRunNow = 1
  MaxCrashes = 1
SPECIFICATION FairSpec
PROPERTY DueIsClaimed
