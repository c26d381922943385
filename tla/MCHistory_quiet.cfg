CONSTANTS
  r1 = r1
  r2 = r2
  AutoJob = AutoJob
  Requests = {r1, r2}
  KeepChoices = {1, 3}
  AutoKeep = 2
  AutoMinimum = 4
  MaxMessages = 6
SPECIFICATION QuietSpec
INVARIANTS  OrderKept
CHECK_DEADLOCK FALSE
