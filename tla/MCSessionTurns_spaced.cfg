CONSTANTS
  x1 = x1
  x2 = x2
  bash = bash
  read = read
  NoTurn = NoTurn
  Turns = {x1, x2}
  YoloTurns = {x2}
  Tools = {bash, read}
  Dangerous = {bash}
  Replies <- AllReplies
  MaxIterations = 2
  MaxCrashes = 1
SPECIFICATION FairSpacedSpec
INVARIANTS OneTurnAtATime WaitsAreAnswerable ResultsFollowCalls 
PROPERTIES DangerNeedsApproval 
CHECK_DEADLOCK FALSE
