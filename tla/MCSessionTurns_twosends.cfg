CONSTANTS
  x1 = x1
  x2 = x2
  bash = bash
  read = read
  NoTurn = NoTurn
  Turns = {x1, x2}
  YoloTurns = {}
  Tools = {bash, read}
  Dangerous = {bash}
  Replies <- OneCall
  MaxIterations = 1
  MaxCrashes = 0
SPECIFICATION Spec
INVARIANT OneTurnAtATime
CHECK_DEADLOCK FALSE
