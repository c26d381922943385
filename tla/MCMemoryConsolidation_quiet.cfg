CONSTANTS
  t1 = t1
  t2 = t2
  w1 = w1
  w2 = w2
  Threads = {t1}
  Workers = {w1, w2}
  Tokens = {1, 2, 3, 4}
  NoToken = 0
  NoFiles = NoFiles
  Torn = Torn
  Broken = Broken
  LeaseSeconds = 2
  RetryDelay = 1
  Cooldown = 1
  MaxInputs = 1
  MaxVersion = 1
  MaxFaults = 2
  MaxResets = 1
SPECIFICATION FairSpec
INVARIANT OneConsolidator
PROPERTIES SuccessMeansConsolidated ImplementsLock PollutedIsForgotten
CHECK_DEADLOCK FALSE
