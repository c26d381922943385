CONSTANTS
  t1 = t1
  t2 = t2
  w1 = w1
  w2 = w2
  Threads = {t1, t2}
  Workers = {w1, w2}
  Tokens = {1, 2, 3, 4, 5}
  NoToken = 0
  LeaseSeconds = 1
  RetryDelay = 1
  Retries = 1
  MaxClaimed = 1
  MinIdle = 1
  MaxAge = 3
  MaxUnused = 1
  MaxNow = 3
  MaxEvents = 2
SPECIFICATION Spec
SYMMETRY Symmetry
INVARIANTS TypeOK OutputIsLastSuccess  ForgottenStaysForgotten
PROPERTIES NewestWins ImplementsLeases
CHECK_DEADLOCK FALSE
