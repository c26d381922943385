CONSTANTS
  t1 = t1
  t2 = t2
  t3 = t3
  t4 = t4
  u1 = u1
  u2 = u2
  m1 = m1
  m2 = m2
  q1 = q1
  x1 = x1
  c1 = c1
  NoTurn = NoTurn
  Loop = Loop
  Guardian = Guardian
  Turns = {t1, t2, t3}
  Users = {u1, u2}
  Triggers = {m1}
  Queued = {}
  Injected = {}
  Others = {}
SPECIFICATION Spec
INVARIANTS SlotIsFree
CHECK_DEADLOCK FALSE
