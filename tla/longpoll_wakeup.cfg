CONSTANTS
  p1 = p1
  g1 = g1
  a = a
  Nil = Nil
  Posts = {p1}
  Gets = {g1}
  ClientIDs = {a}
  MaxTime = 2
SPECIFICATION Spec
INVARIANT NoLostWakeup
CHECK_DEADLOCK FALSE
