CONSTANTS
  p1 = p1
  p2 = p2
  g1 = g1
  a = a
  Nil = Nil
  Posts = {p1, p2}
  Gets = {g1}
  ClientIDs = {a}
  MaxTime = 2
SPECIFICATION FairSpec
INVARIANTS
  TypeOK
  OnlyTheWindowLoses
  ListenersAreOpen
  HeardIsStored
PROPERTY EveryRequestEnds
CHECK_DEADLOCK FALSE
