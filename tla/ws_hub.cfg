CONSTANTS
  c1 = c1
  c2 = c2
  p1 = p1
  a = a
  m1 = m1
  m2 = m2
  Nil = Nil
  Clients = {c1, c2}
  Posters = {p1}
  ClientIDs = {a}
  Messages = {m1, m2}
  SendCap = 1
  BroadcastCap = 1
SPECIFICATION Spec
SYMMETRY Symmetry
INVARIANTS
  TypeOK
  SendTargetsOpen
  NoGhostMember
  DrainNeverStalls
  MembersMissNothing
PROPERTY
  ImplementsBroadcast
CHECK_DEADLOCK FALSE
