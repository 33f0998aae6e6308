CONSTANTS
  c1 = c1
  p1 = p1
  a = a
  m1 = m1
  m2 = m2
  Nil = Nil
  Clients = {c1}
  Posters = {p1}
  ClientIDs = {a}
  Messages = {m1, m2}
  SendCap = 1
  BroadcastCap = 1
SPECIFICATION FairSpec
PROPERTIES
  NoGoroutineLeak
  NobodyBlocksForever
  StayingMemberGetsAll
CHECK_DEADLOCK FALSE
