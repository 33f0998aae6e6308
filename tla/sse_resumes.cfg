CONSTANTS
  p1 = p1
  p2 = p2
  s1 = s1
  s2 = s2
  a = a
  Posts = {p1, p2}
  Streams = {s1, s2}
  ClientIDs = {a}
  StreamCap = 2
  Nil = Nil
SPECIFICATION SessionSpec
SYMMETRY Symmetry
INVARIANT ReconnectionsResume
CHECK_DEADLOCK FALSE
