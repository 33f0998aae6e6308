CONSTANTS
  p1 = p1
  s1 = s1
  s2 = s2
  a = a
  Posts = {p1}
  Streams = {s1, s2}
  ClientIDs = {a}
  StreamCap = 1
  Nil = Nil
SPECIFICATION Spec
INVARIANT LiveStreamsTracked
CHECK_DEADLOCK FALSE
