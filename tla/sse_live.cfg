CONSTANTS
  p1 = p1
  p2 = p2
  s1 = s1
  a = a
  Posts = {p1, p2}
  Streams = {s1}
  ClientIDs = {a}
  StreamCap = 1
  Nil = Nil
SPECIFICATION SessionFairSpec
INVARIANT SequentialPostsInOrder
PROPERTIES
  StreamsAndPostsEnd
  BroadcastIsShown
  NoStreamLeaks
CHECK_DEADLOCK FALSE
