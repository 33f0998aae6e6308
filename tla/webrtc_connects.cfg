CONSTANTS
  k1 = k1
  a = a
  Connects = {k1}
  Others = {}
  PeerIDs = {a}
  MaxTexts = 1
SPECIFICATION RTCFairSpec
PROPERTY AnsweredConnects
CHECK_DEADLOCK FALSE
