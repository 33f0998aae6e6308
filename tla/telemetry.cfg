CONSTANTS
  c1 = c1
  c2 = c2
  c3 = c3
  a = a
  Nil = Nil
  Calls = {c1, c2, c3}
  ClientIDs = {a}
  Served = {"httpSend", "pollingSend", "pollingGet", "sendMessage", "sseEvents", "streamMessages",
            "sendBatchMessages", "chatStream", "httpStats", "pollingStats", "sseStats", "getStats"}
  MaxMessages = 2
SPECIFICATION Spec
SYMMETRY Symmetry
INVARIANTS
  TypeOK
  DoneIsVisible
  NothingInvented
  EveryMessageTracked
CHECK_DEADLOCK FALSE
