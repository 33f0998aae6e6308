CONSTANTS
  w1 = w1
  w2 = w2
  w3 = w3
  Sockets = {w1, w2, w3}
  k1 = k1
  k2 = k2
  o1 = o1
  o2 = o2
  a = a
  Connects = {k1, k2}
  Others = {o1, o2}
  PeerIDs = {a}
  MaxTexts = 2
  c1 = c1
  c2 = c2
  console = console
  visualizer = visualizer
  Requests = {c1, c2}
  Kinds = {"httpSend", "pollingGet", "startServerStream"}
  Listeners = {console, visualizer}
  Console = console
  Throwing = {visualizer}
  MaxShown = 2
  MaxChunks = 1
  http = http
  ws = ws
  grpc = grpc
  Protocols = {http, ws, grpc}
  Silent = {grpc}
  MaxRequests = 3
  MaxCount = 1
  Moves = 3
  MaxEffects = 3
  MaxEvents = 4
  MaxTicks = 7
  Milli = 2
  MaxClock = 2
  MaxPosts = 2
  MaxPolls = 3
  maxLatencyWindow = 3
  Period = 2
  Latencies = {1, 2, 3}
  MaxTime = 4
  MaxRecords = 4
  PongWait = 10
  PingPeriod = 9
  WriteWait = 2
  MaxNow = 30
SPECIFICATION Spec
INVARIANTS
  PartsTypeOK
  FieldsMirrorSocket
  PromiseSettled
  ConnectsKeepApart
  PeersAreServed
  CallsAreToldOnce
  ConsoleShowsLatest
  AnimationRuns
  SessionMissesNothing
  AnswersExtend
  SnapshotExact
  SilentIsLate
PROPERTIES
  ShownGoesForward
CHECK_DEADLOCK FALSE
