SPECIFICATION Spec
CONSTANTS
  None = None
  Off = Off
  MaxIterations = 4
  LastSteps = 2
  Dsml = FALSE
  Calls = {"c", "d"}
  Names = {"m", "n"}
  Files = {"f"}
  TurnsDuringStart = FALSE
  Tools = {search, edit, delegate}
  Pinned = {delegate}
  Operator = {edit}
  TopK = 1
  Ttl = 2
  Threshold = 1
  MaxTurns = 3
  MaxSteps <- StepsOfATurn
  MaxAnswers = 2
  MaxTools = 2
  Values = {"x"}
  Namespaces = {"ns2"}
  Faults = {"open", "late", "unlink"}
  MaxEdits = 1
  Server = Server
  Clients = {c1, c2}
  MaxSize = 1
  MaxMessages = 2
  MaxConns = 2
  MaxDrops = 1
  MaxBreaks = 1
  MaxLinks = 3
  MaxBatch = 2
  MaxFaults = 1
  MaxStarts = 2
SYMMETRY Symmetry
INVARIANTS   RoutingHolds WireHolds  LanHolds
CHECK_DEADLOCK FALSE
