SPECIFICATION Spec
CONSTANTS
  None = None
  NoScope = NoScope
  NoTopic = NoTopic
  Nobody = Nobody
  Missing = Missing
  Off = Off
  Scopes = {a, b}
  Topics = {t1, t2}
  Jobs = {"nightly", "command"}
  Command = "command"
  Callers = {"turn"}
  KeepLast = 1
  Bounds <- FewRuns
  Points = {0, 1, 3}
  MatchAt = 0
  AmbiguousAt = 1
  K = 2
  Chats = {"u", "g"}
  Private = {"u"}
  FaceTurns = {"t"}
  MaxPhotos = 2
  MaxFaces = 1
  MaxEnrolled = 3
  Files = {1, 2}
  Glob = {1}
  Words <- OneWordAndTwo
  Size = 2
  Overlap = 1
  Cap = 1
  Workers = {w1, w2}
  MaxChanges = 1
  MaxCalls = 2
  Skills <- TwoSkills
  Tools <- OneTool
  CatalogTurns = {"t", "u"}
  Models = {"small", "e5"}
  Provider <- ProviderOf
  Tries = 2
  Cuts = 1
  MaxStarts = 2
SYMMETRY Symmetry
INVARIANTS MemoryHolds FacesHold CatalogHolds
PROPERTIES IndexHolds
CHECK_DEADLOCK FALSE
