SPECIFICATION Spec
CONSTANTS
  m1 = m1
  m2 = m2
  photo = photo
  n1 = n1
  Msgs = {m1, m2, photo}
  Notices = {n1}
  NoMsg = NoMsg
  MaxIter = 1
  MaxResets = 1
  Threshold = 1
  Window = 0
  KeepLast = 2
  Photos = {photo}
  Tasks = {m2}
  Batches = {2}
  MaxCalls = 2
  MaxEvents = 1
INVARIANTS TypeOK ProtocolIntact HistoryIsSeen BoundedRounds HistoryIsKept SlotOfItsTurn
CONSTRAINT PhotoOrRest
CHECK_DEADLOCK FALSE
