SPECIFICATION Safety
CONSTANTS
  Ids <- TwoIds
  Builtin = 1
  Schedules <- Periods
  Lefts <- EndlessOrOnce
  Forever = Forever
  Callers = {c1}
  Ops = {"create", "enable", "disable"}
  MaxActive = 2
  MaxRetries = 1
  MaxSleep = 2
  MaxTime = 2
  MaxCalls = 2
  MaxStops = 1
  MaxFaults = 1
CHECK_DEADLOCK FALSE
INVARIANTS
  TypeOK
  RunsAsAsked
  NextRunIsASlot
