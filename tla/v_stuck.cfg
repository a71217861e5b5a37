SPECIFICATION Safety
CONSTANTS
  Ids <- OneId
  Builtin = 0
  Schedules <- Periods
  Lefts <- Countdowns
  Forever = Forever
  Callers = {c1}
  Ops = {"create", "rename"}
  MaxActive = 2
  MaxRetries = 1
  MaxSleep = 2
  MaxTime = 3
  MaxCalls = 3
  MaxStops = 0
  MaxFaults = 0
CHECK_DEADLOCK FALSE
INVARIANTS
  RunningIsExecuted
