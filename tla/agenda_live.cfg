SPECIFICATION Spec
CONSTANTS
  Ids <- OneId
  Builtin = 0
  Schedules <- OnePeriod
  Lefts <- EndlessOrOnce
  Forever = Forever
  Callers = {c1}
  Ops = {"create", "enable", "disable", "rename", "reschedule", "edit", "delete", "run"}
  MaxActive = 2
  MaxRetries = 0
  MaxSleep = 2
  MaxTime = 2
  MaxCalls = 3
  MaxStops = 1
  MaxFaults = 0
CHECK_DEADLOCK FALSE
PROPERTIES
  DueIsAttended
