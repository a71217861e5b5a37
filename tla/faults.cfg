SPECIFICATION Spec
CONSTANTS
  Tasks = {t1}
  MaxConcurrent = 2
  Budget = 3
  Scopes = {c1}
  ScopeOf <- OneScope
  Silent = {c1}
  Keep = Keep
  TurnsDuringStop = TRUE
  Retention = TRUE
  MaxStops = 2
  MaxFaults = 1
CHECK_DEADLOCK FALSE
INVARIANTS
  Coherente
  PreguntaNoSilenciada
  DictYDiscoCoinciden
PROPERTIES
  TodoSeAsienta
