SPECIFICATION Safety
CONSTANTS
  Tasks = {t1, t2}
  MaxConcurrent = 1
  Budget = 2
  Scopes = {c1}
  ScopeOf <- OneScope
  Silent = {}
  Keep = Keep
  TurnsDuringStop = FALSE
  Retention = FALSE
  MaxStops = 2
  MaxFaults = 0
CHECK_DEADLOCK FALSE
SYMMETRY TaskSymmetry
INVARIANTS
  TypeOK
  TramosRastreados
  CancelNoCortaEntregas
  UnSoloHijo
  QuedaPresupuesto
  ResultadoAsentado
  NadieSinNoticia
PROPERTIES
  CumpleElCicloDeVida
