SPECIFICATION Spec
CONSTANTS
  ShipBatch = 2
  Mishaps = {"crash"}
  MaxLogged = 2
  MaxMishaps = 1
INVARIANT SkipsOnlyFirstBacklog
CHECK_DEADLOCK FALSE
