SPECIFICATION RoundsSpec
CONSTANTS
  Observers = {r1}
  Tools = {t1}
  Modes = {"tools"}
  MaxText = 1
  MaxSurfaces = 1
  MaxRetries = 1
  MaxLost = 1
  Nobody = Nobody
INVARIANTS
  VetoIsReal
CHECK_DEADLOCK FALSE
