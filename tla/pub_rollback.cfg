SPECIFICATION Spec
CONSTANTS
  Managers = {m1, m2}
  Bodies = {b1}
  Off = Off
  None = None
  Caches = {Off}
  Floors = {0}
  Backend = "redis"
  MaxOps = 3
  MaxEpochs = 1
  Disruptions = {"restore"}
  MaxDisruptions = 1
SYMMETRY Symmetry
PROPERTIES RollbackNeedsRestart
CHECK_DEADLOCK FALSE
