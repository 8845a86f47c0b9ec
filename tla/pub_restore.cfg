SPECIFICATION Spec
CONSTANTS
  Managers = {m1, m2}
  Bodies = {b1, b2}
  Off = Off
  None = None
  Caches = {Off}
  Floors = {0}
  Backend = "postgres"
  MaxOps = 2
  MaxEpochs = 2
  Disruptions = {"restore", "wipe", "unavailable"}
  MaxDisruptions = 2
SYMMETRY Symmetry
PROPERTIES
  ActiveMovesForward
  ImplementsAuthority
CHECK_DEADLOCK FALSE
