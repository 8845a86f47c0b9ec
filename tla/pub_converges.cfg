SPECIFICATION FairSpec
CONSTANTS
  Managers = {m1, m2}
  Bodies = {b1, b2}
  Off = Off
  None = None
  Caches = {Off}
  Floors = {0}
  Backend = "postgres"
  MaxOps = 1
  MaxEpochs = 1
  Disruptions = {"lost", "unavailable", "lapse", "freeze"}
  MaxDisruptions = 2
PROPERTIES Converges
CHECK_DEADLOCK FALSE
