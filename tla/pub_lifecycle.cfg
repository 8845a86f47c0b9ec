SPECIFICATION Spec
CONSTANTS
  Managers = {m1, m2}
  Bodies = {b1, b2}
  Off = Off
  None = None
  Caches = {Off}
  Floors = {0}
  Backend = "redis"
  MaxOps = 2
  MaxEpochs = 1
  Disruptions = {"lost", "rejected", "crash", "freeze", "withdraw", "unpreparable", "stall", "lapse", "invalid", "unavailable"}
  MaxDisruptions = 2
SYMMETRY Symmetry
INVARIANTS
  InstancesHonest
CHECK_DEADLOCK FALSE
