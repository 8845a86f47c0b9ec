SPECIFICATION HealthSpec
CONSTANTS
  Routed = {c1}
  Prober = prober
  Kinds = {"status", "timeout"}
  HealthySuccesses = 1
  UnhealthyFailures = 1
  PassiveFailures = 1
  MaxEpoch = 2
  MaxEvidence = 2
INVARIANTS
  JudgedByOwnHealth
CHECK_DEADLOCK FALSE
