SPECIFICATION HandoffFairSpec
CONSTANTS
  MaxGens = 4
  MaxDraining = 1
  MaxDocs = 1
  MaxSignals = 3
  Updates = FALSE
  Faults = {"slow", "timeout", "start", "term", "crash"}
  MaxFaults = 2
INVARIANTS
  BoundedGenerations
PROPERTIES
  ReplacementsEnd
CHECK_DEADLOCK FALSE
