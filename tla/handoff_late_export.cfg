SPECIFICATION HandoffSpec
CONSTANTS
  MaxGens = 2
  MaxDraining = 2
  MaxDocs = 1
  MaxSignals = 2
  Updates = FALSE
  Faults = {"slow"}
  MaxFaults = 1
INVARIANTS
  ExactSnapshot
CHECK_DEADLOCK FALSE
