SPECIFICATION FleetSpec
CONSTANTS
  Managers = {m1, m2}
  Bodies = {b1}
  Off = Off
  None = None
  Caches = {Off, 1}
  Floors = {0}
  Backend = "postgres"
  MaxOps = 2
  MaxEpochs = 1
  Disruptions = {"lost", "rejected", "crash", "journal"}
  MaxDisruptions = 2
  MaxGens = 3
  MaxDraining = 2
  MaxDocs = 2
  MaxSignals = 2
  Updates = TRUE
  Faults = {"start", "crash", "timeout", "term", "channel", "rollback"}
  MaxFaults = 1
  Issuers = {m1, m2}
  Bindings = {TRUE, FALSE}
  IssueLimit = 2
  StopLimit = 2
  KeyLimit = 4
  Instances = {m1, m2}
  DomainSets = {1, 2}
  MaxCerts = 2
  MaxTroubles = 1
SYMMETRY Symmetry
INVARIANTS
  TypeOK
  ActiveWasCommitted
  JournalTruthful
  ServiceKept
  SingleWriter
  ExactSnapshot
  CertificatesKept
PROPERTIES
  NoLostUpdate
CHECK_DEADLOCK FALSE
