SPECIFICATION InstanceSpec
CONSTANTS
  Members = {"a", "b"}
  Endpoints = {"x"}
  Transports = {1, 2}
  Conns = {w1, w2}
  MaxGates = 3
  Capacity = 2
  Routed = {w1, w2}
  Prober = prober
  Kinds = {"status"}
  HealthySuccesses = 2
  UnhealthyFailures = 1
  PassiveFailures = 2
  MaxEpoch = 2
  MaxEvidence = 2
  Names = {w1, w2}
  Logins = {l1}
  MaxUsers = 2
  MaxPerUser = 2
  MaxSessions = 2
  SessionTime = 2
  LeaseTime = 1
  AuditCapacity = 2
  Policies = {{}, {"update"}}
  LastUser = 2
  LastAudit = 4
  LastFiltered = 1
  LastPolicy = 1
  AccountClock = 1
  Releasers = {w1, w2}
  JournalRoom = 2
  ReceiptRoom = 2
  LedgerRoom = 1
  LastOp = 2
  LastRelease = 2
  ReleaseFaults = 2
  Resources = {"service", "ingress"}
  Objects = {w1, w2}
  MaxObjects = 1
  ChannelRoom = 1
  LastChange = 3
  Freezes = 1
  Namespaces = {w1, w2}
  Labels = {"a", "b"}
  Suffixes = {"x"}
  Ages = {1, 2, 3}
  Supervisors = {w1, w2}
  Releases = {1, 2, 3}
  FirstInstalled = 1
  TempNames = {"t1", "t2", "t3", "t4"}
  UnsyncedRoom = 1
  StorageFaults = 1
  Outages = 1
  Removers = {w1, w2}
  Installs = 3
  Attempts = 2
  GivenUp = 1
  ChallengeFaults = 1
  Values = {"v", "w"}
  Providers = {"cloudflare", "webhook"}
  CleanupAttempts = 2
  CleanupCapacity = 2
  MaxRecords = 4
  MaxOrders = 2
SYMMETRY Symmetry
INVARIANTS
  OwnHealthOnly
  AccountsSound
  AuthorityTruthful
  ValidationsAccounted
PROPERTIES
  MembersExact
  ReleasesKept
  HostsOwned
  InstallTruthful
CHECK_DEADLOCK FALSE
