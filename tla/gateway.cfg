SPECIFICATION GatewaySpec
CONSTANTS
  Addrs = {a1, a2}
  Roles = {"tcp", "http"}
  MaxStreams = 1
  MaxCommits = 2
  Clients = {w1, w2, w3}
  Backends = 2
  MaxSessions = 2
  MaxTotal = 2
  MaxMemory = 4
  MaxQueue = 2
  MaxFlows = 3
  Guards = {w1, w2}
  ActiveCapacity = 1
  RecentCapacity = 2
  PageLimit = 1
  MaxId = 3
  Streams = {w1, w2}
  Weights <- StreamWeights
  Dynamic = {1}
  MaxEpoch = 2
  MaxMaterial = 2
  RouteLimit = 1
  HandshakeLimit = 1
  WatcherKinds = {"pair", "set", "public", "workload"}
  Usable = {1, 2}
  Unusable = {3}
  MaxWrites = 3
  MaxTargets = 2
  MaxClock = 2
  MaxAge = 1
  LanguageRanges <- Ranges
  MaxQuality = 2
  MaxMembers = 2
  Codes = {"KR", "US"}
  Sites <- Origins
  Names = {"u", "v"}
  Passwords = {"1", "2"}
  MaxPath = 4
  MaxOperand = 3
  MaxLabel = 3
  RoutePriorities = {0, 1}
  RoutePaths <- ScopePaths
  RouteHosts <- ScopeHosts
  RequestHosts <- AskedHosts
  ServerPatterns <- SniPatterns
  ServerNames <- SniNames
  Calls = {w1, w2}
  Modes = {"observed", "projected", "decided"}
  AuthLife = 1
  PermitLife = 1
  BodySlots = 2
  RouteSlots = 1
  MaxSnapshot = 2
  MaxPolicy = 2
  MaxNativeClock = 1
  LeaseStreams = {"s"}
  Permissions = {w1, w2}
  LeaseAge = 1
  Deadline = 1
  EvidenceTtl = 1
  MaxGrants = 2
  MaxLeaseClock = 2
  Addresses = {1}
  GuardSetups <- Setups
  AnswerTtls = {1}
  LeaseCap = 1
  Queries = {w1, w2}
  PoolSize = 1
  CacheCapacity = 1
  EventCapacity = 1
  BatchSize = 2
  IdleRetire = 1
  SocketLife = 1
  Validity = 1
  MaxGuardRevision = 2
  MaxGuardClock = 1
  MaxSignals = 2
  Callers = {"a", "b"}
  CallSets <- AskedPairs
  Budget <- OneEach
  Pools <- AdminPools
  MaxShared = 2
  MaxTurns = 1
  Writers = {w1, w2}
  StoreKinds = {"plain", "identified", "old", "seed"}
  Operations = {1, 2}
  ReceiptCapacity = 3
  MaxStoreRevision = 3
  MaxStoreEpoch = 2
  MaxSequence = 4
  Editors = {w1, w2}
  UnixDaemons = {"a"}
  HttpsDaemons = {"b"}
  CliSocket = "a"
  Identified = {"a"}
  DockerBackends <- Containers
  NetAddresses = {1}
  WorkSlots = 2
  MaxDockerRevision = 1
  MaxStarts = 2
  MaxBackendEpochs = 2
  BuildDocuments <- BuiltDocuments
  MaxBuilds = 3
  MaxFiles = 2
SYMMETRY Symmetry
INVARIANTS
  ListenersSound
  RelaySound
  StreamsExact
  MaterialCoherent
  RulesExact
  LeaseSound
  GuardExact
  AdminExact
  StoreExact
  DiscoveryExact
  SnapshotsExact
CHECK_DEADLOCK FALSE
