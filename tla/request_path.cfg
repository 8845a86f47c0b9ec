SPECIFICATION RequestSpec
CONSTANTS
  Requests = {w1, w2}
  Targets = {t1}
  MaxFills = 1
  MaxVersion = 1
  MaxGeneration = 1
  MaxPurges = 1
  CacheFaults = 1
  Clients = {c1, c2}
  Observers = {w1, w2}
  MaxClients = 1
  Threshold = 2
  WindowTime = 2
  BanTime = 2
  BanClock = 3
  MaxClears = 1
  Addresses = {a1, a2}
  Peers = {w1, w2}
  SharedRoom = 1
  SharedFailures = 2
  SharedWindow = 2
  SharedBan = 1
  SharedTtl = 2
  SharedClock = 3
  SharedClears = 1
  SharedFlight = 3
  Callers = {w1, w2}
  Tps = 1
  Burst = 2
  WindowLimit = 1
  WindowTicks = 3
  KeyTtl = 3
  RateClock = 6
  Verifiers = {w1, w2}
  Monitor = mon
  MaxKey = 2
  KeyTime = 2
  Cooldown = 1
  KeyClock = 3
  Slots = 2
  Tasks = {w1, w2}
  MaxCalls = 2
  MaxSpawned = 3
  Profiles <- HttpProfiles
  Arrivals <- HttpArrivals
  HttpMembers = {1, 2}
  Retries = 1
  MaxMoves = 1
  Inspected = {w1, w2}
  BlockPolicies <- Blocks
  Queries <- QueryStrings
  Bodies <- FormBodies
  Entries <- EntryPoints
  Inspectors = 1
  SpoolSlots = 2
  SpoolQuota = 3
  MaxPiece = 2
  MaxField = 1
  MaxParts = 2
  MaxHidden = 3
  TransformConfigs <- Transforms
  WhenPrefix <- Prefix
  MaxBody = 6
  MaxFrame = 3
  Bearers = {w1, w2}
  RouteDocuments <- JwtRoutes
  BearerTokens <- PresentedTokens
  VerificationSlots = 1
  MaxPublished = 3
  MaxMono = 2
  MaxWall = 4
SYMMETRY Symmetry
INVARIANTS
  PoolSound
  PipelineSound
  BodiesInspected
  SessionsBounded
PROPERTIES
  CacheCoherent
  LimitsExact
  KeysDisciplined
CHECK_DEADLOCK FALSE
