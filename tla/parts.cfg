SPECIFICATION Spec
CONSTANTS
  Parts = {"hits", "log", "list", "table", "damaged", "merge", "merge errors", "jobs",
    "pool", "disk", "streams", "scan", "health", "exit", "one after another",
    "concurrent", "restarting", "two coordinators", "handoff", "replay", "ranges",
    "joining", "joining and leaving", "topology", "tenant", "gateway"}
  Live = FALSE
  n1 = n1  n2 = n2  n3 = n3  NoNode = NoNode  None = None
  \* CacheRead, CommitLog, CompactionJobs, Shutdown
  Readers = {"r1", "r2"}  MaxPuts = 2
  SegmentSize = 1  ReadErrors = 0  ClockSteps = {"forward"}
  MaxAppends = 3  MaxStarts = 3  LogTime = 3
  Compactors = {"w1", "w2"}  L0Trigger = 2  LevelSize <- MCLevelSize  Multiplier = 2
  LastLevel = 2  JobQueue = 2  MaxFlushes = 3  MaxRuns = 2
  Clients = {"c1", "c2"}  MaxCalls = 3
  \* WorkerPool, DiskManager, Streaming, HealthCheck
  Tasks = {n1, n2, n3}  PoolWorkers = {"w1", "w2"}  Stoppers = {"s1", "s2"}  PoolQueue = 1
  Writers = {"w1", "w2"}  NoWriter = "none"  Total = 20  FreeAtStart = 4  Share = 2
  Throttle = 80  Breaker = 90  Sizes = {1, 2}  Interval = 1  DiskTime = 2
  Targets = {"t1", "t2"}  Top = 3  Ranges <- MCRanges  MaxStreams = 2
  StreamWrites = 1
  Probers = {"p1", "p2"}  Goroutines = {"p1", "p2", "checker", "main"}  Nobody = "none"
  Usages = {50, 91, 95, 96}  HealthRuns = 3  MaxProbes = 3
  \* Coordinator
  Replicas = {n1, n2, n3}  Callers <- MCCallers  LevelsOf <- MCLevels
  FaultsOf <- MCFaults  WritesOf <- MCWrites  ReadsOf <- MCReads
  RestartsOf <- MCRestarts  IKeys = {"k"}
  \* HintedHandoff, HintReplay, Topology, Tenants, Gateway
  Replayers = {"w1", "w2"}  KeyOf <- MCKeyOf  MaxHints = 2  HintRetries = 2
  StoredHints = 4  BatchSize = 2  MaxReplays = 3  Rejected = {2}
  DbFails = TRUE  NodeIsDown = TRUE
  Hosts = {1, 2, 3}  Coords = {"c1"}  Initial = {1, 2}  RF = 2  MinNodes = 2
  Kinds = {"add", "force"}  Candidates = {3}  MaxAttempts = 1  MaxOps = 2
  Faults = {"db", "start", "stream", "slow", "hints", "crash", "restart"}
  TenantCoords = {"c1", "c2"}  Procs = {"p1", "p2", "p3"}  Home <- MCHome
  Factors = {0, 4}  DbMayFail = TRUE  MaxReqs = 3
  Requests = {"r1", "r2"}  MaxRetries = 1
  GatewayOps = {"write", "read", "createTenant", "getTenant"}
SYMMETRY Symmetry
INVARIANTS
  TypesOK NeverOlder LogIsReplayed  CompactionLosesNothing TasksAreKept
  FreshDecisions StreamsAreOwn  AnswersAreOfOneCheck CallsFinish
  ReadsAnswerNewest ClocksFollowWrites  ReplayedMeansDelivered
   TopologyServes UpdatesAreVersions 
PROPERTIES
  IsAMap DroppedForCause 
