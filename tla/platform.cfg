SPECIFICATION PlatformSpec
CONSTANTS
  c1 = c1
  c2 = c2
  c3 = c3
  v1 = v1
  v2 = v2
  x1 = x1
  x2 = x2
  k1 = k1
  k2 = k2
  k3 = k3
  k4 = k4
  q1 = q1
  q2 = q2
  m1 = m1
  m2 = m2
  e1 = e1
  e2 = e2
  e3 = e3
  n1 = n1
  n2 = n2
  AuthCalls = {c1, c2, c3}
  MAX_CONCURRENT_SESSIONS = 1
  MaxRows = 2
  MaxTokens = 3
  Visits = {v1, v2}
  Exchanges = {x1, x2}
  Sockets = {k1, k2, k3, k4}
  IoSockets = {k1}
  SocketUsers = {"u1"}
  WS_MAX_CONNECTIONS_PER_WINDOW = 3
  WS_MAX_ACTIVE_PER_IP = 2
  WS_MAX_ACTIVE_PER_USER = 1
  KeyedRequests = {q1, q2}
  MaxPolls = 2
  ModelCalls = {m1, m2}
  Setups <- MCSetups
  Keyed = {"gemini", "nim", "openai", "anthropic"}
  ModelRetries = 1
  CallsPerMinute = 2
  DailyTokens = 5
  SessionBudget = 3
  ModeLimit = 1
  BreakerVolume = 2
  DagNodes = {"root", "leaf"}
  Root = "root"
  MaxWork = 2
  Executions = {e1, e2, e3}
  ContextExperts = {"code", "reviewer"}
  HistoryLimit = 1
  RecentTurns = 1
  Summary = "summary"
  Paths = {"p1"}
  Users = {"u1", "u2"}
  Viewer = "u1"
  Requests = {"r1"}
  Sizes = {1, 2}
  MaxFileSize = 1
  MaxTotalSize = 1
  MaxFiles = 1
  MaxVersions = 2
  Edits = {"t1", "t2", "t3"}
  Trees <- MCTrees
  Top = "."
  Concurrency = 2
  Starts = {n1, n2}
  MaxIterations = 1
  ShellIds <- MCShellIds
  Tabs = {"a", "b"}
  PageCalls = {"r1", "r2"}
  MaxSignIns = 1
  Mounts = {1, 2}
  Plans = {1, 2}
  MaxMessages = 1
  Registrations = {"g1", "g2"}
  Namings <- MCNamings
  Listings = {"l1"}
  ToolCalls = {"t1"}
  SandboxCalls = {"a"}
  Copies = 1
  SyncTasks = 2
  ParallelTasks = {"w1", "w2"}
  Readers <- MCReaders
  NoReader = "none"
  MaxChats = 2
  NoChat = 0
  MaxSaid = 2
  MaxChatCalls = 2
  MaxSaves = 1
  Kids = {"j1", "j2"}
  IdTokens <- MCTokens
  CacheTtl = 1
  MaxClock = 2
  Arrivals = {"r1", "r2"}
  Tenants = {"t1", "t2"}
  ProviderCalls = {"a", "b"}
  MaxRefreshes = 2
  Primary = "code"
  Peers = {"reviewer"}
  Servers = {"s1", "s2"}
  InitRetries = 1
  Writes = {"w"}
  WriteAttempts = 3
  Windows = {"a", "b"}
  HttpRoutes = {"code", "diagnostics"}
  MaxHttp = 3
  MaxCsrf = 2
  IndexFiles = {"f1"}
  IndexVersions = {"live", "next"}
  MaxSourceEdits = 2
  MaxIndexRuns = 3
  Symbols <- MCSymbols
  ImportOf <- MCImportOf
  Askers = {"u1", "u2"}
  Appends = {"a1", "a2"}
  Uploads = {"h1"}
  GainOf <- MCGainOf
  CandidateLimit = 3
  PacketLimit = 2
  MaxSaved = 1
  MaxLoads = 2
  Links = {"l1", "l2", "l3"}
  Urls = {"app", "fork"}
  MaxCommits = 2
  Constraints = {"ci", "lint", "style"}
  Priorities = {1, 2}
  MaxLineTokens = 3
  MaxLines = 3
  ConstraintBudget = 6
  ChunkBudget = 2
  TurnRings <- MCTurnRings
  ModelReplies <- MCReplies
  GeminiRounds = 2
  OtherRounds = 2
  GatedTools = {"list", "memory", "write"}
  ToolPolicy <- MCToolPolicy
  Permitted = {"memory", "write"}
  ToolRuns = {"run1", "run2"}
  LeaseTtl = 1
  GrantTtl = 0
  MaxGateClock = 1
  MaxGrants = 1
  ToolParams <- MCToolParams
  Invocations = {"i1", "i2"}
  CircuitWindow = 1
  CircuitMinSamples = 1
  CircuitErrorPercent = 20
INVARIANTS PlatformTypesOK ReuseDetection GatesHold NothingIsLost EvidenceIsExact ScreenIsCurrent NothingLeft
INVARIANTS EveryCallIsAnswered ReportIsWhatRan
PROPERTIES OneTimeUse RequestsSettle
CHECK_DEADLOCK FALSE
