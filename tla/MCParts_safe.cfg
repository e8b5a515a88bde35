CONSTANTS
  Parts = {"tablet", "manager", "engine", "limiter", "redo", "connpool",
           "serializer", "messager", "receivers", "queue", "vreplication", "binlog",
           "watcher", "cache", "again", "stopping", "lag", "session",
           "planned", "emergency"}
  w1 = w1
  w2 = w2
  d1 = d1
  d2 = d2
  Manager = Manager
  Checker = Checker
  Killer = Killer
  None = None
  Clients = {w1, w2}
  Redo = {d1, d2}
  Exempt = {w2}
  Readers = {w2}
  Controllers = {Manager, Checker}
  Capacity = 2
  PreparedCapacity = 1
  WaiterCap = 1
  MaxPerUser = 2
  Grace = TRUE
  Borrowers = {b1, b2, b3}
  MaxCap = 2
  Sizes = {1, 2}
  Transactions = {t1, t2, t3, t4, t5}
  Keys = {k1, k2}
  MaxQueueSize = 4
  MaxGlobalQueueSize = 4
  ConcurrentTransactions = 2
  r1 = r1
  r2 = r2
  m1 = m1
  m2 = m2
  Poller = Poller
  NoOne = NoOne
  Receivers = {r1, r2}
  Messages = {m1, m2}
  CacheSize = 1
  BatchSize = 1
  CopiedTables = {"a", "b"}
  MaxPK = 2
  Log <- MCLog
  Streams <- MCStreams
  Statements = 2
  MaxTxs = 3
  StopPositions = {0, 2}
  a1 = a1
  a2 = a2
  k1 = k1
  k2 = k2
  Aliases = {a1, a2}
  Addrs = {k1, k2}
  RemoteAliases = {a2}
  CheckConns = {c1, c2}
  MaxLoads = 3
  MaxReparent = 2
  Nowhere = Nowhere
  LagTablets = {y1, y2, y3, y4}
  Lags = {0, 1, 2, 20, 21}
  LowLag = 1
  VeryHighLag = 20
  MinNumTablets = 2
  RoundedDown = {}
  RoundedUp = {}
  y1 = y1
  h1 = h1
  h2 = h2
  Plans <- GatePlans
  SingleModes = {FALSE, TRUE}
  MaxCommands = 3
  MaxDMLs = 2
  MaxLost = 1
  Tablets = {x1, x2, x3}
  Primary = x1
  Nobody = Nobody
  MaxWrites = 1
  MaxReparents = 2
  MaxDead = 1
SPECIFICATION PartsSpec
CHECK_DEADLOCK FALSE
INVARIANTS
  LastRequestWins NoWritesInReadOnly LimiterAccounts TabletAgrees StopIsClean
  PoolAccounts
  RowsProtected QueuesAgree
  SenderNotNeeded QueuedIsDue
  TargetMatchesSource DDLOutsideTransaction
  AppliedOnce StopPositionHolds
  DiscoveryAgrees LeastLagServes SessionAgrees ReparentAgrees
  PartsTypeOK
PROPERTIES
  CloseWaits StopIsRespected
