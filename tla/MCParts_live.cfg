CONSTANTS
  Parts = {"manager", "connpool", "serializer", "messager", "pair", "vreplication"}
  w1 = w1
  w2 = w2
  d1 = d1
  d2 = d2
  Manager = Manager
  Checker = Checker
  Killer = Killer
  None = None
  Clients = {w1}
  Redo = {d1}
  Exempt = {}
  Readers = {}
  Controllers = {Manager, Checker}
  Capacity = 2
  PreparedCapacity = 1
  WaiterCap = 1
  MaxPerUser = 2
  Grace = TRUE
  Borrowers = {b1, b2}
  MaxCap = 2
  Sizes = {1, 2}
  Transactions = {t1, t2, t3, t4}
  Keys = {k1, k2}
  MaxQueueSize = 3
  MaxGlobalQueueSize = 3
  ConcurrentTransactions = 2
  r1 = r1
  r2 = r2
  m1 = m1
  m2 = m2
  Poller = Poller
  NoOne = NoOne
  Receivers = {r1}
  Messages = {m1, m2}
  CacheSize = 2
  BatchSize = 2
  CopiedTables = {"a", "b"}
  MaxPK = 2
  Log <- MCLogShort
  Streams <- PlainStream
  Statements = 2
  MaxTxs = 3
  StopPositions = {0, 2}
  a1 = a1
  a2 = a2
  k1 = k1
  k2 = k2
  Aliases = {a1, a2}
  Addrs = {k1, k2}
  RemoteAliases = {a2}
  CheckConns = {c1, c2}
  MaxLoads = 3
  MaxReparent = 2
  Nowhere = Nowhere
  LagTablets = {y1, y2, y3, y4}
  Lags = {0, 2, 20, 21}
  LowLag = 1
  VeryHighLag = 20
  MinNumTablets = 2
  RoundedDown = {}
  RoundedUp = {}
  y1 = y1
  h1 = h1
  h2 = h2
  Plans <- GatePlans
  SingleModes = {FALSE, TRUE}
  MaxCommands = 3
  MaxDMLs = 2
  MaxLost = 1
  Tablets = {x1, x2, x3}
  Primary = x1
  Nobody = Nobody
  MaxWrites = 2
  MaxReparents = 2
  MaxDead = 1
SPECIFICATION PartsFairSpec
CHECK_DEADLOCK FALSE
PROPERTIES
  TransitionEnds PoolSettles EveryoneServed DueIsSent CloseCompletes
  StreamCatchesUp
