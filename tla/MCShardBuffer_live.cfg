CONSTANTS
  r1 = r1
  r2 = r2
  r3 = r3
  s1 = s1
  s2 = s2
  t1 = t1
  t2 = t2
  None = None
  Requests = {r1, r2}
  Shards = {s1}
  DryRun = {}
  Tablets = {t1}
  Size = 2
  MaxTimestamp = 1
SPECIFICATION AnySizeSpec
INVARIANT ClosedOnce
PROPERTIES BufferedReturns ShutdownEnds
CHECK_DEADLOCK FALSE
