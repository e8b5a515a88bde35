CONSTANTS
  r1 = r1
  r2 = r2
  r3 = r3
  s1 = s1
  s2 = s2
  s3 = s3
  t1 = t1
  t2 = t2
  None = None
  Requests = {r1, r2}
  Shards = {s1, s2, s3}
  DryRun = {s3}
  Tablets = {t1}
  Size = 1
  MaxTimestamp = 1
SPECIFICATION Spec
INVARIANTS IdleIsQuiet SlotsAccounted DryRunHoldsNothing
SYMMETRY Symmetry
CHECK_DEADLOCK FALSE
