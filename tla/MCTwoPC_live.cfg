CONSTANTS
  p1 = p1
  p2 = p2
  r1 = r1
  Participants = {p1, p2}
  ReadOnly = {}
  MM = mm
  Gate = gate
  Resolvers = {r1}
  Late = late
  MayStop = FALSE
  RedoMayFail = FALSE
  MaxFaults = 2
SPECIFICATION FairSpec
INVARIANTS AckedIsCommitted ConcludedIsCommitted
PROPERTIES AllResolved
CHECK_DEADLOCK FALSE
