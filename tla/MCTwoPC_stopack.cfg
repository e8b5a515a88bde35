CONSTANTS
  p1 = p1
  p2 = p2
  r1 = r1
  Participants = {p1, p2}
  ReadOnly = {}
  MM = mm
  Gate = gate
  Resolvers = {r1}
  Late = late
  MayStop = TRUE
  RedoMayFail = FALSE
  MaxFaults = 1
SPECIFICATION Spec
INVARIANTS AckedIsCommitted
SYMMETRY Symmetry
CHECK_DEADLOCK FALSE
