CONSTANTS
  p1 = p1
  p2 = p2
  p3 = p3
  r1 = r1
  Participants = {p1, p2, p3}
  ReadOnly = {p3}
  MM = mm
  Gate = gate
  Resolvers = {r1}
  Late = late
  MayStop = TRUE
  RedoMayFail = TRUE
  MaxFaults = 2
SPECIFICATION Spec
INVARIANTS CommitIsDecided CommitIsRecoverable
PROPERTIES DecisionIsFinal ImplementsAtomicCommit
SYMMETRY Symmetry
CHECK_DEADLOCK FALSE
