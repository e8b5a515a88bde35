CONSTANTS
  CopiedTables = {"a", "b"}
  MaxPK = 2
  Log <- MCLog
  Streams <- StarStream
SPECIFICATION VReplicationSpec
INVARIANT CopiedRowsMatch
CHECK_DEADLOCK FALSE
