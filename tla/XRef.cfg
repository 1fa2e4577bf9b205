CONSTANTS
  Files <- MCFiles
  MaxId = 3
  MaxGen = 1
  IgnoreStreams = FALSE
SPECIFICATION Spec
INVARIANTS TableIsNewest RecoveryFinds
PROPERTIES Settles
CHECK_DEADLOCK FALSE
