CONSTANTS
  MaxId = 4
  Files <- MCFiles
  Recovery = TRUE
SPECIFICATION Spec
INVARIANTS RecordersMatch ResolvedAlike
PROPERTIES CallsReturn
CHECK_DEADLOCK FALSE
