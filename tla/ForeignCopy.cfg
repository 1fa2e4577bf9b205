CONSTANTS
  Nobody = Nobody
  Objs <- MCObjs
  Graphs <- MCGraphs
SPECIFICATION Spec
INVARIANTS CopiesRight Complete
PROPERTIES CopiesStay CallsEnd
CHECK_DEADLOCK FALSE
