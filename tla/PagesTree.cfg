CONSTANTS
  Nodes <- MCNodes
  MaxPage = 3
  Faulty = {2}
  MaxLevel = 2
  Documents <- MCDocuments
SPECIFICATION Spec
INVARIANTS MapAndTreeAgree
PROPERTIES AttributesKept OrderKept
CHECK_DEADLOCK FALSE
