CONSTANTS
  None = None
  Objs <- MCObjs
  Docs <- MCDocs
  PerStream = 3
  Hints = {100, 300}
SPECIFICATION LSpec
INVARIANTS NumbersUnique Complete InPlace HintTablesRight
PROPERTIES ImplementsCopy Ends
CHECK_DEADLOCK FALSE
