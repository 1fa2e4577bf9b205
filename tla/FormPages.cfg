CONSTANTS
  Documents <- Forms
  Source <- Another
  NewNames = {"a"}
  Selections <- Chosen
  MaxDepth = 3
  Unwary = 2
  MaxCalls = 3
SPECIFICATION Spec
INVARIANTS CacheAgrees FormsStaySound
PROPERTIES NamesApart CopiesAlike
CHECK_DEADLOCK FALSE
