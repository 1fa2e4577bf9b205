CONSTANTS
  Text = Text
  Stm = Stm
  MaxId = 4
  UserCells = {u1, u2}
  Data <- MCData
  Streams <- MCStreams
  InFile <- MCInFile
  FileVal <- MCFileVal
  StreamOf <- MCStreamOf
  Callers = {}
SPECIFICATION Spec
INVARIANTS HandlesFollow ReadIsRead
PROPERTIES ImplementsTable
CHECK_DEADLOCK FALSE
