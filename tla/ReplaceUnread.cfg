CONSTANTS
  Text = Text
  Stm = Stm
  MaxId = 4
  UserCells = {u1, u2}
  Data <- MCData
  Streams <- MCStreams
  InFile <- MCInFile
  FileVal <- MCFileVal
  StreamOf <- MCStreamOf
  Callers = {"replace_unread"}
SPECIFICATION Spec
PROPERTIES ReplaceSticks
CHECK_DEADLOCK FALSE
