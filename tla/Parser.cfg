CONSTANTS
  Samples <- MCSamples
  Unknown = Unknown
  MaxLong = 9999
  MaxInt = 999
  MaxNesting = 3
  MaxErrors = 8
  MaxSize = 6
  MaxDamaged = 4
  Checked = 10
SPECIFICATION Spec
INVARIANTS TokensAreText ParsedIsWritten RecoveryKeeps
PROPERTIES Advances
