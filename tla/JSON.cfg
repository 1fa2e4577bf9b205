CONSTANTS
  Samples <- MCSamples
  MaxDepth = 8
SPECIFICATION Spec
CHECK_DEADLOCK FALSE
INVARIANTS ReadsJSON ImportedIsMeant ErrorsAreFound
