CONSTANTS
  LiteralBits = 4
  Radix = 7
  Group = 2
  MaxWidth = 6
  Block = 3
  Vector <- MCVector
  Row = 2
  Pixel = 1
  Streams <- MCStreams
  Unknown = Unknown
SPECIFICATION Spec
INVARIANTS StaysInBuffers DecodedIsOriginal PiecesDoNotMatter DamageIsContained
