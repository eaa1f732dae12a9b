SPECIFICATION Spec
CONSTANTS
  Block = 3
  IntMax = 9
  MaxSize = 11
  MaxReport = 5
INVARIANT LoadedInPieces
