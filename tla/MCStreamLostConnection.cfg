SPECIFICATION Spec
CONSTANTS
  Buffers = {b1, b2}
  None = None
  BufferCounts = {1, 2}
  MaxOpen = 2
CHECK_DEADLOCK FALSE
SYMMETRY BufferSymmetry
INVARIANT NoCrashAfterClose
