SPECIFICATION LoopFairSpec
CONSTANTS
  Buffers = {b1, b2}
  None = None
  BufferCounts = {1, 2}
  MaxOpen = 1
  Rounds = 2
  Retries = 2
  MaxReceived = 4
INVARIANTS LeavesInOrder StoresLentBuffer ExitTellsReceived
PROPERTY ToolEnds
