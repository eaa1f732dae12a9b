\* A careless application may close the device while it streams, and start on
\* a closed device; the null pointer that follows ends the program.
SPECIFICATION FairSpec
CONSTANTS
  Buffers = {b1, b2, b3}
  None = None
  BufferCounts = {1, 2, 3}
  MaxOpen = 2
CHECK_DEADLOCK FALSE
INVARIANTS
  TypeOK LentBuffer NothingLeaks CleanWhileLinkIsUp SafeWhenDisciplined
PROPERTIES LossIsReported InfiniteGrabReturns LoanKept
