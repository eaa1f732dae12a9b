SPECIFICATION FairSpec
CONSTANTS
  Waiters = {w1, w2}
  Events = {1, 2}
  MaxReg = 2
  MaxQueue = 1
INVARIANTS NodemapNeedsDevice OwnRegistration
PROPERTIES EndsForItsOwnReason AbortReturns
