SPECIFICATION Spec
CONSTANTS
  None = None
  LeftSize = 2
  DispSize = 2
  MaxAsync = 4
  Tolerances = {0, 2}
  MaxTime = 3
CHECK_DEADLOCK FALSE
INVARIANTS StoredIsSynchronous NothingMissed WindowSuffices ResultIsRight
