SPECIFICATION Spec
CONSTANTS
  Systems = {s1, s2}
  Interfaces = {i1, i2}
  Devices = {d1, d2}
  DeviceIds = {a}
  None = None
  MaxOpen = 1
  MaxMishaps = 1
  Mishaps = {"throw", "gone", "late", "lost"}
SYMMETRY ObjectSymmetry
INVARIANTS
  OpensAccounted HandleFollowsCounter Released
PROPERTY ListingReuses
