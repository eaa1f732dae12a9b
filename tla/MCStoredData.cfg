\* Numbers is 99 in the code.
SPECIFICATION Spec
CONSTANTS
  Images <- TheImages
  Numbers = 2
  MaxCalls = 2
  Columns = 3
  Lines = 3
  Disparities <- TheDisparities
  DepthSteps = {1, 2}
CHECK_DEADLOCK FALSE
INVARIANTS SectionStored MeshIsSound
