\* A disparity image with padding.
SPECIFICATION Spec
CONSTANTS
  Images <- PaddedImage
  Numbers = 2
  MaxCalls = 2
  Columns = 3
  Lines = 3
  Disparities <- TheDisparities
  DepthSteps = {1, 2}
CHECK_DEADLOCK FALSE
INVARIANT EveryLineStored
