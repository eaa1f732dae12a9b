\* The last line of a Bayer section.
SPECIFICATION Spec
CONSTANTS
  Images <- BayerImage
  Numbers = 2
  MaxCalls = 2
  Columns = 3
  Lines = 3
  Disparities <- TheDisparities
  DepthSteps = {1, 2}
CHECK_DEADLOCK FALSE
INVARIANT EveryLineStored
