SPECIFICATION Spec
CONSTANTS
  SizeModulus <- MCSizeModulus
  Configs <- MCMaskConfigs
  RangeImages <- MCOneImage
  Reductions = {1, 2, 4}
  FirmwareOffset = 1
  MaxScans = 1
INVARIANTS
  RangeCoversPoints
CHECK_DEADLOCK FALSE
