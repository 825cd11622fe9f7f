SPECIFICATION Spec
CONSTANTS
  SizeModulus <- MCSizeModulus
  Configs <- MCConfigs
  RangeImages <- MCRangeImages
  Reductions = {1, 2, 4}
  FirmwareOffset = 1
  MaxScans = 2
INVARIANTS
  TypeOK
  CloudShowsScan
  DenseIsTrue
  InBounds
  ImagesShowScan
  ViewsAgree
  WarnedIffConstant
CHECK_DEADLOCK FALSE
