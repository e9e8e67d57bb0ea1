CONSTANTS
  Lengths = {12}
  Configs <- SmallConfigs
  MaxOuter = 3
  MaxInner = 2
  MaxBlock = 1
  MaxGap = 1
  MaxTrain = 1
SPECIFICATION Spec
INVARIANT ValidationInsideOuterTrain
CHECK_DEADLOCK FALSE
