CONSTANTS
  NaN = NaN
  None = None
  Absent = Absent
  Unresolved = Unresolved
  MaxBars = 5
  Candles <- SomeCandles
  Expressions <- SomeExpressions
  MinDwell = 3
  MaxLabels = 7
  Contexts = {c1, c2}
  Operators = {jitter}
  Evaluations <- SomeEvaluations
  LessonIds = {1, 2, 3}
  Confidences = {40, 80}
  MaxLessons = 1
  MaxFailureLabels = 6
  MaxEvents = 3
  Specs <- SomeSpecs
  Statements <- SomeStatements
  Orders <- SomeOrders
  LotSize = 2
  Lengths = {1, 9, 12, 15, 18, 21}
  Configs <- SmallConfigs
  MaxOuter = 3
  MaxInner = 3
  MaxBlock = 2
  MaxGap = 3
  MaxTrain = 3
  Patience = 2
  Infinite = 10000
  Inputs <- SomeSignals
  MaxGenerations = 12
SPECIFICATION MCSpec
INVARIANTS
  FeatureTypeOK
  StreamsMatchBatch
  SwitchesAreEarned
  MemoryIsRebuilt
  SizingIsSafe
  TypeOK
  GeneratorIsSound
  OuterTrainingIsExact
  RangesAreDisjoint
  InnerTrainingNests
  LadderTypeOK
  LadderMeasuresDrought
  HopelessIslandStops
CHECK_DEADLOCK FALSE
