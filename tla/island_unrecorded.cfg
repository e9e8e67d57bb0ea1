CONSTANTS
  steady = steady
  bold = bold
  weak = weak
  near = near
  far = far
  Genomes <- SomeGenomes
  Cells <- SomeCells
  Violation <- SomeViolation
  Objectives <- SomeObjectives
  CellOf <- SomeCellOf
  Patience = 1
  Infinite = 10000
  PopulationSize = 4
  Generations = 6
  RandomPercent = 25
SPECIFICATION Spec
INVARIANT EveryEvaluationIsRecorded
CHECK_DEADLOCK FALSE
