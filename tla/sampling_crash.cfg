SPECIFICATION Spec
CONSTANTS
  Strategies = {"pst_evol", "bol_evol"}
  NumQueries = 1
  BaseMetric <- MCBaseMetric
  Metrics <- MCMetrics
  MaxSteps = 3
  SampleCounts = {1}
  TopK = 2
  MaxSessions = 4
  AllowLowering = FALSE
  AllowCrash = TRUE
  AllowTorn = TRUE
INVARIANTS IdsArePositions CompletedStepsContiguous ParentsPrecede LineageFaithful
INVARIANTS NothingCountedTwice WalksEnd
PROPERTIES ResumeNeverRegresses StepFilesWrittenOnce
CHECK_DEADLOCK FALSE
