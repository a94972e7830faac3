SPECIFICATION Spec
CONSTANTS
  Strategies = {"best_of"}
  NumQueries = 1
  BaseMetric <- MCBaseMetric
  Metrics = {1}
  MaxSteps = 1
  SampleCounts = {1, 2}
  TopK = 1
  MaxSessions = 3
  AllowLowering = FALSE
  AllowCrash = TRUE
  AllowTorn = FALSE
INVARIANT NothingCountedTwice
CHECK_DEADLOCK FALSE
