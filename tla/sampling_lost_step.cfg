SPECIFICATION Spec
CONSTANTS
  Strategies = {"pst_evol"}
  NumQueries = 1
  BaseMetric <- MCBaseMetric
  Metrics = {1}
  MaxSteps = 2
  SampleCounts = {1}
  TopK = 1
  MaxSessions = 3
  AllowLowering = FALSE
  AllowCrash = TRUE
  AllowTorn = FALSE
INVARIANT CompletedStepsKept
CHECK_DEADLOCK FALSE
