SPECIFICATION Spec
CONSTANTS
  Strategies = {"best_of"}
  NumQueries = 2
  BaseMetric <- MCBaseMetric
  Metrics = {1}
  MaxSteps = 1
  SampleCounts = {1, 2}
  TopK = 2
  MaxSessions = 4
  AllowLowering = FALSE
  AllowCrash = FALSE
  AllowTorn = FALSE
INVARIANTS TypeOK TopUpReachesTarget QueriesInStep
CHECK_DEADLOCK FALSE
