SPECIFICATION FairSpec
CONSTANTS
  Strategies = {"pst_evol"}
  NumQueries = 1
  BaseMetric <- MCBaseMetric
  Metrics = {1}
  MaxSteps = 2
  SampleCounts = {1}
  TopK = 1
  MaxSessions = 4
  AllowLowering = TRUE
  AllowCrash = TRUE
  AllowTorn = FALSE
PROPERTY CallReturns
CHECK_DEADLOCK FALSE
