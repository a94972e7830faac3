SPECIFICATION Spec
CONSTANTS
  Strategies = {"pst_evol", "bol_evol"}
  NumQueries = 1
  BaseMetric <- MCBaseMetric
  Metrics <- MCMetrics
  MaxSteps = 2
  SampleCounts = {2}
  TopK = 2
  MaxSessions = 3
  AllowLowering = FALSE
  AllowCrash = FALSE
  AllowTorn = FALSE
INVARIANTS LeafIsChildless LastIsLatestStep CompletedStepsKept
INVARIANTS ReturnedPlanWasMeasured
PROPERTIES IsExperimentLog
CHECK_DEADLOCK FALSE
