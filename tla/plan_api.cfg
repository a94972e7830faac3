SPECIFICATION Spec
CONSTANTS
  Inputs <- MCInputs
  MaxWorkers = 2
  SourceScale = 1
  TargetScale = 3
INVARIANTS TypeOK EnginePlansRoundTrip ScaledPlanIsOptimized NodesStayApart
INVARIANTS ScaledPatchesAligned ResultsAligned
