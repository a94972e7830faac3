SPECIFICATION FairSpec
CONSTANTS
  Samples = {1, 2, 3}
  NumCandRuns = 1
  NumEvalRuns = 1
  ValidationRetries = 0
  EvalRetries = 0
  MaxSandboxes = 1
  Backends = {"modal", "local"}
  ResultData = {"rows"}
  Kinds = {"patch"}
  MaxWorkers = 1
  MaxEvalWorkers = 1
INVARIANTS TypeOK JudgedOnce
PROPERTIES PoolFinishes
CHECK_DEADLOCK FALSE
