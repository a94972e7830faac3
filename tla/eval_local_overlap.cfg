SPECIFICATION Spec
CONSTANTS
  Samples = {s1, s2}
  NumCandRuns = 2
  NumEvalRuns = 1
  ValidationRetries = 0
  EvalRetries = 0
  MaxSandboxes = 1
  Backends = {"local"}
  ResultData = {rows, other}
  Kinds = {"patch"}
  MaxWorkers = 1
  MaxEvalWorkers = 1
INVARIANTS LocalRunsAlone
CHECK_DEADLOCK FALSE
