SPECIFICATION Spec
CONSTANTS
  Samples = {s1, s2}
  NumCandRuns = 2
  NumEvalRuns = 2
  ValidationRetries = 0
  EvalRetries = 1
  MaxSandboxes = 2
  Backends = {"modal", "local"}
  ResultData = {rows, other}
  Kinds = {"failed", "empty", "broken", "patch"}
  MaxWorkers = 1
  MaxEvalWorkers = 1
SYMMETRY MCSymmetry
INVARIANTS PermitsBalanced VerdictExact
CHECK_DEADLOCK FALSE
