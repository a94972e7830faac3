SPECIFICATION Spec
CONSTANTS
  Texts = {q1, q2, q3}
  Levels <- MCLevels
  Configs <- MCConfigs
  MaxSteps = 3
  OversampleCap = 2
  MaxCalls = 3
  AllowTorn = TRUE
  AllowKilledRestart = FALSE
INVARIANTS TypeOK ReturnedAsAsked NoTextTwice FinalOfConfig GeneratedCounted RequestCovers
PROPERTIES AcceptedIsKept OutcomesWrittenOnce
CHECK_DEADLOCK FALSE
