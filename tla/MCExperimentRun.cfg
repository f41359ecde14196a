SPECIFICATION FairSpec
CONSTANTS
  Experiments <- MCExperiments
  Requires <- MCRequires
  Invokers = {p1, p2}
  MaxRecords = 2
  EnvReferences = FALSE
  Gpu = {"E04"}
  MaxChanges = 1
  MaxFaults = 1
INVARIANTS CompletionIsTrue ExecutionIsOnRecord
PROPERTIES PreparedRunsComplete
CHECK_DEADLOCK FALSE
