SPECIFICATION Spec
CONSTANTS
  Callers = {c1, c2}
  Owner = c1
  MaxRestarts = 2
  MaxRetries = 1
INVARIANTS LifecycleTypeOK NoOrphan RestartBudget

PROPERTIES CancelledRestartNeverRuns TerminatedProcessDies
