SPECIFICATION Spec
CONSTANTS
  None = None
  Runs = {r1, r2}
  FirstRuns = {r1}
  Prepared = {r1}
  MaxControls = 3
  MaxRecoveryEpoch = 1
  MaxLate = 1
CHECK_DEADLOCK FALSE
INVARIANTS ControlRowsTrue FinishedIsClean ContinuedIsQuiet RecoverySettlesExecutions
PROPERTIES AppliedInOrder SealedIsFinal
