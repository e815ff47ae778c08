SPECIFICATION Spec
CONSTANTS
  None = None
  Runs = {r1}
  FirstRuns = {r1}
  Prepared = {r1}
  MaxControls = 1
  MaxRecoveryEpoch = 1
  MaxLate = 0
CHECK_DEADLOCK FALSE
INVARIANTS ExpiredExecutionsAbandonable
