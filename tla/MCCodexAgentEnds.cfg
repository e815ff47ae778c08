SPECIFICATION FairSpec
CONSTANTS
  None = None
  Runs = {r1, r2}
  FirstRuns = {r1}
  Prepared = {r1, r2}
  MaxControls = 2
  MaxRecoveryEpoch = 0
  MaxLate = 0
CHECK_DEADLOCK FALSE
PROPERTIES AgentEnds
