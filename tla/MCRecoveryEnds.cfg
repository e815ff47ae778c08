SPECIFICATION FairSpec
CONSTANTS
  o1 = o1
  o2 = o2
  None = None
  Ids = {o1}
  Callers = {c1}
  Workers = {w1}
  Principals = {p1, p2}
  Requests <- MCRisks
  MaxRecoveryEpoch = 1
  MaxExecutionEpoch = 1
  LosePoints <- MCLosePoints
  CodexProfiles = {FALSE}
PROPERTIES RecoveryEndsOrDeadEnds
