SPECIFICATION Spec
CONSTANTS
  o1 = o1
  o2 = o2
  None = None
  Ids = {o1}
  Callers = {c1}
  Workers = {w1}
  Principals = {p1, p2}
  Requests <- MCRisks
  MaxRecoveryEpoch = 2
  MaxExecutionEpoch = 2
  LosePoints <- MCLosePoints
  CodexProfiles = {TRUE, FALSE}
SYMMETRY MCSymmetry
INVARIANTS ConfirmedHasEffect ConfirmationsQualified RecoveryClosesEarlierEpochs IndependentCompletion ContinuedRunIsSettled
PROPERTIES NoLateEffect
