SPECIFICATION Spec
CONSTANTS
  o1 = o1
  o2 = o2
  None = None
  Ids = {o1, o2}
  Callers = {c1, c2}
  Workers = {w1}
  Principals = {p1, p2}
  Requests <- MCMutations
  MaxRecoveryEpoch = 1
  MaxExecutionEpoch = 1
  LosePoints <- MCLosePoints
  CodexProfiles = {FALSE}
SYMMETRY MCSymmetry
INVARIANTS AtMostOneDispatch AbandonedHasNoEffect HonestReceipt
PROPERTIES ResolvedRowsFinal
