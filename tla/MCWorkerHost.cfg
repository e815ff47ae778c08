SPECIFICATION MCSpec
CONSTANTS
  d1 = d1
  d2 = d2
  n1 = n1
  None = None
  Dispatchers = {d1, d2}
  Owner <- MCOwner
  Handlers <- MCHandlers
  Workers = {w1, w2}
  Preparers = {n1}
  Names = {n1, n2}
  MaxMessages = 1
  Limit = 1
  MaxAttempts = 2
  MaxClaims = 3
  MaxGeneration = 2
  MaxRecoveryEpoch = 1
  MaxLate = 1
  Claims = {w1, w2}
  Entries = {1, 2}
  Continuation = TRUE
  Members = {1, 2}
  Files = {1, 2}
  NoClaim = None
  NoFile = None
  NoEntry = None
  Packers = {w1, w2}
  Replicators = {r1}
  Restorers = {x1}
  MaxChanges = 2
  Active = active
  Releases = {active, p, q}
  Commits = {c1, c2}
  Installers = {i1}
  Switchers = {w1, w2}
  Trees = {t0, t1}
  FirstTree = t0
  MaxRebuilds = 2
SYMMETRY MCSymmetry
INVARIANTS SettledByHolder NoStaleDelivery ReceiptIsHolders ExecutedOnce AcknowledgedStands RetainedIsTrue InstalledIsWhole ActiveStands
PROPERTIES SettledIsFinal
CHECK_DEADLOCK FALSE
