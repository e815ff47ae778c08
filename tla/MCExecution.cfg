SPECIFICATION MCSpec
CONSTANTS
  w1 = w1
  r1 = r1
  r2 = r2
  None = None
  Works = {w1}
  Tasks <- MCTwoTasks
  Runs = {r1, r2, r3}
  CodexRuns = {r1, r2}
  Deliveries = {d1}
  Reports = {}
  Reviews = {}
  Closures = {}
  Contents = {1}
  Requirements = {}
  People = {p1}
  Creations <- MCClaims
  Handlers = {h1, h2}
  MaxRunVersion = 4
  MaxEdits = 1
  MaxIDs = 5
  MaxPending = 2
  MaxEvents = 1
  MaxSent = 2
SYMMETRY MCHandlers
INVARIANTS LiveRunIsActive RecordsReadable ReadbackTruthful OneReply NoGhostTurn
PROPERTIES EpochsFence WorkMovesForward
CHECK_DEADLOCK FALSE
