SPECIFICATION Spec
CONSTANTS
  w1 = w1
  r1 = r1
  r2 = r2
  None = None
  Works = {w1}
  Tasks <- MCTwoTasks
  Runs = {r1, r2, r3}
  CodexRuns = {}
  Deliveries = {d1}
  Reports = {}
  Reviews = {}
  Closures = {}
  Contents = {1}
  Requirements = {}
  People = {p1}
  Creations <- MCDraft
  Handlers = {h1, h2}
  MaxRunVersion = 4
SYMMETRY MCHandlers
INVARIANT CheckpointsNotStale
CHECK_DEADLOCK FALSE
