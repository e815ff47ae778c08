SPECIFICATION MCSpec
CONSTANTS
  w1 = w1
  r1 = r1
  r2 = r2
  None = None
  Works = {w1}
  Tasks <- MCOneTask
  Runs = {r1}
  CodexRuns = {}
  Deliveries = {d1, d2}
  Reports = {v1, v2}
  Reviews = {n1, n2}
  Closures = {c1, c2}
  Contents = {b1, b2}
  Requirements = {q1, q2}
  People = {p1, p2, p3}
  Creations <- MCDraft
  Handlers = {h1, h2}
  MaxRunVersion = 2
SYMMETRY MCIds
INVARIANTS PassIsEarned ClosureStandsOnChain
CHECK_DEADLOCK FALSE
