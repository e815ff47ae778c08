SPECIFICATION MCSpec
CONSTANTS
  None = None
  Ids = {o1, o2}
  Writers = {a1, a2}
  Sealers = {s1, s2}
  MaxIncarnation = 2
  Callers = {a1, a2}
  MaxPulls = 2
  MaxHuman = 3
SYMMETRY MCSymmetry
INVARIANTS EvidenceIsTruthful DecisionsRespected AnswersTrue
PROPERTIES KeepsPublicationPromise
