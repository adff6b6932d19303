\* Two deletions beside two starts, which orphaned helpers may overlap.
CONSTANTS
  Starts = {s1, s2}
  User = user
  Last = 3
  Marker = 3
  MaxDeletes = 2
  Orphans = TRUE
SPECIFICATION DataSpec
SYMMETRY Symmetry
INVARIANTS
  NeverHalfDeleted
  MarkerGoesLast
  AnswerIsTrue
CHECK_DEADLOCK FALSE
