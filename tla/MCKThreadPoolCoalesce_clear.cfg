CONSTANTS
  refresh = refresh
  recompute = recompute
  other = other
  Tag = {background}
  Task <- MCTask
  Worker = {w1, w2}
  Key = {refresh}
  Plain = {}
  Submissions = 4
  InitConfig <- NoBound
  Clears = 1
SPECIFICATION Spec
INVARIANTS NoOverlap
CHECK_DEADLOCK FALSE
