CONSTANTS
  refresh = refresh
  recompute = recompute
  other = other
  Tag = {background}
  Task <- MCTask
  Worker = {w1, w2}
  Key = {refresh, recompute}
  Plain = {other}
  Submissions = 4
  InitConfig <- QueueOfOne
  Clears = 1
SPECIFICATION FairSpec
INVARIANTS OneRunPerKey LatestWins
PROPERTIES EverySubmissionSettles
CHECK_DEADLOCK FALSE
