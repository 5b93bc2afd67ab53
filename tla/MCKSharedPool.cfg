CONSTANTS
  t1 = t1
  t2 = t2
  t3 = t3
  t4 = t4
  Thread = {t1, t2, t3}
  MaxSize = 2
  Modes = {TRUE, FALSE}
  Sizes = {1, 2, 3}
  Uses = {"disable", "put", "fail"}
  MaxGets = 2
  MaxCalls = 2
SPECIFICATION FairSpec
INVARIANTS UsedExact LimitExact NoLostWakeup
PROPERTIES GetReturns
CHECK_DEADLOCK FALSE
