SPECIFICATION FairSpec
CONSTANTS
  a = a
  b = b
  w1 = w1
  w2 = w2
  w3 = w3
  w4 = w4
  k1 = k1
  k2 = k2
  Tag = {a, b}
  Task = {k1}
  Worker = {w1, w2, w3}
  InitConfig <- OneCapped
  InitOrder <- OrderA
  InitSize = 0
  InitGrowth = "PrestartOne"
  InitShrink = "ShrinkImmediately"
  Resizes <- OnlyOneLazy
  Kills = {}
  Reconfigs = {}
  Controls = {}
  Strategies = {}
  MaxCalls = 1
CHECK_DEADLOCK FALSE
PROPERTIES NotStranded
