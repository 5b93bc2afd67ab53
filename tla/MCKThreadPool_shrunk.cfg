SPECIFICATION Spec
CONSTANTS
  a = a
  b = b
  w1 = w1
  w2 = w2
  w3 = w3
  w4 = w4
  k1 = k1
  k2 = k2
  Tag = {a, b}
  Task = {k1, k2}
  Worker = {w1, w2}
  InitConfig <- OneCapped
  InitOrder <- OrderA
  InitSize = 2
  InitGrowth = "PrestartAll"
  InitShrink = "ShrinkImmediately"
  Resizes <- DownToOne
  Kills = {FALSE}
  Reconfigs = {}
  Controls = {}
  Strategies = {}
  MaxCalls = 2
SYMMETRY MCSymmetry
CHECK_DEADLOCK FALSE
PROPERTIES AllTasksRunByStop
