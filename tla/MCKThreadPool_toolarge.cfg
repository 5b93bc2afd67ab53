SPECIFICATION Spec
CONSTANTS
  a = a
  b = b
  w1 = w1
  w2 = w2
  w3 = w3
  w4 = w4
  k1 = k1
  k2 = k2
  Tag = {a, b}
  Task = {k1}
  Worker = {w1, w2, w3, w4}
  InitConfig <- OneCapped
  InitOrder <- OrderA
  InitSize = 4
  InitGrowth = "PrestartAll"
  InitShrink = "ShrinkNever"
  Resizes <- DownTwice
  Kills = {}
  Reconfigs = {}
  Controls = {}
  Strategies = {}
  MaxCalls = 2
SYMMETRY MCSymmetry
CHECK_DEADLOCK FALSE
INVARIANTS SizeWithinMax
