SPECIFICATION Spec
CONSTANTS
  a = a
  b = b
  w1 = w1
  w2 = w2
  w3 = w3
  w4 = w4
  k1 = k1
  k2 = k2
  Tag = {a, b}
  Task = {k1, k2}
  Worker = {w1, w2, w3}
  InitConfig <- BothBounded
  InitOrder <- OrderA
  InitSize = 2
  InitGrowth = "PrestartOne"
  InitShrink = "ShrinkImmediately"
  Resizes <- UpAndDown
  Kills = {TRUE, FALSE}
  Reconfigs <- UnboundB
  Controls = {"pause", "clear"}
  Strategies <- MCStrategies
  MaxCalls = 2
SYMMETRY MCSymmetry
CHECK_DEADLOCK FALSE
INVARIANTS CountersExact CapRespected EveryThreadAccountedFor NoLostWakeup
PROPERTIES StopLeavesNoThread DrainedByStop ImplementsTaskPool
