CONSTANTS
  timing = timing
  None = None
  tick = tick
  shot = shot
  Caller = {c1}
  CallbackThread = {h1, h2}
  Timer = {tick, shot}
  Once = {shot}
  OwnThread = {tick}
  CallerUses = {"restart", "pause", "destroy"}
  CallbackUses = {"cancel"}
  Pauses = 1
SPECIFICATION FairSpec
INVARIANTS CancelIsFinal DtorLeavesNoThread
PROPERTIES OnceAtMostOnce DueTimerRuns CallsReturn
CHECK_DEADLOCK FALSE
