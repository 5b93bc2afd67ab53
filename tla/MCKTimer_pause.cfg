CONSTANTS
  timing = timing
  None = None
  tick = tick
  shot = shot
  Caller = {c1}
  CallbackThread = {h1}
  Timer = {tick, shot}
  Once = {shot}
  OwnThread = {tick}
  CallerUses = {"pause"}
  CallbackUses = {}
  Pauses = 2
SPECIFICATION Spec
PROPERTIES PauseMeansPaused
CHECK_DEADLOCK FALSE
