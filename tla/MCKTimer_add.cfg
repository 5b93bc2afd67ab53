CONSTANTS
  timing = timing
  None = None
  tick = tick
  shot = shot
  Caller = {c1}
  CallbackThread = {h1}
  Timer = {tick, shot}
  Once = {shot}
  OwnThread = {tick}
  CallerUses = {"pause"}
  CallbackUses = {"add"}
  Pauses = 1
SPECIFICATION FairSpec
PROPERTIES CallsReturn
CHECK_DEADLOCK FALSE
