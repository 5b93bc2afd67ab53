SPECIFICATION DRRSpec
CONSTANTS
  requests = requests
  monitoring = monitoring
  io = io
  Tag <- MCTag
  Task <- MCTask
  InitConfig <- MCConfig
  LaterConfigs <- MCConfigs
  MaxQueued = 2
  MaxWorkers = 3
  Switches = {"pause", "clear"}
INVARIANTS DeficitWithinQuantum BypassBounded WeightedShare
