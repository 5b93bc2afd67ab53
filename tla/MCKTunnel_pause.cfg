SPECIFICATION Spec
CONSTANTS
    near = near
    far = far
    None = None
    Side = {near, far}
    Connector = {near}
    MaxChannel = 1
    Input <- FiveUp
    Stopping = {}
    Slow <- FarEnd
    Closing <- NearEnd
    MaxMessageQueueSize = 2
    MaxWire = 1
    Faults = {}
INVARIANT PauseHolds
CHECK_DEADLOCK FALSE
