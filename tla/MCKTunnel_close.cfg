SPECIFICATION Spec
CONSTANTS
    near = near
    far = far
    None = None
    Side = {near, far}
    Connector = {near}
    MaxChannel = 1
    Input <- OneUp
    Stopping = {}
    Slow <- FarEnd
    Closing <- BothEnds
    MaxMessageQueueSize = 2
    MaxWire = 1
    Faults = {"idle", "limit", "broken"}
PROPERTIES ImplementsPipes CloseReachesPeer
CHECK_DEADLOCK FALSE
