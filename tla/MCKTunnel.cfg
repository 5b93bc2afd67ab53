SPECIFICATION Spec
CONSTANTS
    near = near
    far = far
    None = None
    Side = {near, far}
    Connector = {near}
    MaxChannel = 1
    Input <- ThreeUp
    Stopping = {far}
    Slow = {}
    Closing = {}
    MaxMessageQueueSize = 2
    MaxWire = 1
    Faults = {"unreachable", "stall", "timeout"}
PROPERTIES EveryChunkArrives StopEndsRun
CHECK_DEADLOCK FALSE
