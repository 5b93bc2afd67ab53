SPECIFICATION Spec
CONSTANTS
    near = near
    far = far
    None = None
    Side = {near, far}
    Connector = {near}
    MaxChannel = 1
    Input <- OneEach
    Stopping = {far}
    Slow = {}
    Closing = {}
    MaxMessageQueueSize = 2
    MaxWire = 1
    Faults = {"stall"}
PROPERTIES StopEndsRun
CHECK_DEADLOCK FALSE
