SPECIFICATION Spec
CONSTANTS
    near = near
    far = far
    None = None
    Side = {near, far}
    Connector = {near}
    MaxChannel = 1
    Input <- OneUp
    Stopping = {}
    Slow = {}
    Closing <- NearEnd
    MaxMessageQueueSize = 2
    MaxWire = 1
    Faults = {"unreachable"}
PROPERTIES CloseReachesPeer
CHECK_DEADLOCK FALSE
