SPECIFICATION Spec
CONSTANTS
    near = near
    far = far
    None = None
    Side = {near, far}
    Connector = {near, far}
    MaxChannel = 1
    Input <- OneEach
    Stopping = {}
    Slow = {}
    Closing <- NearEnd
    MaxMessageQueueSize = 2
    MaxWire = 1
    Faults = {}
INVARIANT Transparent
CHECK_DEADLOCK FALSE
