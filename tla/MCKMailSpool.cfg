SPECIFICATION Spec
CONSTANTS
    Mail = {m1, m2}
    MaxRetryInterval = 2
    MaxAge = 1
    DiskFaults = {"write", "read"}
    MaxStops = 1
INVARIANTS FilesTrackedOnce DuplicateOnlyIfUnsure
PROPERTIES ImplementsMailQueue EveryMailSettles
CHECK_DEADLOCK FALSE
