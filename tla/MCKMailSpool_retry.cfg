SPECIFICATION CountedSpec
CONSTANTS
    Mail = {m1, m2}
    MaxRetryInterval = 2
    MaxAge = 2
    DiskFaults = {}
    MaxStops = 0
INVARIANT RetriesSpaced
CHECK_DEADLOCK FALSE
