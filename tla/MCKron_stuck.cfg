SPECIFICATION Spec
CONSTANTS
    Job = {j1, j2}
    Once = {j2}
    Limited = {j1}
    Verbose = {j1}
    Lingering = {j1, j2}
    iFactor = 2
    MaxDescriptors = 3
INVARIANT RunningMeansExecuted
CHECK_DEADLOCK FALSE
