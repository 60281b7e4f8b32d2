SPECIFICATION Spec
CONSTANTS
    NumRoutes = 2
    NumThreads = 2
    Kind = "wfcatalog"
    Keep = "NONE"
    Sizes = {1}
    EpochsPerRoute = 2
    Faults = {}
INVARIANTS EachEpochOnce
