SPECIFICATION FairSpec
CONSTANTS
    NumRoutes = 2
    NumThreads = 2
    Kind = "wfcatalog"
    Keep = "NONE"
    Sizes = {1}
    EpochsPerRoute = 1
    Faults = {"exc"}
INVARIANTS EachEpochOnce WellFormedOut ReadyFilesRemoved OnlyCrashesLeaveFiles
