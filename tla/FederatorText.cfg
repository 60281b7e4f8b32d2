SPECIFICATION FairSpec
CONSTANTS
    NumRoutes = 3
    NumThreads = 2
    Kind = "text"
    Keep = "NONE"
    Sizes = {1}
    EpochsPerRoute = 2
    Faults = {"exc"}
INVARIANTS WellFormedOut CachedOnlyWhole
PROPERTIES Implements
