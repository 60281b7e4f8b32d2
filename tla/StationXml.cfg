SPECIFICATION FairSpec
CONSTANTS
    Combiners = {"A"}
    Downloads = {"B"}
    RouteOrder <- MCRouteOrder
    NetOf <- MCNetOf
    Doc <- MCDoc
    Levels = {"network", "station", "channel"}
    NumProcesses = 2
    NumThreads = 2
    Keep = "NONE"
    Faults = {"exc", "early"}
INVARIANTS NothingTornWhileLive NetworkWhole OneDocument GracefulShutdown
PROPERTIES Implements LeavingEnds
