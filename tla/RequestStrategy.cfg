SPECIFICATION Spec
CONSTANTS
    EndOfTime = 6
    MaxDegree = 3
    Like <- MCLike
    Databases <- MCDatabases
    Requests <- MCRequests
    Configs <- MCConfigs
    Now = 4
    Delays = {0, 1}
    MaxDelta = 8
INVARIANTS RoutedAsStored TasksPartition RefusalIsTrue
PROPERTIES RouteEnds
CHECK_DEADLOCK FALSE
