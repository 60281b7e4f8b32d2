\* Two processes that take increments of the count from each other.
SPECIFICATION FairSpec
CONSTANTS
    Procs = {p1, p2}
    Keys = {k1, k2}
    NoKey = NoKey
    Threshold = 1
    MaxDeletes = 1
    MaxFaults = 2
    MaxCount = 3
INVARIANTS
    TypeOK
    CountCovers
PROPERTIES
    PrunedInTheEnd
