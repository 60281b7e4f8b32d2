SPECIFICATION Spec
CONSTANTS
    Nodes <- MCNodes
    Open = 99
    Streams = {"a", "b", "c"}
    Stricts = {FALSE, TRUE}
    Truncations = {0, 1}
    MaxRuns = 2
INVARIANTS OverlapsShareStart RoutedAsHarvested ToldIsStored NodesAreAtomic
CHECK_DEADLOCK FALSE
