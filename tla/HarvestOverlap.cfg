SPECIFICATION Spec
CONSTANTS
    Nodes <- MCNodes
    Open = 99
    Streams = {"a", "b", "c"}
    Stricts = {FALSE, TRUE}
    Truncations = {0, 1}
    MaxRuns = 2
INVARIANTS NoOverlaps
CHECK_DEADLOCK FALSE
