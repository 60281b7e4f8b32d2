SPECIFICATION Spec
CONSTANTS
    Span = 6
    MaxDepth = 4
    EmptyLists = FALSE
INVARIANTS TypeOK EpochsTile Aligned NothingMissing BodyWellFormed
