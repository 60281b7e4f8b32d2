SPECIFICATION Spec
CONSTANTS
    Span = 4
    MaxDepth = 2
    EmptyLists = FALSE
INVARIANTS OneList
