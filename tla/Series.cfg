\* A download and an SAA task, a fair clock.  Two entries are fewer than the two
\* may append at once, and enough for an SAA task to use up its bound of five
\* (six with a lost reply).
SPECIFICATION FairSpec
CONSTANTS
    Clients = {d1, a1}
    Aligners = {a1}
    Window = 2
    Ttl = 1
    Budget = 0
    MaxSplits = 1
    MaxLost = 1
INVARIANTS
    TypeOK
    WindowBound
    OverrunBounded
PROPERTIES
    Bounded
    Recovers
