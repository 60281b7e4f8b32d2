SPECIFICATION FairSpec
CONSTANTS
    NumRoutes = 2
    NumThreads = 2
    Kind = "raw"
    Keep = "NONE"
    Sizes = {0, 1}
    EpochsPerRoute = 1
    Faults = {"exc", "early", "stream"}
INVARIANTS TypeOK NothingTornWhileLive LiveResultHasFile AnswerIsTrue
PROPERTIES EventuallyAnswered RequestEnds
