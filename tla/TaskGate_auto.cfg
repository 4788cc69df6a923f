SPECIFICATION FairSpec
CONSTANTS
    MaxEdits = 1
    MaxLive = 1
    MaxCrash = 1
    MaxOps = 1
    MaxIter = 2
    Grant = 1
    RequireReview = FALSE
    ShipMode = "push"
    HasAlert = TRUE
    Benchmark = FALSE
PROPERTY RunsRest
PROPERTY LandedRests
CHECK_DEADLOCK FALSE
