SPECIFICATION Spec
CONSTANTS
    MaxEdits = 1
    MaxLive = 1
    MaxCrash = 1
    MaxOps = 2
    MaxIter = 2
    Grant = 1
    RequireReview = FALSE
    ShipMode = "pr"
    HasAlert = FALSE
    Benchmark = FALSE
INVARIANT PushedWasReviewed
CHECK_DEADLOCK FALSE
