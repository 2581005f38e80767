SPECIFICATION FailureSpec
CONSTANTS
    a = a
    b = b
    c = c
    Ranks = {0, 1}
    Params <- MCParams
    NumBuckets = 2
    BucketOf <- MCBucketOf
    NumSteps = 3
    Plans <- MCRetryPlans
    UsedSets <- MCUsedSets
    Src = 0
    DefaultGroup = TRUE
    FailingStep = 1
INVARIANTS
    PlainBackwardSyncs
