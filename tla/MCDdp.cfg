SPECIFICATION Spec
CONSTANTS
    a = a
    b = b
    c = c
    Ranks = {0, 1}
    Params <- MCParams
    NumBuckets = 2
    BucketOf <- MCBucketOf
    NumSteps = 3
    Plans <- MCPlans
    UsedSets <- MCUsedSets
    Src = 1
    DefaultGroup = FALSE
INVARIANTS
    TypeOK
    CollectivesMatch
    LaunchedIsFinal
    SyncedGradIsMean
    CleanBetweenSteps
PROPERTIES
    InFlightUntouched
    Averaging
    AllFinish
