SPECIFICATION Spec
CONSTANTS
    Ranks = {r1, r2}
    Opts = {opt}
    InitLevel = 2
    MinLevel = 0
    GrowthInterval = 2
    SafeLevel = 1
    Ceiling = 3
    MaxBadBatches = 2
    MaxRestarts = 2
INVARIANTS
    TypeOK
    StepsUnanimous
    ScaleAgrees
PROPERTIES
    AppliesRealGradients
    AppliesFiniteGradients
    TrainingAdvances
