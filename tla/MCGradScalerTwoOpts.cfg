SPECIFICATION Spec
CONSTANTS
    Ranks = {r1, r2}
    Opts = {opt1, opt2}
    InitLevel = 2
    MinLevel = 0
    GrowthInterval = 2
    SafeLevel = 1
    Ceiling = 3
    MaxBadBatches = 2
    MaxRestarts = 0
PROPERTIES
    AppliesRealGradients
