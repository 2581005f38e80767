SPECIFICATION Spec
CONSTANTS
    Ranks = {r1}
    NumBlocks = 2
    Order <- MCOrder
    MaxSteps = 4
    Plans <- FlushPlans
INVARIANTS
    ShardGradIsMean
