SPECIFICATION Spec
CONSTANTS
    Ranks = {r1, r2, r3}
    NumBlocks = 2
    Order <- MCOrder
    MaxSteps = 8
    Plans <- MCPlans
INVARIANTS
    TypeOK
    ParamsFresh
    ShardGradIsMean
    FreedBetweenPasses
    OneBlockGathered
