SPECIFICATION Spec
CONSTANTS
    Ranks = {r1, r2}
    NumBlocks = 2
    Order <- MCOrder
    MaxSteps = 6
    Plans <- PipelinedPlans
INVARIANTS
    ParamsFresh
