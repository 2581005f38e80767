SPECIFICATION Spec
CONSTANTS
    P = 3
    M = 4
    NumSteps = 2
    ShapeOf <- ShortLastBatch
INVARIANTS
    TransportLockstep
