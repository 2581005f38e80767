SPECIFICATION Spec
CONSTANTS
    P = 4
    M = 4
    NumSteps = 2
    ShapeOf <- SameShape
INVARIANTS
    TypeOK
    InFlightInOrder
    BackwardPairs
    ActivationBound
    TransportLockstep
PROPERTIES
    AllStepsEnd
