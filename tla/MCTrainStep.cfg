SPECIFICATION Spec
CONSTANTS
    World = 4
    Shapes <- MCShapes
    NLayer = 3
    M = 2
    Parts = 2
    NumSteps = 2
INVARIANTS
    MeshSound
    StagesHoldModel
    TypeOK
    GroupCallsMatch
    WithinOneStep
PROPERTIES
    AllFinish
