SPECIFICATION Spec
CONSTANTS
    Collectives = {"all_reduce", "broadcast"}
    Profiles <- MCProfiles
    MaxEvents = 4
    End = 3
INVARIANTS
    TypeOK
    BusyTimesExact
    OverlapExact
    FitsInWall
