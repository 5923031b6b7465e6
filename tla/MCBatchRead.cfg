SPECIFICATION FairSpec
CONSTANTS
    AddressSpace = 6
    MaxRead <- MCMaxRead
    MaxPoints = 3
    PointLists <- MCPointLists
INVARIANTS
    TypeOK
    GoodMeansOwnRegisters
    EveryPointReported
    NoPanic
    RequestsAreConfigured
    BadOnlyForCause
PROPERTIES
    Terminates
CHECK_DEADLOCK FALSE
