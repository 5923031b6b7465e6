SPECIFICATION FairSpec
CONSTANTS
    one = one
    two = two
    a = a
    b = b
    c = c
    NumDevices = 3
    Names = {one, two}
    DeviceName <- SharedName
    PointNames = {a, b, c}
    List <- SharedPoint
    Handlers = {h1, h2}
    None = None
CHECK_DEADLOCK FALSE
INVARIANTS
    TypeOK
    EntriesFitTogether
    AsksThePointsDevice
    AcceptedPointsServed
PROPERTIES
    InitTerminates
    RequestsAnswered
