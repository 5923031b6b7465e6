SPECIFICATION FairSpec
CONSTANTS
    one = one
    two = two
    NumDevices = 2
    Names = {one, two}
    Namings <- OwnOrSameName
    Intervals <- FirstMayHaveNone
    Files <- SomeFiles
    Handlers = {handler}
    Stopper = Stopper
    None = None
CHECK_DEADLOCK FALSE
INVARIANTS
    TypeOK
    PollersEndBeforeClosing
    SendsWhileProducerOpen
    NoneLeftConnected
PROPERTIES
    StopTerminates
    PollsAgain
