SPECIFICATION Spec
CONSTANTS
    one = one
    two = two
    NumDevices = 2
    Names = {one, two}
    Namings <- OwnOrSameName
    Intervals <- FirstMayHaveNone
    Files <- FirstRefused
    Handlers = {handler}
    Stopper = Stopper
    None = None
CHECK_DEADLOCK FALSE
INVARIANTS
    PolledListsAreValid
