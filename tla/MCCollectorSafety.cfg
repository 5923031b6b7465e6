SPECIFICATION Spec
CONSTANTS
    Pollers = {poller}
    Handlers = {handler}
    Closers = {closer}
    NoCaller = NoCaller
    Sockets = {s1, s2, s3}
    NoSocket = NoSocket
    MaxRetries = 2
    MaxRequests = 2
    RetryCap = 2
SYMMETRY Symmetry
INVARIANTS
    TypeOK
    ConnectedStateConsistent
    RequestsHaveTransport
    FailsOnlyForCause
PROPERTIES
    OpensOnlyWhenDisconnected
    ImplementsCalls
