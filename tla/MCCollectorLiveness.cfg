SPECIFICATION FairSpec
CONSTANTS
    Pollers = {poller}
    Handlers = {handler}
    Closers = {}
    NoCaller = NoCaller
    Sockets = {s1, s2}
    NoSocket = NoSocket
    MaxRetries = 2
    MaxRequests = 2
    RetryCap = 1
PROPERTIES
    CallsReturn
    Recovers
