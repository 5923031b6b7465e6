SPECIFICATION Spec
CONSTANTS
    Pollers = {poller}
    Handlers = {handler}
    Closers = {}
    NoCaller = NoCaller
    Sockets = {s1, s2, s3}
    NoSocket = NoSocket
    MaxRetries = 2
    MaxRequests = 2
    RetryCap = 2
PROPERTIES
    MarksTheConnectionItTested
