CONSTANTS
    Fds = {1}
    Requests = {"cmd"}
    ReadSize = 2
    SockBuf = 1
    MaxEvents = 4
    MaxConns = 1
    MaxRequests = 2
SPECIFICATION Spec
INVARIANT HandlersOwnConnections
CHECK_DEADLOCK FALSE
