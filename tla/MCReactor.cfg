CONSTANTS
    Fds = {1, 2}
    Requests = {"cmd", "quit", "nosave", "bad"}
    ReadSize = 2
    SockBuf = 1
    MaxEvents = 2
    MaxConns = 2
    MaxRequests = 2
SPECIFICATION Spec
INVARIANT TypeOK
INVARIANT NoStrandedReply
INVARIANT NothingLost
INVARIANT StopsServing
CHECK_DEADLOCK FALSE
