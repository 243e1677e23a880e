CONSTANTS
    Fds = {1}
    Requests = {"cmd", "quit", "save"}
    ReadSize = 2
    SockBuf = 1
    MaxEvents = 4
    MaxConns = 2
    MaxRequests = 2
SPECIFICATION FairSpec
PROPERTY Served
PROPERTY ShutdownCompletes
CHECK_DEADLOCK FALSE
