CONSTANTS
    Fds = {1}
    Requests = {"cmd", "quit"}
    ReadSize = 2
    SockBuf = 1
    MaxEvents = 4
    MaxConns = 1
    MaxRequests = 2
SPECIFICATION FairSpec
PROPERTY QuitCloses
CHECK_DEADLOCK FALSE
