CONSTANTS
    Dbs = {0}
    Keys <- ThreeKeys
    KeySize <- MCKeySize
    kSampleWindow = 1
    Missing = Missing
    Second = 2
    LLMin <- MCLLMin
    LLMax = 7
    NotInt = NotInt
    MaxBulk = 2
    None = None
    Clients = {c1}
    Cmds <- DataCmds
    Probes <- HandlerCmds
    Snapshots <- HandlerSnapshots
    maxmemory = 0
    Times = {0, 1, 2}
    MaxQueue = 0
    MaxData = 2
    MaxDrift = 17
    MaxExpired = 1
SPECIFICATION Spec
INVARIANT StaleInvisible
INVARIANT ErrorLeavesNoTrace
INVARIANT DeadlineKept
INVARIANT UndefinedConfined
INVARIANT KeysListed
INVARIANT SetAlgebraExact
