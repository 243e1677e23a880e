CONSTANTS
    Dbs = {0, 1}
    Keys <- OneKey
    KeySize <- MCKeySize
    kSampleWindow = 1
    Missing = Missing
    Second = 2
    LLMin <- MCLLMin
    LLMax = 7
    NotInt = NotInt
    MaxBulk = 2
    None = None
    Clients = {c1, c2}
    Cmds <- TxCmds
    Probes <- TxCmds
    Snapshots <- Nothing
    maxmemory = 30
    Times = {0}
    MaxQueue = 2
    MaxData = 1
    MaxDrift = 9
    MaxExpired = 0
SPECIFICATION Spec
INVARIANT TypeOK
INVARIANT QueueValid
INVARIANT FramedReplies
INVARIANT GateBounds
PROPERTY TransactionExact
SYMMETRY ClientSymmetry
