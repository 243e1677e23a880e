SPECIFICATION FairSpec
CONSTANTS
    Server = Server
    Kids = {k1}
    Inodes = {1, 2, 3, 4}
    None = None
    MaxWrites = 2
    MaxLen = 2
    Size <- MCSize
    MaxPowerLoss = 1
INVARIANT TypeOK
INVARIANT AloneDumpWhole
INVARIANT GracefulExitKeepsData
PROPERTY DumpNeverOlder
PROPERTY ChildrenReaped
