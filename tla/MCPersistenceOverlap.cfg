SPECIFICATION Spec
CONSTANTS
    Server = Server
    Kids = {k1, k2}
    Inodes = {1, 2, 3, 4, 5}
    None = None
    MaxWrites = 1
    MaxLen = 2
    Size <- MCSize
    MaxPowerLoss = 0
INVARIANT DumpNeverTorn
