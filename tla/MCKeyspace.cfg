CONSTANTS
    Dbs = {0, 1}
    small = small
    big = big
    Keys = {a, b}
    Values = {small, big}
    Missing = Missing
    KeySize <- MCKeySize
    ValueSize <- MCValueSize
    Deadlines = {0, 1}
    Times <- MCTimes
    kSampleWindow = 1
    MaxExpired = 2
    MaxUsed = 150
    MaxDrift = 10
SPECIFICATION Spec
INVARIANT TypeOK
INVARIANT UsedExact
PROPERTY ExpiryCounted
PROPERTY Implements
