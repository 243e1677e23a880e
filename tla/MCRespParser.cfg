CONSTANTS
    kMaxInlineBytes = 6
    kMaxBulkBytes = 21
    kMaxMultiBulkElements = 2
    kMaxHeader = 4
    ReadSize = 4
    Streams <- MCStreams
SPECIFICATION Spec
INVARIANT RequestsExact
INVARIANT FlawsCaught
INVARIANT NoFalseAlarm
PROPERTY ParsedRuns
CHECK_DEADLOCK FALSE
