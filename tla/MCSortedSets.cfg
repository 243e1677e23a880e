CONSTANTS
    kMaxLevel = 3
    Word = 8
    Header = Header
    Null = Null
    Members = {1, 2, 3, 4}
    Scores <- MCScores
    MaxScore = 1
    NotFloat = NotFloat
    NoKey = NoKey
    Cmds <- MCCmds
    Ranges <- MCRanges
    Levels = {1, 2, 3}
SPECIFICATION Spec
INVARIANT LinksOrdered
INVARIANT SpansExact
INVARIANT IndexesAgree
INVARIANT CommandsPromise
INVARIANT RanksAgree
INVARIANT RangesAgree
