SPECIFICATION Spec
CONSTANTS
    Block = {b1, b2, b3, b4, b5}
    Req = {r1, r2}
    Group = 3
    World = 1
    Rank = 0
    DcpInterleave = 1
    Boundary = 0
    PrecisionTail = 0
    Lookahead = 2
    UseEagle = TRUE
    MaxSeqs = 2
    MaxLen = 11
    MaxTokens = 9
    Budget = 3
    Prompts = {1, 4}
INVARIANTS
    TypeOK
    RowsNeverDropped
    LeavesOnlyFull
    CountersAgree
    EpochsSettle
PROPERTIES
    DeadBlocksLeave
SYMMETRY Symmetric
