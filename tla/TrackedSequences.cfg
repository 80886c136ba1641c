SPECIFICATION Spec
CONSTANTS
    Req = {r1}
    Group = 2
    World = 2
    Rank = 0
    DcpInterleave = 1
    Boundary = 2
    PrecisionTail = 5
    Lookahead = 3
    Async = TRUE
    MaxLen = 41
    Budget = 4
INVARIANTS
    PrecisionKept
    SnapshotFits
    RowsNeverDropped
    LeavesPacked
