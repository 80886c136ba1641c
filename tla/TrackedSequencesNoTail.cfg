SPECIFICATION Spec
CONSTANTS
    Req = {r1}
    Group = 3
    World = 1
    Rank = 0
    DcpInterleave = 1
    Boundary = 0
    \* The default of KVARN_MLA_PRECISION_TAIL_TOKENS.
    PrecisionTail = 0
    Lookahead = 2
    Async = TRUE
    MaxLen = 12
    Budget = 4
INVARIANT LeavesPacked
