SPECIFICATION Spec
CONSTANTS
    Block = {b1, b2, b3, b4}
    Req = {r1, r2}
    Group = 2
    World = 1
    Rank = 0
    DcpInterleave = 1
    Boundary = 0
    PrecisionTail = 0
    Lookahead = 2
    UseEagle = FALSE
    MaxSeqs = 2
    MaxLen = 8
    MaxTokens = 9
    Budget = 3
    Prompts = {2,4}
INVARIANTS
    HitsWereFull
SYMMETRY Symmetric
