SPECIFICATION FairSpec
CONSTANTS
    Block = {b1, b2, b3}
    Req = {r1, r2}
    Group = 2
    World = 1
    Rank = 0
    DcpInterleave = 1
    Boundary = 0
    PrecisionTail = 0
    Lookahead = 1
    UseEagle = TRUE
    MaxSeqs = 2
    MaxLen = 5
    MaxTokens = 5
    Budget = 3
    Prompts = {1,2}
PROPERTIES
    RequestsFinish
