SPECIFICATION Spec
CONSTANTS
    Block = {b1, b2, b3}
    Req = {r1, r2}
    Content = {c1, c2}
    BlockSize = 2
    MaxLen = 6
    Lookahead = 1
SYMMETRY Symmetric
INVARIANTS
    TypeOK
    NeverFails
    FreeListSound
    IndexSound
    ContextIntact
    ChainsComplete
    UnregisteredFirst
    SharedTextsAgree
PROPERTIES
    ImplementsPrefixCache
