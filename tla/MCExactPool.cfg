SPECIFICATION Spec
CONSTANTS
    Block = {b1, b2, b3}
    Slot = {s1, s2}
    Layer = {target, draft}
    DraftLayer = {draft}
    Group = 2
    NoSlot = NoSlot
    FlushAll = FALSE
    AllowRebind = FALSE
INVARIANTS
    TypeOK
    SlotExclusive
    MirrorAgrees
    ReadsOwnRows
    ExhaustedOnlyBySize
PROPERTIES
    DraftPrepareIsNoop
SYMMETRY Symmetric
\* The pool-exhausted RuntimeError ends the worker.
CHECK_DEADLOCK FALSE
