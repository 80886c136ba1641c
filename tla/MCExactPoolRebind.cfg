SPECIFICATION Spec
CONSTANTS
    Block = {b1, b2, b3}
    Slot = {s1, s2}
    Layer = {target, draft}
    DraftLayer = {draft}
    Group = 1
    NoSlot = NoSlot
    FlushAll = TRUE
    AllowRebind = TRUE
PROPERTIES
    LostOnlyUnbound
SYMMETRY Symmetric
\* The pool-exhausted RuntimeError ends the worker.
CHECK_DEADLOCK FALSE
