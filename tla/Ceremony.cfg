SPECIFICATION Spec
CONSTANTS
    Members = {1, 2, 3}
    Bad = {2}
    Msgs = {m1, m2}
    MaxSessions = 3
    MaxFaults = 2
    Garbage = Garbage
    None = None
INVARIANT SignedByAll
INVARIANT NonceUsedOnce
INVARIANT BlameIsRight
PROPERTY PoolSigns
CHECK_DEADLOCK FALSE
