SPECIFICATION Spec
CONSTANTS
    Digests = {d1, d2}
    MaxHeight = 3
    MaxEvents = 2
    Garbage = Garbage
    None = None
INVARIANT CheckpointIsCommitment
PROPERTY AdvanceExtends
PROPERTY HonestIsAccepted
CHECK_DEADLOCK FALSE
