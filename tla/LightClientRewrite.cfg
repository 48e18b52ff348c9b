SPECIFICATION Spec
CONSTANTS
    Digests = {d1, d2}
    MaxHeight = 3
    MaxEvents = 2
    Garbage = Garbage
    None = None
CHECK_DEADLOCK FALSE
INVARIANT AcceptedHistoryStands
