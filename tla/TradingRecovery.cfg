SPECIFICATION Spec
CONSTANTS
    Coins = {a, b}
    Reqs = {r1, r2}
    Cancels = {}
    Nobody = Nobody
CHECK_DEADLOCK FALSE
INVARIANT CommitNotStranded
