SPECIFICATION Spec
CONSTANTS
    Coins = {a, b}
    Reqs = {r1}
    Cancels = {k1}
    Nobody = Nobody
CHECK_DEADLOCK FALSE
INVARIANT CancelRefusedOnlyIfConfirmed
