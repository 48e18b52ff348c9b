SPECIFICATION Spec
CONSTANTS
    Coins = {c1}
    RuneCoins = {}
    Retries = {r1}
    Maturity = 2
    MaxLocked = 0
    MaxFaults = 1
    MaxReorgs = 0
    NoTx = NoTx
CHECK_DEADLOCK FALSE
INVARIANT FailureSurfacesKey
