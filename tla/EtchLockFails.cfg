SPECIFICATION Spec
CONSTANTS
    Coins = {c1}
    RuneCoins = {c1}
    Retries = {r1}
    Maturity = 2
    MaxLocked = 0
    MaxFaults = 1
    MaxReorgs = 0
    NoTx = NoTx
CHECK_DEADLOCK FALSE
INVARIANT ReportedRunesAreLocked
