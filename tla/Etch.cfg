SPECIFICATION Spec
CONSTANTS
    Coins = {c1, c2}
    RuneCoins = {c1}
    Retries = {r1}
    Maturity = 2
    MaxLocked = 4
    MaxFaults = 1
    MaxReorgs = 1
    NoTx = NoTx
CHECK_DEADLOCK FALSE
INVARIANT EtchMints
INVARIANT PremineIsClean
INVARIANT ReportedRevealIsReal
PROPERTY EtchCompletes
