SPECIFICATION FairSpec
CONSTANTS
    Coins = {a, b}
    Reqs = {r1, r2}
    Cancels = {k1}
    Nobody = Nobody
INVARIANT OffersNotSpentAsFunding
INVARIANT FundingNotStolen
INVARIANT RevealIsRecoverable
PROPERTY RequestsReturn
PROPERTY LedgerSpec
CHECK_DEADLOCK FALSE
