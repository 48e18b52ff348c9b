SPECIFICATION Spec
CONSTANTS
    o1 = o1
    o2 = o2
    p1 = p1
    p2 = p2
    none = none
    Outpoints = {o1, o2}
    Terms = {p1, p2}
    Artifacts <- TwoOffers
    Authentic <- Signed
    NoTerms = none
    Spends <- SpendsOfTwo
    Number <- NumberOf
    Price <- PriceOf
    MaxHeight = 3
    MaxLag = 2
    MaxNew = 1
    MaxSpends = 1
INVARIANT BookIsProjection
INVARIANT OpenIsLive
INVARIANT ScanAgrees
PROPERTY StreamExtends
CHECK_DEADLOCK FALSE
