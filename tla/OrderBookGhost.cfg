SPECIFICATION Spec
CONSTANTS
    o1 = o1
    o2 = o2
    p1 = p1
    p2 = p2
    none = none
    Outpoints = {o1}
    Terms = {p1, p2}
    Artifacts <- TwoTerms
    Authentic <- TwoTerms
    NoTerms = none
    Spends <- SpendsOfOne
    Number <- NumberOf
    Price <- PriceOf
    MaxHeight = 3
    MaxLag = 2
    MaxNew = 1
    MaxSpends = 1
INVARIANT OpenOffersExist
CHECK_DEADLOCK FALSE
