SPECIFICATION Spec
CONSTANTS
    t1 = t1
    t2 = t2
    c1 = c1
    c2 = c2
    Takers <- MCTakers
    Coins <- MCCoins
    OwnerOf <- MCOwnerOf
    AmountA = 2
    AmountB = 1
    Price = 3
    Fee = 1
    OfferSats = 2
    MaxPsbts = 2
    MaxOther = 1
    Bits = 2
    Width = 5
    U64Max = 6
    U32Max = 3
    Letters = 3
    Unlocked = 3
    Interval = 4
    FirstHeight = 5
    Reserved = 5
    Dust = 2
    NoValue = NoValue
INVARIANT MakerGetsAgreed
INVARIANT TakerGetsRune
