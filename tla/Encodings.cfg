SPECIFICATION Spec
CONSTANTS
    Bits = 2
    Width = 5
    U64Max = 6
    U32Max = 3
    Letters = 3
    Unlocked = 3
    Interval = 4
    FirstHeight = 5
    Reserved = 5
    Dust = 2
    NoValue = NoValue
    Magic = 100
    Magic2 = 106
    OpReturn = 101
    OpIf = 102
    OpEndif = 103
    OpChecksig = 104
    Annex = 105
    MaxChunk = 4
    SAA = 11
    SwapFee = 1
    ByteBits = 3
    GroupBits = 2
    Digits = 5
    KeyDigits = 3
    Missing = Missing
INVARIANT RoundTrips
INVARIANT NamesUnlockForGood
INVARIANT VerifyIsSound
INVARIANT SwapsDeliver
INVARIANT OrdersSurvive
INVARIANT RootsBindTheBook
