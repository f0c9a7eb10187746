SPECIFICATION PartSpec
CONSTANTS
    longest = longest
    retried = retried
    nameless = nameless
    oversized = oversized
    Nobody = Nobody
    Connections = {longest, retried, nameless, oversized}
    HelloLen <- TheLengths
    Named = {longest, retried, oversized}
    Version <- TheVersions
    Limit = 3
    FrameLists <- TheFrameLists
    MaxConnectionId = 20
    ByteValues = 4
    Headers <- TheHeaders
    Noise <- TheNoise
    MaxNumber = 4
    MaxSkip = 1
    NumberLimit = 5
    SeqSpace = 14
    MaxBytes = 4
    StreamLen = 6
    MaxResets = 1
CHECK_DEADLOCK FALSE
INVARIANTS
    InitialsAreRead
    PrefixIsExact
    HoldsPeerBytes
    ReadWhenWhole
    HoldsContiguousBytes
    WithinBudget
    HoldsWhatJoinsOn
PROPERTIES
    OnlyGrows
