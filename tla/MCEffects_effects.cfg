SPECIFICATION EffectsSpec
CONSTANTS
    Handlers = {h1, h2}
    Goroutines = {h1, h2}
    Subscribers = {s1, s2}
    Buffer = 1
    Free = free
    MaxTokens = 3
INVARIANTS
    EffectsTypeOK
    OneOrder
    RetriesWithAnotherToken
PROPERTIES
    PublishEnds
CHECK_DEADLOCK FALSE
