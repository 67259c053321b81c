SPECIFICATION Spec
CONSTANTS
    Memories = {m1, m2, m3}
    Providers = {"openai", "anthropic"}
    MaxIters = 3
    MaxCalls = 2
    MaxFound = 2
INVARIANTS
    TypeOK
    CitationsStable
    AnswerComesLast
    FootprintComplete
PROPERTIES
    ChatEnds
CHECK_DEADLOCK FALSE
