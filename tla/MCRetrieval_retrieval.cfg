SPECIFICATION Spec
CONSTANTS
    b1 = b1
    b2 = b2
    post = post
    noise = noise
    e1 = e1
    t1 = t1
    None = None
    AllBrains = AllBrains
    Ids = {1, 2, 3, 4}
    Brains = {b1, b2}
    Kinds = {post, noise}
    Entities = {e1}
    Texts = {t1}
    Tables <- AllTables
    Links <- AllLinks
    Arrivals <- NewRows
    Queries <- AllQueries
    PoolSize = 3
    EfSearch = 4
    Callers = {c1, c2}
    Start = 2
    MaxClock = 4
SYMMETRY Symmetry
INVARIANTS
    TypeOK
    AnswersFit
    TrueWhenAsked
    FindsWhatIsThere
PROPERTIES
    DismissedStays
CHECK_DEADLOCK FALSE
