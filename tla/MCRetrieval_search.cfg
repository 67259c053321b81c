SPECIFICATION Spec
CONSTANTS
    b1 = b1
    b2 = b2
    post = post
    noise = noise
    e1 = e1
    t1 = t1
    None = None
    AllBrains = AllBrains
    Ids = {1, 2, 3, 4}
    Brains = {b1, b2}
    Kinds = {post, noise}
    Entities = {e1}
    Texts = {t1}
    Tables <- AllTables
    Links <- AllLinks
    Arrivals <- NewRows
    Queries <- Searches
    PoolSize = 3
    EfSearch = 4
    Callers = {c1}
    Start = 2
    MaxClock = 4
INVARIANTS
    SearchFallsBack
CHECK_DEADLOCK FALSE
