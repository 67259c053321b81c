SPECIFICATION ExplorerSpec
CONSTANTS
    Entities = {1, 2, 3}
    Links <- SomeLinks
    Rank <- Reversed
    Runs = {r1, r2}
    Rounds = 2
    MaxRuns = 1
    MaxChanges = 1
    Depths = {0, 1, 3, 7}
    Limits = {1, 100}
    Role <- Roles
    ValidFrom <- Starts
    NameRank <- Reversed
    Now = 4
    SpineQueries <- Queries
    ViewLimits = {1, 2, 8}
    Quota <- Quotas
    EdgeFactor = 1
    m1 = m1
    m2 = m2
    doc1 = doc1
    doc2 = doc2
    chunk = chunk
    node1 = node1
    node2 = node2
    Memories = {m1, m2}
    Own = {m1}
    CogneeGraphs <- Answers
    Mirrors = {r1}
INVARIANTS
    GraphTypeOK
    WalksAreShortest
    CommunitiesConnected
    SpineTotalsAreTrue
    SampleIsHonest
PROPERTIES
    TableMatchesLabels
    MirrorIsTrue
CHECK_DEADLOCK FALSE
