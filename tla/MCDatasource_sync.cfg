SPECIFICATION FairSpec
CONSTANTS
    repo = repo
    rows = rows
    hook = hook
    Sources = {repo, rows, hook}
    Webhooks = {hook}
    Callers = {c1, c2}
    Texts <- AllTexts
    Fetches <- Finds
    NoRef = NoRef
    None = None
    MaxRunes = 8
    MaxJobs = 2
    MaxLost = 1
    MaxChanges = 1
INVARIANTS
    TypeOK
    ChunksAreTheText
    CountNeverExceeds
    SyncingHasASync
    SyncBringsCurrent
PROPERTIES
    SyncConcludes
CHECK_DEADLOCK FALSE
