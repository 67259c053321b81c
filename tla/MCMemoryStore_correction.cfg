SPECIFICATION Spec
CONSTANTS
    n1 = n1
    r1 = r1
    fact = fact
    retraction = retraction
    NoRef = NoRef
    Norm <- MCNorm
    Similarity <- MCSimilarity
    Namespaces = {n1}
    Refs = {r1}
    Contents = {fact, retraction}
    Negating = {retraction}
    Backdates = {}
    Files <- NoFiles
    Workers = {1}
    Handlers = {"note"}
    MaxMemories = 3
    MaxFaults = 1
INVARIANTS
    CorrectionRecorded
CHECK_DEADLOCK FALSE
