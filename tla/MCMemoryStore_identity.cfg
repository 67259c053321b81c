SPECIFICATION Spec
CONSTANTS
    n1 = n1
    r1 = r1
    fact = fact
    retraction = retraction
    NoRef = NoRef
    Norm <- MCNorm
    Similarity <- MCSimilarity
    Namespaces = {n1}
    Refs = {r1}
    Contents = {fact}
    Negating = {}
    Backdates = {}
    Files <- NoFiles
    Workers = {1, 2}
    Handlers = {"record"}
    MaxMemories = 3
    MaxFaults = 0
INVARIANTS
    OneLiveRowPerRecord
CHECK_DEADLOCK FALSE
