SPECIFICATION Spec
CONSTANTS
    n1 = n1
    r1 = r1
    fact = fact
    retraction = retraction
    NoRef = NoRef
    Norm <- MCNorm
    Similarity <- MCSimilarity
    Namespaces = {n1}
    Refs = {r1}
    Contents = {fact, retraction}
    Negating = {retraction}
    Backdates = {0}
    Files <- MCFiles
    Workers = {w1, w2}
    Handlers = {"note", "record", "forget", "edit", "dedup", "import", "delete"}
    MaxMemories = 3
    MaxFaults = 1
SYMMETRY Symmetry
INVARIANTS
    TypeOK
    SupersessionSound
    RecordStaysRecallable
    ArchiveKeepsTheLastWord
PROPERTIES
    RetirementIsFinal
CHECK_DEADLOCK FALSE
