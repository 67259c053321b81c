SPECIFICATION Spec
CONSTANTS
    Namespaces = {n1}
    Readers = {1, 2}
    Writers = {1, 2}
    Handlers = {"retain", "forget", "dedup"}
    MaxVersion = 2
INVARIANTS
    TypeOK
    WritesOrphanCachedReads
PROPERTIES
    CacheIsTransparent
CHECK_DEADLOCK FALSE
