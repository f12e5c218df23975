SPECIFICATION Spec
CONSTANTS
    Parts = {"paged", "level"}
    MD_PAGE_SIZE = 2
    MEM_PTAB_SIZE = 1
    NTags = 3
    WordSize = 2
    Byte = {0, 1}
    MaxRead = 3
    MaxRun = 2
    MaxAccesses = 9
    MemLat = 2
    Geometries <- MCGeometries
INVARIANTS PageTableExact CacheExact
PROPERTIES FlatView ReplacedAfterReady
CHECK_DEADLOCK FALSE
