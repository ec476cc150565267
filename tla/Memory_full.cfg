CONSTANTS
    POOL_PAGES = 13
    PAGE_MAX_ORDER = 2
    USER_MEM_ORDER = 1
    PGD_ORDER = 1
    objs_per_page <- ObjsPerPage
    Slots = {2, 3}
    Starts = {1, 2}
    MaxAreas = 2
    MaxSpaces = 1
    None = None
SPECIFICATION Spec
INVARIANTS MemoryAccounted NoAssertFails
