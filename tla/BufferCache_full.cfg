CONSTANTS
    Sector = {s1, s2, s3, s4}
    Value = {v1, v2}
    BCACHE_BUFFERS = 2
    TICKS = 6
    None = None
SPECIFICATION Spec
SYMMETRY Symmetry
INVARIANTS OneBuffer CleanMeansOnCard NewestIsLast
PROPERTIES ImplementsStore
