CONSTANTS
    BASE = 1
    EXT = 1
    max_entries = 5
    bytes_per_cluster = 2
    DIR_ENTRIES = 2
    FAT32_MAX_FILES = 2
    Fd = {3, 4}
    Name <- ShortNames
    Writes <- ShortWrites
    Reads = {3}
    OpenFlags <- PlainFlags
    InitialDir <- OneFileDir
    InitialFat <- OneFileFat
    InitialData <- ZeroData
    Faults <- NoFaults
    Shared = {}
    END = END
    DELETED = DELETED
    None = None
SPECIFICATION Spec
INVARIANTS ClustersAccounted DirectorySound ReadsFile
PROPERTY ImplementsFiles
