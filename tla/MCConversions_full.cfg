CONSTANTS
    BASE = 2
    EXT = 2
    NameChars = {97, 66, 46, 49}
    NameLen = 6
    MAX_MOUNTS = 4
    MAX_TASKS = 12
    HEAD = 3
    PathLen = 6
    BITS = 8
    FormatLen = 5
    CommentLen = 6
    LiteralLen = 6
    OperatorLen = 4
    g_width = 11
    g_height = 4
    FB_FONT_W = 2
    FB_FONT_H = 2
    FB_BITS = 6
    ScreenLen = 6
    POOL = 8
    HDR = 2
    FAT_ENTRIES = 4
    FAT32_SECTOR_SZ = 512
    SHELL_FILES = 2
    LS_FILES = 5
    PS_TASKS = 3
    SHELL_DEVICES = 2
    ADDRESSES = 8192
    USER_SPACE_VA = 2048
    USER_SPACE_SIZE = 1024
    MAX_PATH = 64
    MAX_WRITE = 3
    SHELL_LINE_BUFFER_SIZE = 4
    PUTS_BUFFER = 3
    CAT_BUFFER = 3
    MAC_LEN = 2
    ETH_PAYLOAD_MAX = 4
    ETH_MIN_FRAME = 8
    MemoryLen = 5
    KeysLen = 6
    VolumeLen = 4
SPECIFICATION Spec
INVARIANTS NamesConvert TextConverts ReportsAgree CallsArrive FrameSound HeapSound
CHECK_DEADLOCK FALSE
