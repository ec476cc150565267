CONSTANTS
    MAX_FDS = 7
    USER_ARGV_MAX = 6
    USER_ARGV_STRS_SZ = 11
    PointerSize = 4
    MaxHeaders = 2
    SHELL_MAX_ARGS = 5
    WordLengths = {2}
    MaxTokens = 6
SPECIFICATION FairSpec
INVARIANTS DescriptorsKept ArgvDelivered
PROPERTY PromptReturns
