SPECIFICATION Spec
CONSTANTS
    Base = 4
    Words <- MCWords
    Longs <- MCLongs
    Texts <- MCPaths
    Handles <- MCHandles
    MaxBytes = 4
    BufferSize = 32
    MaxFields = 3
INVARIANTS NullIsCopied
CHECK_DEADLOCK FALSE
