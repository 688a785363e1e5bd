SPECIFICATION Spec
CONSTANTS
    Base = 4
    Words <- MCWords
    Longs <- MCLongs
    Texts <- MCTexts
    Handles <- MCHandles
    MaxBytes = 4
    BufferSize = 32
    MaxFields = 3
INVARIANTS TypeOK MarkIsTruthful WholeWords ReadsBack
CHECK_DEADLOCK FALSE
