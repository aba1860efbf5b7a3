SPECIFICATION MCSpec
CONSTANTS
    k_WORD_SIZE = 3
    BufferSize = 7
    Texts <- PlainTexts
    Columns = {0, 1}
    Widths = {0, 2, 4}
    Numbers <- ShortNumbers
    Floats <- ShortFloats
    MaxAppends = 3
INVARIANTS ViewIsWhatFits NothingPastTheBuffer
CHECK_DEADLOCK FALSE
