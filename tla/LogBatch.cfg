SPECIFICATION Spec
CONSTANTS
    k_BATCH_SIZE = 10
    k_FLUSH_THRESHOLD = 5
    k_MAX_LINE_SIZE = 2
    RecordSizes = {2, 7}
    LossSizes = {2}
    MaxLines = 4
INVARIANTS TypeOK EachCharacterIsOnce ResumesAtALine LinesAreWhole
PROPERTY MadeIsSettled
