CONSTANTS
    MaxFiles = 2
    MaxSize <- LongThenShort
    MaxTrims = 1
    TrimTo = 1
    ReadBuf = 2
SPECIFICATION FairSpec
INVARIANTS
    OnceInOrder
PROPERTIES
    LinesAppear
CHECK_DEADLOCK FALSE
