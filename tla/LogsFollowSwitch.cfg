CONSTANTS
    MaxFiles = 2
    MaxSize <- ShortFiles
    MaxTrims = 0
    TrimTo = 1
    ReadBuf = 2
SPECIFICATION Spec
INVARIANTS
    SwitchSkipsNothing
CHECK_DEADLOCK FALSE
