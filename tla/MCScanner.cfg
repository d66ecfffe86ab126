CONSTANTS
    Endpoints = 2
    MaxHeight = 3
    Depth = 1
    IndexLag = 1
    Timeout = 1
    Modes <- Recoverable
SPECIFICATION FairSpec
CHECK_DEADLOCK FALSE
INVARIANTS
    TypeOK
    NoGap
PROPERTIES
    SkipsNeedEvidence
    CatchesUp
