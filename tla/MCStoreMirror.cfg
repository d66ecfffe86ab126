CONSTANTS
    Addrs = {a1}
    MaxValue = 2
    MaxCrashes = 1
    NoAddr = NoAddr
SPECIFICATION FairSpec
INVARIANTS
    TypeOK
    NoGhostRows
    LostOnlyByRetirement
PROPERTIES
    LeftoversPruned
