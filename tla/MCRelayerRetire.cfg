CONSTANTS
    Addrs = {a1}
    Schedule <- OneStep
    MaxAge = 1
    MaxInactivity = 1
    Forever = Forever
    MaxLag = 1
    Modes <- RetiringOnly
    StoreMayFail = FALSE
SPECIFICATION Spec
PROPERTIES
    FundedActiveNotRetired
