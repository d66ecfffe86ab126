CONSTANTS
    Addrs = {a1}
    Schedule <- OneStep
    MaxAge = 0
    MaxInactivity = 1
    Forever = Forever
    MaxLag = 1
    Modes <- AllModes
    StoreMayFail = FALSE
SPECIFICATION FairSpec
INVARIANTS
    TypeOK
    LiveIsRegistered
    NoStrandedDeposit
PROPERTIES
    UsesTriggerService
    BackoffSurvivesRestart
    RetiresOnlyExpired
    Delivered
    GhostsLeave
