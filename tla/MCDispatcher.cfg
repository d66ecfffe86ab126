CONSTANTS
    Addrs = {a1, a2}
    Tasks = {t1, t2, t3, t4, t5, t6}
    QueueCapacity = 1
    Concurrency = 2
    MaxOutstanding = 4
    NoAddr = NoAddr
SPECIFICATION FairSpec
INVARIANTS
    TypeOK
    AtMostOneForward
    PermitsConserved
    InFlightOwned
    NoWaitCycle
PROPERTIES
    ImplementsTriggerService
    TriggersServed
