CONSTANTS
    EndpointCount = 3
    Tasks = {t1, t2}
    MaxFlips = 2
SPECIFICATION FairSpec
INVARIANTS
    TypeOK
    FailsOnlyUnserved
PROPERTIES
    SettlesOnHealthy
