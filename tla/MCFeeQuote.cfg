CONSTANTS
    r1 = r1
    r2 = r2
    r3 = r3
    k1 = k1
    h1 = h1
    m0 = m0
    Requests = {r1, r2, r3}
    Keys = {k1}
    Hooks = {h1}
    NoHook = NoHook
    KeyOf <- AllToOneKey
    Bound <- OneDefault
    ConfigHook = NoHook
    Prices = {5, 15}
    MaxMishaps = 2
    Ttl = 2
    Backoff = 1
    BufferNum = 11
    BufferDen = 10
SPECIFICATION FairSpec
INVARIANTS
    TypeOK
    OffersEnough
PROPERTIES
    ForwardsGoThrough
