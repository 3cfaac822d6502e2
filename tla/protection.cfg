SPECIFICATION Spec
CONSTANTS
    k1 = k1
    k2 = k2
    i1 = i1
    i2 = i2
    r1 = r1
    r2 = r2
    r3 = r3
    Key <- Keys
    Ip <- Ips
    Request <- Requests
    GlobalConcurrency = 3
    KeyConcurrency = 2
    PairConcurrency = 1
    KeyRate = 1
    KeyBurst = 2
    PairRate = 1
    PairBurst = 1
    MaxBuckets = 3
    MaxPairBuckets = 1
    StaleAfter = 3
    MaxLag = 1
    MaxTime = 4
    NoBucket = NoBucket
SYMMETRY Interchangeable
INVARIANTS
    CountersAreExact
    BucketsAreCounted
    NeverOverBudget
CHECK_DEADLOCK FALSE
