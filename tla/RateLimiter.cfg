SPECIFICATION Spec
CONSTANTS
    p1 = p1
    p2 = p2
    k1 = k1
    k2 = k2
    b1 = b1
    b2 = b2
    b3 = b3
    Procs = {p1, p2}
    Keys = {k1, k2}
    Buckets = {b1, b2, b3}
    NoBucket = NoBucket
    NoProc = NoProc
    NoKey = NoKey
    Cost = 2
    Rate = 1
    Burst = 2
    TTL = 5
    Minute = 1
    MaxBuckets = 1
    Lag = 1
    MaxTime = 8
SYMMETRY RequestSymmetry
INVARIANTS
    TypeOK
    BucketLimit
    OneBucketPerKey
    KeyRate
PROPERTIES
    DeniedOverRate
