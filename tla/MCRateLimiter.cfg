SPECIFICATION Spec
CONSTANTS
    Key = {k1}
    Request = {q1, q2}
    Bucket = {b1, b2, b3}
    None = None
    Configs <- SomeConfigs
    Minute = 3
    Stall = 1
    MaxTime = 10
    MaxRequests = 5
SYMMETRY Symmetry
INVARIANTS
    BucketInv
    RateBound
PROPERTIES
    ImplementsTokenBucket
CHECK_DEADLOCK FALSE
