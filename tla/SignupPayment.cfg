SPECIFICATION Spec
CONSTANTS
    Subs = {s1, s2, s3}
    NoSub = NoSub
    Names = {n1, n2}
    NoName = NoName
    Requests = {r1, r2}
    MaxRequests = 3
    MaxKeys = 3
    MaxAttempts = 2
    MaxLate = 0
CHECK_DEADLOCK FALSE
SYMMETRY Symmetry
INVARIANTS
    TypeOK
    PaidBeforeProvisioning
    PaidAndQuietIsProvisioned
    QuietInv
PROPERTIES
    KeepsPromise
