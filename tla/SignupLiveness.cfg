SPECIFICATION FairSpec
CONSTANTS
    Subs = {s1, s2}
    NoSub = NoSub
    Names = {n1, n2}
    NoName = NoName
    Requests = {r1, r2}
    MaxRequests = 2
    MaxKeys = 3
    MaxAttempts = 2
    MaxLate = 1
CHECK_DEADLOCK FALSE
INVARIANTS
    QuietInv
PROPERTIES
    PaymentSettles
    KeepsPromise
