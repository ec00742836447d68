SPECIFICATION Spec
CONSTANTS
    Subs = {s1, s2}
    NoSub = NoSub
    Names = {n1}
    NoName = NoName
    Requests = {r1}
    MaxRequests = 2
    MaxKeys = 2
    MaxAttempts = 2
    MaxLate = 1
CHECK_DEADLOCK FALSE
INVARIANTS
    FailedSubscriptionEnded
