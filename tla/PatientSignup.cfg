SPECIFICATION PatientSpec
CONSTANTS
    Subs = {s1, s2, s3}
    NoSub = NoSub
    Names = {n1, n2}
    NoName = NoName
    Requests = {r1}
    MaxRequests = 5
    MaxKeys = 3
    MaxAttempts = 2
    MaxLate = 2
CHECK_DEADLOCK FALSE
INVARIANTS
    BilledOnce
    FailedSubscriptionEnded
    PatientInv
