SPECIFICATION Spec
CONSTANTS
    Subs = {s1, s2, s3}
    NoSub = NoSub
    Names = {n1}
    NoName = NoName
    Requests = {r1, r2}
    MaxRequests = 3
    MaxKeys = 2
    MaxAttempts = 2
    MaxLate = 1
CHECK_DEADLOCK FALSE
PROPERTIES
    NewReplacesFailed
