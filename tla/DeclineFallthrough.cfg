SPECIFICATION Spec
CONSTANTS
    Tenants = {c1}
    Names = {n1}
    NoTenant = NoTenant
    NoName = NoName
    Requests = {r1}
    ApprovalRequired = TRUE
    BeforeMail = TRUE
    AfterSteps = TRUE
    DeclinePolicy = "fallthrough"
    QuotedIdAccepted = TRUE
    MaxRequests = 2
    MaxRuns = 1
CHECK_DEADLOCK FALSE
INVARIANTS
    DeclinedRunDoesNoWork
