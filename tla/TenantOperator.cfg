SPECIFICATION FairOperatorSpec
CONSTANTS
    Tenants = {c1, c2}
    Names = {n1, n2}
    NoTenant = NoTenant
    NoName = NoName
    Requests = {r1}
    ApprovalRequired = TRUE
    BeforeMail = FALSE
    AfterSteps = TRUE
    DeclinePolicy = "return"
    QuotedIdAccepted = TRUE
    MaxRequests = 4
    MaxRuns = 2
CHECK_DEADLOCK FALSE
INVARIANTS
    StallIsReported
    OperatorInv
PROPERTIES
    SignalledRunSettles
    ProvisioningSettles
