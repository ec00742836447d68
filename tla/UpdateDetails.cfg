SPECIFICATION Spec
CONSTANTS
    Tenants = {c1}
    Names = {n1, n2}
    NoTenant = NoTenant
    NoName = NoName
    Requests = {r1}
    ApprovalRequired = TRUE
    BeforeMail = TRUE
    AfterSteps = TRUE
    DeclinePolicy = "return"
    QuotedIdAccepted = FALSE
    MaxRequests = 2
    MaxRuns = 2
CHECK_DEADLOCK FALSE
PROPERTIES
    DetailsAreStored
