SPECIFICATION Spec
CONSTANTS
    Tenants = {c1, c2}
    Names = {n1, n2}
    NoTenant = NoTenant
    NoName = NoName
    Requests = {r1, r2}
    ApprovalRequired = TRUE
    BeforeMail = TRUE
    AfterSteps = TRUE
    DeclinePolicy = "return"
    QuotedIdAccepted = TRUE
    MaxRequests = 3
    MaxRuns = 2
CHECK_DEADLOCK FALSE
SYMMETRY Symmetry
INVARIANTS
    TypeOK
    UnapprovedOnlyOnContestedName
    DeclinedRunDoesNoWork
    IInv
