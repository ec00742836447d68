SPECIFICATION Spec
CONSTANTS
    Products <- AllProducts
    Options <- AllOptions
    Standing <- AllStanding
    Plan <- AllPlans
    Handler <- AllHandlers
    KnownStale <- Stale
    KnownTwice <- TwiceBuilt
    KnownHalf <- HalfBuilt
    KnownObstacles <- Obstacles
    KnownLeft <- Leftovers
    KnownTaken <- Taken
    KnownSilent <- Silent
    MaxRuns = 3
    MaxTroubles = 1
CHECK_DEADLOCK FALSE
INVARIANTS
    TypeOK
    CredentialsAgree
    KeysAreKept
    BuiltOnce
    NeverStopped
    ProvisionedIsComplete
    TeardownIsComplete
    HalfTornIsNotShown
PROPERTIES
    OthersAreKept
