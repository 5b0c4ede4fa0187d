CONSTANTS
    Segments = {"w", "a", "b", "l", "gone", "*", "**"}
    Canonical <- MCCanonical
    NoValue = NoValue
    Rejected = Rejected
    Profiles <- MCProfiles
    InitialProfile = "initial"
    Missing = "missing"
    Environment = {"TOKEN"}
    NoQualifier = NoQualifier
    Strict = FALSE
    Sessions = {"s1"}
    Requests = {"r1", "r2"}
    SessionOf <- MCSessionOf
    Queries <- MCQueries
    MaxEdits = 2
    MaxEditsWithRequests = 1
    MaxSignals = 1
    None = None
    Patterns <- MCPatterns
    Paths <- MCPaths
    Asked <- MCAsked
SPECIFICATION FairSpec
INVARIANTS RootsPermit SelectionFailsClosed SessionInputsFixed PreparedReleased SharedReviewed
PROPERTIES AdoptsOnlyWhileServing LastProfileAdopted ReloadHonoured ShutdownCompletesUnlessLaunching
CHECK_DEADLOCK FALSE
