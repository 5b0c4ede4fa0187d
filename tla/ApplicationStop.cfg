CONSTANTS
    Segments = {"w", "a", "b", "l", "gone", "*", "**"}
    Canonical <- MCCanonical
    NoValue = NoValue
    Rejected = Rejected
    Profiles <- MCProfiles
    InitialProfile = "initial"
    Missing = "missing"
    Environment = {"TOKEN"}
    NoQualifier = NoQualifier
    Strict = FALSE
    Sessions = {"s1"}
    Requests = {}
    SessionOf <- MCNoRequests
    Queries <- MCQueries
    MaxEdits = 1
    MaxEditsWithRequests = 1
    MaxSignals = 1
    None = None
    Patterns <- MCPatterns
    Paths <- MCPaths
    Asked <- MCAsked
SPECIFICATION FairSpec

PROPERTY ShutdownCompletes
CHECK_DEADLOCK FALSE
