SPECIFICATION FairSpec
CONSTANTS
    a = a  b = b  d = d  r1 = r1  r2 = r2  s1 = s1  s2 = s2
    home = home  work = work  None = None  Reloader = Reloader
    Keys = {a}
    Shareable <- AlwaysShareable
    WithInputs = {}
    Requests = {r1, r2}
    Sessions = {s1}
    SessionOf <- PairInSession
    Inputs = {home}
    Binding <- NoBinding
    Addresses = {1}
    Workers = {1, 2, 3, 4, 5}
    Configs <- ChangeA
    InitialConfig <- A1
    MaxReloads = 1
    FailureThreshold = 2
    CrashThreshold = 1
    Strict = TRUE
    Hanging = {}
PROPERTIES RequestsComplete ReloadCompletes CloseCompletes
CHECK_DEADLOCK FALSE
