SPECIFICATION Spec
CONSTANTS
    a = a  b = b  d = d  r1 = r1  r2 = r2  s1 = s1  s2 = s2
    home = home  work = work  None = None  Reloader = Reloader
    Keys = {a, b}
    Shareable <- AlwaysShareable
    WithInputs = {}
    Requests = {r1, r2}
    Sessions = {s1}
    SessionOf <- PairInSession
    Inputs = {home}
    Binding <- NoBinding
    Addresses = {1}
    Workers = {1, 2, 3}
    Configs <- ChangeOrRemoveA
    InitialConfig <- A1B1
    MaxReloads = 1
    FailureThreshold = 2
    CrashThreshold = 1
    Strict = FALSE
    Hanging = {}
INVARIANTS TypeOK OneSharedWorker NoStrayWorker NoStartAfterClose
PROPERTIES StaleOnlyByActivation UnchangedSurvive
CHECK_DEADLOCK FALSE
