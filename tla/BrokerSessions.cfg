SPECIFICATION Spec
CONSTANTS
    a = a  b = b  d = d  r1 = r1  r2 = r2  s1 = s1  s2 = s2
    home = home  work = work  None = None  Reloader = Reloader
    Keys = {a}
    Shareable = {}
    WithInputs = {}
    Requests = {r1, r2}
    Sessions = {s1, s2}
    SessionOf <- TwoSessions
    Inputs = {home, work}
    Binding <- NoBinding
    Addresses = {1}
    Workers = {1, 2, 3}
    Configs <- ChangeA
    InitialConfig <- A1
    MaxReloads = 0
    FailureThreshold = 2
    CrashThreshold = 1
    Strict = FALSE
    Hanging = {}
INVARIANTS NeverAcrossSessions
CHECK_DEADLOCK FALSE
