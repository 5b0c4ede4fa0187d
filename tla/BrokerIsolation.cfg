SPECIFICATION Spec
CONSTANTS
    a = a  b = b  d = d  r1 = r1  r2 = r2  s1 = s1  s2 = s2
    home = home  work = work  None = None  Reloader = Reloader
    Keys = {a, b, d}
    Shareable <- FirstShareable
    WithInputs <- ThenWithInputs
    Requests = {r1, r2}
    Sessions = {s1, s2}
    SessionOf <- TwoSessions
    Inputs = {home, work}
    Binding <- MixedBindings
    Addresses = {1, 2}
    Workers = {1, 2, 3}
    Configs <- ChangeAofThree
    InitialConfig <- A1B1D1
    MaxReloads = 1
    FailureThreshold = 2
    CrashThreshold = 1
    Strict = FALSE
    Hanging = {}
INVARIANTS IsolatedPrivate IsolatedCurrent
PROPERTIES SharedAsConfigured
CHECK_DEADLOCK FALSE
