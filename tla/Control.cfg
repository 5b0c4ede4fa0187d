CONSTANTS
    i1 = i1
    i2 = i2
    i3 = i3
    c1 = c1
    c2 = c2
    p1 = p1
    p2 = p2
    Servers = {i1, i2, i3}
    Bystander = Bystander
    Commands = {c1, c2}
    Pids = {p1, p2}
    Keep = 1
    MaxCrashes = 1
    None = None
SYMMETRY MCSymmetry
SPECIFICATION Spec
INVARIANTS TypeOK RecordOfNewest StaleRecordOnlyIfCutShort StopMeansClean LogLostOnlyToNewer
PROPERTY ReloadHarmless
CHECK_DEADLOCK FALSE
