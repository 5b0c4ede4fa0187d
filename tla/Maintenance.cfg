SPECIFICATION Spec
CONSTANTS
    Clients = {"claude", "cursor"}
    ClientOrder <- Order
    Profile = "profile"
    Keys = {"git", "web", "win"}
    Definitions = {"d1", "d2", "d3", "d4", "w"}
    Absent = Absent
    Partial = Partial
    MaxRuns = 2
    Windows = {"w"}
    MaxRepairs = 1
    InitialFiles <- Beginnings
    NewServers <- Given
    MaxEdits = 1
INVARIANT EditsKept
INVARIANT ServersKept
INVARIANT MigratedServed
INVARIANT RolledBack
INVARIANT BackupPredatesIrigate
CHECK_DEADLOCK FALSE
