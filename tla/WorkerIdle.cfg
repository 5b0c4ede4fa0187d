SPECIFICATION FairSpec
CONSTANTS
    Calls = {c1, c2}
    Stop = Stop
    Concurrency = "serial"
PROPERTY IdleExitOnlyWhenQuiet
CHECK_DEADLOCK FALSE
