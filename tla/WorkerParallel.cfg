SPECIFICATION FairSpec
CONSTANTS
    Calls = {c1, c2, c3}
    Stop = Stop
    Concurrency = "parallel"
INVARIANT NoCallCutOff
PROPERTIES CloseCompletes IdleWorkerEnds
CHECK_DEADLOCK FALSE
