SPECIFICATION FairSpec
CONSTANTS
    Calls = {c1, c2, c3}
    Stop = Stop
    Concurrency = "serial"
INVARIANTS TypeOK OneAtATime OpenCallsAccounted
PROPERTIES ReplyIsFinal ImplementsPort
CHECK_DEADLOCK FALSE
