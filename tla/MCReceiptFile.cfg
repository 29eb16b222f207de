CONSTANTS
    p1 = p1
    p2 = p2
    p3 = p3
    Proc <- MCProc
    Exec = {x1}
    NoExec = NoExec
    None = None
    Torn = Torn
    MaxCalls <- MCCalls
    MaxCrashes = 1

SPECIFICATION FairSpec
INVARIANTS
    TypeOK
    Durable
    NoLostUpdate
PROPERTIES
    TornLeftUntouched
    NeverLosesAnEntry
    CallsReturn
    ImplementsLog
CHECK_DEADLOCK FALSE
