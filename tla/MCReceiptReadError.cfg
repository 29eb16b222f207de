CONSTANTS
    p1 = p1
    p2 = p2
    p3 = p3
    Proc <- MCProc
    Exec = {x1}
    NoExec = NoExec
    None = None
    Torn = Torn
    MaxCalls <- MCCalls
    MaxCrashes = 1

SPECIFICATION SpecReadError
PROPERTY NeverLosesAnEntry
CHECK_DEADLOCK FALSE
