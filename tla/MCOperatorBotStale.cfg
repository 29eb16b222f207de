CONSTANTS
    Alice = Alice
    Bob = Bob
    Chat <- MCChat
    OwnerEnv <- MCOwnerEnv
    Inputs <- MCButtons
    None = None
    ArmFor = 1
    StaleAfter = 1
    MaxUpdates = 2
    MaxTime = 2
    MaxCrashes = 1

SPECIFICATION Spec
INVARIANT NeverActsOnOldUpdates
CHECK_DEADLOCK FALSE
