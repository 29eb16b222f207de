CONSTANTS
    Alice = Alice
    Bob = Bob
    Chat <- MCChat
    OwnerEnv <- MCOwnerEnv
    Inputs <- MCInputs
    None = None
    ArmFor = 1
    StaleAfter = 1
    MaxUpdates = 3
    MaxTime = 2
    MaxCrashes = 1

SPECIFICATION FairSpec
INVARIANTS
    TypeOK
    RunsWhatWasArmed
    OneActionAtATime
    NeverActsOnOldMessages
PROPERTIES
    BusyEnds
    UpdatesAnswered
CHECK_DEADLOCK FALSE
