CONSTANTS
    w1 = w1
    w2 = w2
    approve = approve
    deposit = deposit
    None = None
    Work <- MCWork1
    Call <- MCCall
    Bundle <- MCBundle1
    Id = {e1, e2}
    MaxRetries = 1
    MaxSubmits <- MCSubmits1
    MaxCrashes = 1

SPECIFICATION FairSpec
PROPERTIES
    SubmitReturns
    HashesSettle
CHECK_DEADLOCK FALSE
