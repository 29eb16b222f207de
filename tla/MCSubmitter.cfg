CONSTANTS
    w1 = w1
    w2 = w2
    approve = approve
    deposit = deposit
    None = None
    Work <- MCWork
    Call <- MCCall
    Bundle <- MCBundle
    Id = {e1, e2, e3}
    MaxRetries = 1
    MaxSubmits <- MCSubmits
    MaxCrashes = 1

SPECIFICATION Spec
SYMMETRY IdSymmetry
INVARIANTS
    TypeOK
    AtMostOnce
    BundleOrder
    SuccessMeansWholeBundle
    SessionResumable
    ReceiptTruthful
PROPERTIES
    SettledStaysSettled
    ImplementsLedger
CHECK_DEADLOCK FALSE
