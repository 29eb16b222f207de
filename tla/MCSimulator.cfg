SPECIFICATION FairSpec
CONSTANTS
    deposit = deposit
    other = other
    Intent = {deposit, other}
    Bundles <- MCBundles
    Wallet = {org, stranger}
    OrgWallet = org
    None = None
    AllowBroadcast = TRUE
    Attempts = 2
    MaxRuns = 2
    MaxExecutes = 3
    MaxChanges = 1
INVARIANTS
    TypeOK
    SameSpelling
PROPERTIES
    DryRunFirst
    ExecuteReturns
CHECK_DEADLOCK FALSE
