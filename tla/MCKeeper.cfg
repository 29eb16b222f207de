CONSTANTS
    Wallet = wallet
    other = other
    Vault = vault
    Account <- MCAccount
    MaxUint = 4
    Amount = {1}
    Spender = {other}
    c1 = c1
    c2 = c2
    Cmd <- MCCmd
    May <- MCMay
    Work = {w1}
    Expected = {}
    MaxExec = 2
    None = None
    MaxWorkflow = 1
    MinAmount = 1
    MaxAmount = 1
    Position = 1
    Balance = 1
    MaxCalls = 2

SPECIFICATION Spec
INVARIANTS
    TypeOK
    Covered
    LogFollowsChain
    OutcomeTruthful
    FilesTruthful
PROPERTIES
    ImplementsRedeems
    CommandsReturn
CHECK_DEADLOCK FALSE
