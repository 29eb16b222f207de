CONSTANTS
    DepositAmount = 1
    MinDeposit = 1
    AllocationPct = 80
    CompoundInterval = 1
    Checks = 2
    Scale = 10
    Capital = 3
    None = None
    MaxHour = 2
    MaxYield = 1
    MaxFaults = 1

SPECIFICATION Spec
INVARIANTS
    TypeOK
    BooksMatchVault
PROPERTIES
    ExitNeedsConfirmation
    CompoundSpacing
    SustainedDropExits
    StuckStateRecovers
