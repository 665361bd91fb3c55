CONSTANTS
    Uses = 4
    MaxFaults = 3
    MaxAttempts = 9
    ReportBase = 8
    ReportMax = 480
    Mask = 9
    Multiplier = 5
    Increment = 2
    NoCap = 1000
SPECIFICATION Spec
INVARIANTS
    TypeOK
    KeyBudget
    OwnResults
    RetryPaced
    AgentInv
PROPERTY EventuallyUp
