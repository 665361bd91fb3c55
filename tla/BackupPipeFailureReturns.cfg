SPECIFICATION FairSpec
CONSTANTS
    Chunks = 5
    BufCap = 2
PROPERTY FailureReturns
\* The call is over when Backup returns.
CHECK_DEADLOCK FALSE
