SPECIFICATION FairSpec
CONSTANTS
    Chunks = 5
    BufCap = 2
INVARIANTS TypeOK EofMeansWhole OkMeansWhole RestoreInv
PROPERTY RestoreReturns
\* The call is over when Restore returns.
CHECK_DEADLOCK FALSE
