SPECIFICATION Spec
CONSTANTS
    Chunks = 5
    BufCap = 2
INVARIANT FailedSourceStoresNothing
\* The call is over when Backup returns.
CHECK_DEADLOCK FALSE
