SPECIFICATION FairSpec
CONSTANTS
    Chunks = 5
    BufCap = 2
INVARIANTS TypeOK OkIsComplete ConstantMemory PipeInv
PROPERTIES KeepsPromise BackupReturns
\* The call is over when Backup returns.
CHECK_DEADLOCK FALSE
