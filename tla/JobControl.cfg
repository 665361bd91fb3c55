SPECIFICATION FairSpec
CONSTANTS
    MaxJobs = 2
    MaxBytes = 1
INVARIANTS TypeOK CancelledWasHit CutIsCancelled CancelledWasAborted LiveMap ExecInv
PROPERTIES CancelEndsJob ShutdownReturns
\* The agent stops for good when Run returns.
CHECK_DEADLOCK FALSE
