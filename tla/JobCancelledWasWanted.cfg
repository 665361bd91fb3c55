SPECIFICATION Spec
CONSTANTS
    MaxJobs = 2
    MaxBytes = 1
INVARIANT CancelledWasWanted
\* The agent stops for good when Run returns.
CHECK_DEADLOCK FALSE
