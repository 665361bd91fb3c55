SPECIFICATION FairSpec
CONSTANTS
    Cmd = {1, 2}
    MaxRuns = 2
    MaxStops = 2
    MaxDiskFaults = 1
    MaxLate = 1
    NoCmd = NoCmd
    NoMsg = NoMsg
INVARIANTS TypeOK SentIsDurable IInv
PROPERTIES NeverForgotten KeepsPromise EventuallyDrained
