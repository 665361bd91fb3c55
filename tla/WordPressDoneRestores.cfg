CONSTANTS
    Content = {a, b}
    Excluded = {x}
    MaxVersion = 2
    MaxClock = 3
    MaxBackups = 2
    MaxRestores = 1
SPECIFICATION Spec
INVARIANT DoneIsRestorable
CHECK_DEADLOCK FALSE
