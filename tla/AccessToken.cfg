SPECIFICATION FairSpec
CONSTANTS
    Caller = {h, p}
    Lifetimes = {0, 1}
    DefaultLife = 4
    Margin = 2
    Timeout = 2
    MaxTries = 2
    MaxVersion = 2
    EnvStore = FALSE
    h = h
    p = p
INVARIANTS TypeOK CachedIsValid TokenInv
PROPERTY StoreCatchesUp
