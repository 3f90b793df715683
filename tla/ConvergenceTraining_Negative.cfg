SPECIFICATION WoSpec
CONSTANTS
    WoCalls <- CallsUpTo
    MaxEpoch = 4
    WoErrors <- Negative
    InitialError = 100
    Num = 1
    Den = 4
INVARIANT
    StopsOnConvergence
CHECK_DEADLOCK FALSE
