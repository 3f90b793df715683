SPECIFICATION TrainerSpec
CONSTANTS
    Outside = Outside
    Calls <- MCCalls
    InitStore <- MCInitStore
    Puts <- MCPuts
    Net <- MCNet
    NumPatternsOf <- TokenNumPatterns
    PatternSizeOf <- TokenPatternSize
    PatternOf <- TokenGetPattern
    MeaningOf <- TokenMeaning
    PutBunch <- PutPatternBunch
    OutputOf <- OutputDataset
    MaxPuts = 2
    Scalars = {2}
    MaxCalls = 2
    Options <- HoldoutCalls
    MaxEpoch = 5
    Errors = {1, 2, 3}
    NaN = NaN
    WoCalls <- CallsUpTo
    WoErrors = {0, 1, 3, 4, 7, 8}
    InitialError = 100
    Num = 1
    Den = 4
INVARIANTS
    GetsItsPattern TrainsPairs WholeEpoch UseWrites AnswersAreRight
    BestWasMeasured BestIsLeast NoWorseThanGiven Patience HoldoutInv
    LeastAccepted StopsOnConvergence
PROPERTIES PutsInItsPattern ImplementsTextbook
CHECK_DEADLOCK FALSE
