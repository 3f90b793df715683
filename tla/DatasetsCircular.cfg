SPECIFICATION DataSpec
CONSTANTS
    Outside = Outside
    Calls <- MCCalls
    InitStore <- MCInitStore
    Puts <- MCPuts
    Net <- MCNet
    NumPatternsOf <- TokenNumPatterns
    PatternSizeOf <- TokenPatternSize
    PatternOf <- TokenGetPattern
    MeaningOf <- TokenMeaning
    PutBunch <- PutPatternBunch
    OutputOf <- OutputDataset
    MaxPuts = 2
    Scalars = {2}
    MaxCalls = 2
INVARIANT CircularComesBack
CHECK_DEADLOCK FALSE
