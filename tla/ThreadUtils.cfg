SPECIFICATION UtilsSpec
CONSTANTS
    Getters = {g1}
    Putters = {p1, p2}
    Controllers = {c1}
    Items = {1, 2}
    Zero = Zero
    NoThread = NoThread
    MaxQueue = 3
    Object = {a, b}
    MaxStarts = 3
    MaxSignals = 1
INVARIANTS ResetNeverSleeps ThreadNeverOutlives ReachedByCtrlC
PROPERTIES GetReturns DestructionEnds
CHECK_DEADLOCK FALSE
