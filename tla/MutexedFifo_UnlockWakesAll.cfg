SPECIFICATION Spec
CONSTANTS
    Getters = {g1}
    Putters = {p1}
    Controllers = {c1}
    Items = {1}
    Zero = Zero
    NoThread = NoThread
    MaxQueue = 3
INVARIANT
    UnlockWakesAll
