SPECIFICATION LibrarySpec
CONSTANTS
    Queue = {p, q}
    Value = {u, v}
    Item = {i, j}
    BlockSize = 2
    Unset = Unset
    MaxLen = 3
    Key = {1, 2, 3, 4}
    Datum = {0, 1}
    NoKey = 0
    DefaultDatum = 0
    Hash <- MCHash
    MaxStamp = 2
    LoadNum = 3
    LoadDen = 4
    MaxBuckets = 16
    MaxCalls = 6
    Cell = {c1, c2}
    Garbage = Garbage
    MaxContext = 3
    MaxLength = 9
    PartlyFilled = FALSE
INVARIANTS HoldsItsElements IsDictionary ShowsLastWritten RightWindow EveryElement Owned WindowInv
CHECK_DEADLOCK FALSE
