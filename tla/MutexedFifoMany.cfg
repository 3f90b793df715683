SPECIFICATION Spec
CONSTANTS
    Getters = {g1, g2, g3}
    Putters = {p1, p2}
    Controllers = {c1}
    Items = {1, 2}
    Zero = Zero
    NoThread = NoThread
    MaxQueue = 3
INVARIANTS
    SomeoneAwake
    IndInv
PROPERTIES
    ImplementsBlockingFifo
