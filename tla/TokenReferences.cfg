SPECIFICATION Spec
CONSTANTS
    root = root  cp = cp  jn = jn  d1 = d1  d2 = d2
    j2 = j2  bs = bs  id = id  ac = ac
    sq = sq      cq = cq  d3 = d3  ls = ls
    Components <- TestComponents
    Kind <- TestKind
    Children <- TestChildren
    Networks = {root}
    Loss = ls
    Parts = {root, sq}
    Times = 2
    Tokens <- Addresses
    Arena <- ArenaOf
    Null = Null
    MaxHandles = 2
    MaxCalls = 5
INVARIANTS
    CountsExact
    NoDangling
    NoLeak
    Wiring
    UpdateReady
