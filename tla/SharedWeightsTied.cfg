SPECIFICATION Spec
CONSTANTS
    e1 = e1   e2 = e2   k1 = k1   k2 = k2
    T = T     U = U     wname = wname
    Comps = {e1, e2, k1, k2}
    Trainers = {T, U}
    Conns = {1, 2, 3}
    Names = {wname}
    Null = Null
    Owner <- TiedOwner
    WeightsName <- TiedName
    BuildRank <- TiedBuildRank
    Rank <- TiedRank
    Kind <- TiedKind
    Momentum <- TiedMomentum
    CWeightDecay <- TiedDecay
    MaxNorm <- TiedMaxNorm
    Grads = {1}
    Vals = {0}
    MaxSteps = 2
INVARIANTS
    ReferencesExact
    NothingPending
    IndInv
    PartialStep
PROPERTIES
    NoMoveUnderUpdate
    ImplementsMomentumStep
