SPECIFICATION SharingSpec
CONSTANTS
    e1 = e1   e2 = e2   k1 = k1   k2 = k2
    T = T     U = U     wname = wname
    Comps = {e1, e2, k1}
    Trainers = {T, U}
    Conns = {1, 2, 3}
    Names = {wname}
    Null = Null
    Owner <- LoneOwner
    WeightsName <- TiedName
    BuildRank <- LoneBuildRank
    Rank <- LoneRank
    Kind <- TiedKind
    Momentum <- TiedMomentum
    CWeightDecay <- TiedDecay
    MaxNorm <- TiedMaxNorm
    Grads = {1}
    Vals = {0}
    MaxSteps = 1
INVARIANT
    ReferencesExact
