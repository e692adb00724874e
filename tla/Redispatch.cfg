SPECIFICATION Spec
CONSTANTS
    o1 = o1
    leaf = leaf
    proto = proto
    mid = mid
    k1 = k1
    k2 = k2
    help = help
    a = a
    j = j
    None = None
    Objects = {o1}
    Methods <- MCMethods
    Subs = {help}
    Slot <- MCSlot
    Protos = {proto}
    Best <- MCBest
    Matching <- MCMatching
    ProtoOf <- MCProtoOf
    Args = {a, j}
    Eigen <- MCEigen
    Threading <- MCThreading
    SubArgs = {a}
    MaxDepth = 4
    MaxDispatchers = 2
INVARIANTS
    TakenByCandidate
    ChainInOrder
    SameCall
PROPERTY
    LastIsLast
CHECK_DEADLOCK FALSE
