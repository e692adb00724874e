SPECIFICATION FairSpec
CONSTANTS
    TMu = TMu
    TAny = TAny
    TInt = TInt
    TStr = TStr
    TJunction = TJunction
    c_int = c_int
    c_any = c_any
    c_named = c_named
    c_sub = c_sub
    y = y
    d1 = d1
    d2 = d2
    NoName = NoName
    MuType = TMu
    AnyType = TAny
    JunctionType = TJunction
    BoxType <- MCBox
    Cands = {c_any, c_named, c_sub}
    Types <- MCTypes
    Does <- MCDoes
    Names = {y}
    Sig <- MCSig
    Dispatchers = {d1}
    Captures <- MCCaptures
    MaxArity = 1
    MaxEntries = 2
    MayDefault = {c_any}
    MayClone = FALSE
    LateTraits = FALSE
    MaxList = 2
    MaxCaches = 2
    MaxDepth = 2
PROPERTIES
    WalkEnds
    DispatchesAsUncached
CHECK_DEADLOCK FALSE
