SPECIFICATION FairSpec
CONSTANTS
    TMu = TMu
    TAny = TAny
    TInt = TInt
    TStr = TStr
    TJunction = TJunction
    TList = TList
    THash = THash
    TCapture = TCapture
    i1 = i1
    i2 = i2
    s1 = s1
    tInt = tInt
    j = j
    js = js
    n1 = n1
    l1 = l1
    x = x
    y = y
    z = z
    me = me
    T = T
    k1 = k1
    k2 = k2
    None = None
    Garbage = Garbage
    Thrown = Thrown
    Plain <- MCPlain
    Prim <- MCPrim
    Box <- MCBox
    Unbox <- MCUnbox
    TypeOf <- MCTypeOf
    Defined <- MCDefined
    Coerced <- MCCoerced
    AsCapture <- MCAsCapture
    Types <- MCTypes
    Does <- MCDoes
    Vars <- MCVars
    Attrs <- MCAttrs
    AttrType <- MCAttrType
    Accessor <- MCAccessor
    Sigs <- MCSigs
    Sig <- MCSig
    States <- MCStates
    Inside <- MCInside
    MuType = TMu
    AnyType = TAny
    JunctionType = TJunction
    ListType = TList
    HashType = THash
    CaptureType = TCapture
    Names = {k1, k2}
    Self = me
    MayDie = TRUE
    Callable = {"opt", "sub", "badopt", "anyopt", "thunk", "mu", "named", "nameds", "capslurp", "capnamed", "caplast", "capanon", "meth", "methas", "access", "accessro", "accessno", "noself", "lol", "generic", "int", "num", "coerce"}
    Multis = {"opt", "mu", "named", "nameds", "sub", "meth", "generic", "coerce", "aftercheck", "after", "int", "lol", "anyopt", "thunk", "methas"}
    Captures <- MCCaptures
INVARIANTS
    BodyArgsConform
    AttrsBound
    BodyVarsBound
    ArityAgrees
    TrialAgrees
    EveryThreadOnce
PROPERTIES
    CallEnds
