SPECIFICATION Spec
CONSTANTS
    x = x
    y = y
    i = i
    k = k
    tInt = tInt
    Mu = Mu
    Nil = Nil
    None = None
    Vars = {x, y}
    VarType <- MCVarType
    ParamOf <- MCParamOf
    Initial <- MCInitial
    Conforms <- MCConforms
    Literals = {i, Nil}
    Values = {i, tInt, Nil}
    Falsy = {tInt, Nil}
    Keys = {k}
    MaxPos = 2
    s1 = s1
    s2 = s2
    s3 = s3
    s4 = s4
    Scalars = {s1, s2, s3, s4}
    Null = Null
    MaxList = 2
INVARIANTS
    TypedValues
    ElementsOwned
    CopiesKept
    NeverBack
PROPERTIES
    Exchanges
SYMMETRY Symmetry
