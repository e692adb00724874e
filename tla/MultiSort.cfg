SPECIFICATION Spec
CONSTANTS
    TMu = TMu
    TAny = TAny
    TCool = TCool
    TInt = TInt
    TStr = TStr
    TJunction = TJunction
    c_int = c_int
    c_any = c_any
    c_cool = c_cool
    c_where = c_where
    c_opt = c_opt
    c_slurpy = c_slurpy
    c_int_any = c_int_any
    c_any_str = c_any_str
    c_cool_cool = c_cool_cool
    c_any_cool = c_any_cool
    c_sub_slurpy = c_sub_slurpy
    y = y
    NoName = NoName
    MuType = TMu
    AnyType = TAny
    JunctionType = TJunction
    BoxType <- MCBox
    Cands = {c_int, c_any, c_cool, c_where, c_opt, c_slurpy, c_int_any, c_any_str, c_cool_cool, c_any_cool, c_sub_slurpy}
    Types <- MCTypes
    Does <- MCDoes
    Names = {y}
    Sig <- MCSig
    Captures <- MCCaptures
    MaxList = 3
INVARIANTS
    GroupsLinearize
    OrderFree
    NarrowestFirst
CHECK_DEADLOCK FALSE
