SPECIFICATION Spec
CONSTANTS
    Ambiguous = Ambiguous
    None = None
    r1 = r1
    r2 = r2
    m1 = m1
    x = x
    N = 3
    Methods = {m1}
    Role <- MCRole
    Stubs <- MCStubs
    Attrs = {x, m1}
    MaxParents = 2
    MaxDecls <- Three
    Augments = TRUE
INVARIANTS
    NearestFound
    TypesKnown
    RolesKept
PROPERTIES
    MethodsKept
CHECK_DEADLOCK FALSE
