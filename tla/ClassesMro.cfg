SPECIFICATION Spec
CONSTANTS
    Ambiguous = Ambiguous
    None = None
    r1 = r1
    r2 = r2
    m1 = m1
    x = x
    N = 7
    Methods = {m1}
    Role <- NoRole
    Stubs <- Hierarchies
    Attrs = {}
    MaxParents = 0
    MaxDecls <- Declarations
    Augments = FALSE
INVARIANTS
    OrderKept
    NearestFound
CHECK_DEADLOCK FALSE
