SPECIFICATION Spec
CONSTANTS
    Ambiguous = Ambiguous
    None = None
    r1 = r1
    r2 = r2
    m1 = m1
    x = x
    N = 5
    Methods = {}
    Role <- NoRole
    Stubs <- Separate
    Attrs = {}
    MaxParents = 0
    MaxDecls <- Nothing
    Augments = FALSE
INVARIANTS
    ComputesC3
CHECK_DEADLOCK FALSE
