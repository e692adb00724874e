SPECIFICATION Spec
CONSTANTS
    fin = fin
    inf = inf
    MaxVars = 3
    Shapes <- MCShapes
    Takes <- MCTakes
    Infinite = {inf}
    Blocks <- MCBlocks
    MaxItems = 2
    MaxChanges = 1
    Pushed = 100
    Batch = 2
INVARIANT
    TypeOK
PROPERTIES
    ContentKept
    OnceInOrder
    Lazy
CHECK_DEADLOCK FALSE
