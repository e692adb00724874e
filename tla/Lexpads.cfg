SPECIFICATION Spec
CONSTANTS
    None = None
    x = x
    st = st
    N = 5
    Outer <- MCOuter
    Mine <- MCMine
    State <- MCState
    Topic <- MCTopic
    MaxPads = 4
    MaxCodes = 6
INVARIANTS
    Isolated
    StateShared
PROPERTIES
    TopicStolen
CHECK_DEADLOCK FALSE
