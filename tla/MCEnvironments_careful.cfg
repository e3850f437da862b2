SPECIFICATION EnvSpec
CONSTANTS
    g = g
    e1 = e1
    e2 = e2
    e3 = e3
    e4 = e4
    e5 = e5
    e6 = e6
    Env = {g, e1, e2, e3, e4, e5}
    Global = g
    None = None
SYMMETRY MCSymmetry
INVARIANTS
    EnvTypeOK
    ReturnsMatch
    EnvFollows
    CarefulSafe
PROPERTIES
    CarefulSpares
CHECK_DEADLOCK FALSE
