SPECIFICATION UVSpec
CONSTANTS
    a = a
    b = b
    f = f
    g = g
    h = h
    u = u
    v = v
    w = w
    Val = {a, b}
    Closure = {f, g}
    Up = {u, v}
    Nothing = Nothing
    StackMax = 4
    FramesMax = 2
    CountMax = 2
SYMMETRY MCSymmetry
INVARIANTS
    UVTypeOK
    OpenSorted
    Shares
    OneUpvalue
