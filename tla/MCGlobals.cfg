SPECIFICATION Spec
CONSTANTS
    o1 = o1
    o2 = o2
    o3 = o3
    x = x
    y = y
    z = z
    Obj = {o1, o2, o3}
    Text = {x, y, z}
    HashBound = 2
    Null = Null
    Nil = Nil
    Deleted = Deleted
    Plain = {Nil}
    Undefined = Undefined
    None = None
    MinCapacity = 2
SYMMETRY MCSymmetry
INVARIANTS
    TypeOK
    Interned
    Findable
    NoDangling
    ProbesEnd
PROPERTY
    KeepsScope
