SPECIFICATION Spec
CONSTANTS
    k1 = k1
    k2 = k2
    k3 = k3
    i1 = i1
    i2 = i2
    Key = {k1, k2, k3}
    Item = {i1, i2}
    NoItem = NoItem
    NoKey = NoKey
    HashBound = 4
    MaxSize = 8
SYMMETRY MCSymmetry
INVARIANTS
    TypeOK
    RoomLeft
PROPERTY
    KeepsMap
