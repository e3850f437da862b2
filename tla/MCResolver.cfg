SPECIFICATION Spec
CONSTANTS
    x = x
    y = y
    z = z
    Name = {x, y, z}
    NoName = NoName
    HashBound = 3
    MaxSize = 8
    MaxDepth = 3
SYMMETRY MCSymmetry
INVARIANTS
    TypeOK
    ResolvesLexically
    RefusesOwnInitializer
PROPERTY
    RefusesDuplicates
