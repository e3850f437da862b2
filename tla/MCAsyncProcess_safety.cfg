SPECIFICATION Spec
CONSTANTS
    root = root
    a = a
    b = b
    c = c
    one = one
    text = text
    func = func
    Proc = {root, a, b, c}
    Root = root
    Value = {one}
    Opaque = {func}
    BodyLen <- MCBodyLen
    PipeCap = 4
    None = None
    Failed = Failed
    Undefined = Undefined
SYMMETRY MCSymmetry
INVARIANTS
    TypeOK
    AwaitFaithful
    ResultAwaits
    ExclusiveReader
PROPERTY
    FirstAwaitDefined
