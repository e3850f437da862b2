SPECIFICATION Spec
CONSTANTS
    root = root
    a = a
    b = b
    c = c
    one = one
    text = text
    func = func
    Proc = {root, a, b}
    Root = root
    Value = {one, text}
    Opaque = {func}
    BodyLen <- MCBodyLen
    PipeCap = 4
    None = None
    Failed = Failed
    Undefined = Undefined
INVARIANT
    EveryAwaitRetrieves
