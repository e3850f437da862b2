SPECIFICATION Spec
CONSTANTS
    x = x
    y = y
    Name = {x, y}
    Base = 5
    Count = 4
    Grammars <- MCGrammars
    MaxWork = 10
    MaxDecl = 4
    MaxFun = 3
SYMMETRY MCSymmetry
CHECK_DEADLOCK FALSE
INVARIANTS
    TypeOK
    JumpsLand
    Balanced
    Resolves
    ClosesCaptured
