SPECIFICATION Spec
CONSTANTS
    Addresses = 5
    StackMax = 3
    FramesMax = 2
    Nesting = 2
    Captures = 1
CHECK_DEADLOCK FALSE
INVARIANTS
    NoDangling
    CollectsGarbage
