SPECIFICATION Spec
CONSTANT
    Forms <- MCForms
CHECK_DEADLOCK FALSE
INVARIANTS
    VMParses
    VMEnds
    StuckAtStray
    TreeParses
