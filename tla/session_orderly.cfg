SPECIFICATION Spec
CONSTANTS
    Accts = {a, b}
    Null = null
    None = none
    boot = boot
    TapIds = {t1}
    MaxDepth = 3
    Debug = TRUE
    SlowStart = FALSE
    MayLeave = FALSE
    MayFail = TRUE
SYMMETRY Symmetry
INVARIANTS
    SessionConsistent
    PagesMatchSession
