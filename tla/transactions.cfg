SPECIFICATION FairSpec
CONSTANTS
    x = x
    Calls = {c1, c2}
    Values = {x}
    Ops <- MCOps
    None = none
    Retries = 1
    MayFail = TRUE
CHECK_DEADLOCK FALSE
INVARIANTS
    TypeOK
    RepeatedOnlyIfUnheard
    RefusedOnlyForOthers
PROPERTIES
    EveryCallEnds
    ImplementsAtomicUpdate
