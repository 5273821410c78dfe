SPECIFICATION Spec
CONSTANTS
    Accts = {a, b}
    Null = null
    None = none
    boot = boot
    TapIds = {t1, t2}
    MaxDepth = 3
    Debug = TRUE
    SlowStart = FALSE
    MayLeave = FALSE
    MayFail = FALSE
SYMMETRY Symmetry
INVARIANTS
    TypeOK
    SignedInHasProfile
    CallsKeepTheirAccount
PROPERTIES
    FavoritesComeWithTheirUser
    UserLostOnlyToUnverified
