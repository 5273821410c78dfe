SPECIFICATION FairSpec
CONSTANTS
    Accts = {a}
    Null = null
    None = none
    boot = boot
    TapIds = {t1}
    MaxDepth = 3
    Debug = TRUE
    SlowStart = TRUE
    MayLeave = TRUE
    MayFail = FALSE
PROPERTIES
    
    LogoutCompletes
