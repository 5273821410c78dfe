SPECIFICATION Spec
CONSTANTS
    Accounts = {a, b}
    Products = {p}
    Stranger = stranger
    Null = null
    None = none
    CallIds = {c1, c2}
    SignIds = {s1}
    Debug = FALSE
    MayFail = TRUE
SYMMETRY Symmetry
INVARIANTS
    TypeOK
    ListFollowsServer
    
    CreatedDocumentHasOneList
