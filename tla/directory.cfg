SPECIFICATION Spec
CONSTANTS
    ann = ann
    bob = bob
    nick = nick
    h1 = h1
    h2 = h2
    Emails = {ann, bob}
    Nobody = nobody
    Null = null
    None = none
    Indexes = {h1, h2}
    Forms <- MCForms
    Hash <- MCHash
    Users <- MCUsers
    Docs <- MCDocs
    Values <- MCValues
    TapIds = {t1, t2}
    MaxPending = 2
    MaxWrites = 3
    MayFail = TRUE
SYMMETRY Symmetry
CHECK_DEADLOCK FALSE
INVARIANTS
    TypeOK
    PipelineIsPrefix
    CallbacksTellTheTruth
    NoWriteIsLost
    AppliedInOrder
    SomethingIsUnderWay
    AccountIsFound
PROPERTIES
    ImplementsOutbox
