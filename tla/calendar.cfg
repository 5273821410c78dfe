SPECIFICATION Spec
CONSTANTS
    Times = {morning, evening}
    Texts = {call}
    Null = null
    Cancelled = cancelled
    Span = 2
    Jump = 1
    Rows = 2
    Reach = 3
    MaxTasks = 3
    MaxDialogs = 2
INVARIANTS
    TypeOK
    MarkersMatchTasks
    EveryTaskHasATime
PROPERTIES
    OnlyTheTaskHeldGoes
