SPECIFICATION Spec
CONSTANTS
    a = a
    b = b
    Uris = {a, b}
    ProjectUris = {a}
    Ids = {1}
    Debounce = 1
    MaxDeferrals = 3
    MaxChannel = 2
    IdsReused = TRUE
INVARIANTS
    TypeOK
    NoStaleBatch
    ShownIsCurrent
PROPERTIES
    AnsweredInOrder
    DiagnosticsSettle
    RequestsAnswered
CHECK_DEADLOCK FALSE
