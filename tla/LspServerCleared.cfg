SPECIFICATION Spec
CONSTANTS
    a = a
    b = b
    Uris = {a, b}
    ProjectUris = {a}
    Ids = {1}
    Debounce = 1
    MaxDeferrals = 3
    MaxChannel = 2
    IdsReused = FALSE
INVARIANT
    ClearedWhenGone
CHECK_DEADLOCK FALSE
