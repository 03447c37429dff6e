SPECIFICATION Spec
CONSTANTS
    src = src
    generated = generated
    Roots = {src, generated}
    Settings <- MCSettings
    Invalid = Invalid
    Contents = {1}
    Absent = Absent
    MaxChannel = 2
INVARIANTS
    TypeOK
    LastRebuildIsCurrent
    WatchesFollowConfig
PROPERTIES
    ActiveWasWatched
    SettlesAfterEdits
CHECK_DEADLOCK FALSE
