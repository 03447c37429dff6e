SPECIFICATION Spec
CONSTANTS
    x = x
    y = y
    Others = {"A", "B", "f"}
    Strings = {x, y}
    Menu <- MCMenu
    MaxStates = 4
    MaxStatements = 3
INVARIANTS
    TypeOK
    EveryRunDescribed
    ExportsComplete
    ExportsPossible
CHECK_DEADLOCK FALSE
