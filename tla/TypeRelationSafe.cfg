SPECIFICATION Spec
CONSTANTS
    DeclaredClasses <- MCClasses
    DeclaredAliases <- MCAliases
    DeclaredNewTypes <- MCNewTypes
    DeclaredEnums <- MCEnumOwners
    AllValues <- MCUniverse
    Arguments <- MCArguments
    Menu <- MCMenu
    Depth = 2
INVARIANTS
    TypeOK
    AssignableIsSafe
    AssignableChains
    UnionsAreBounds
    AnyLoosens
CHECK_DEADLOCK FALSE
