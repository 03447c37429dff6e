SPECIFICATION Spec
CONSTANTS
    DeclaredClasses <- MCClasses
    DeclaredAliases <- MCAliases
    DeclaredNewTypes <- MCNewTypes
    DeclaredEnums <- MCEnumOwners
    AllValues <- MCUniverse
    Arguments <- MCArguments
    Menu <- MCMenuRecursive
    Depth = 2
INVARIANT
    ComparisonEnds
CHECK_DEADLOCK FALSE
