SPECIFICATION Spec
CONSTANTS
    Parameter = Parameter
    Local = Local
    Locals <- MCLocals
    Unresolved = Unresolved
    Unbound <- Nothing
    Values <- MCUniverse
    Types <- MCTypes
    ValuesOf <- MCValuesOf
    Join <- JoinOf
    Narrow <- MCNarrow
    May <- MayBe
    TellsWhole <- TellsMembers
    LeavesSeveral <- LeavesMembers
    DeclaredClasses <- MCClasses
    DeclaredAliases <- MCAliases
    DeclaredNewTypes <- MCNewTypes
    DeclaredEnums <- MCEnumOwners
    AllValues <- MCUniverse
    Arguments <- MCArguments
    DeclaredTypes <- MCDeclaredTypes
    Predicates <- MCPredicates
    Blocks <- MCBlocks
    MaxBlocks = 2
INVARIANTS
    TypeOK
    NarrowingIsSafe
    NarrowingIsTight
CHECK_DEADLOCK FALSE
