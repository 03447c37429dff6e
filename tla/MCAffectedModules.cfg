SPECIFICATION Spec
CONSTANTS
    Modules <- MCModules
    Workspaces <- MCWorkspaces
INVARIANTS
    TypeOK
    PlanIsExact
    LeftOutInputsUnchanged
PROPERTIES
    ImplementsRule
    Terminates
CHECK_DEADLOCK FALSE
