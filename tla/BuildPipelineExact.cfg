SPECIFICATION Spec
CONSTANTS
    Modules <- MCModules
    TextsOf <- MCTextsOf
    Configs <- MCConfigs
    Bodies = {1}
    Hidden = {1, 2}
    Faults = {"type error", "lowering", "shape transform", "syntax error"}
    Targets = {t1, t2}
    Required = {FALSE}
    Transforms = {FALSE, TRUE}
    NoEmitOnError = TRUE
    None = None
SYMMETRY
    TargetSymmetry
CONSTRAINT
    OneVariation
INVARIANTS
    TypeOK
    CheckResultsAsSummarized
    LoweringErrorsReported
    
PROPERTY
    EmitsOnlyWithoutErrors
