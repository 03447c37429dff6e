SPECIFICATION Spec
CONSTANTS
    Modules <- MCModules
    TextsOf <- MCTextsOf
    Configs <- MCConfigs
    Bodies = {1}
    Hidden = {1}
    Faults = {"incomplete surface"}
    Targets = {t1}
    Required = {FALSE, TRUE}
    Transforms = {FALSE}
    NoEmitOnError = TRUE
    None = None
INVARIANT
    IncompleteSurfaceReported
