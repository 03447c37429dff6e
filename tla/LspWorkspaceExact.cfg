SPECIFICATION Spec
CONSTANTS
    Paths = {"p.tpy", "p/q.tpy", "p/q.py", "c.tpy"}
    ModuleOf <- MCModuleOf
    TextsOf <- MCTextsOf
    SupportModules <- MCSupportModules
    SupportTexts <- MCSupportTexts
    Absent = Absent
    NotLoaded = NotLoaded
INVARIANTS
    TypeOK
    PublishedAsSummarized
PROPERTY
    ImplementationChangeIsLocal
