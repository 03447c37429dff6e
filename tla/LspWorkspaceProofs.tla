-------------------------- MODULE LspWorkspaceProofs --------------------------
(***************************************************************************)
(* The workspace of the language server is proved for any project, any     *)
(* support modules and any history of edits: until an update has failed,   *)
(* what the editor is told is what a check of every module would tell it,  *)
(* but for what summaries hide, and a change that no public summary shows  *)
(* rechecks one module.                                                    *)
(***************************************************************************)
EXTENDS LspWorkspace, IncrementalCheckProofs

\* The texts an update reads: the cached ones, and the disk for the rest.
TextsRead ==
    [module \in SupportModules |->
        IF module \in DOMAIN support_documents
        THEN support_documents[module]
        ELSE support_disk[module]]

\* There is a result of every module, and of none that is gone: of its text, and of
\* the summaries of all it reaches.
Tell(diagnostics, workspace) ==
    /\ DOMAIN diagnostics = DOMAIN workspace
    /\ \A module \in DOMAIN workspace :
            AsSummarized(diagnostics[module]) = AsSummarized(CheckOf(workspace, module))

\* The results of the last rebuild are of the documents as they are.
ResultsTell ==
    ~degraded =>
        /\ incremental = Summaries(Checked)
        /\ dependency_index = Index(Checked)
        /\ SummarizedReport(published) = SummarizedReport(FullReport(project_documents, Checked))
        /\ parse_blocked = FullReport(project_documents, Checked).blocked
        /\ ~parse_blocked => Tell(check_diagnostics, Checked)

\* What the project wants of the support modules is loaded, and nothing else is used.
SupportLoaded ==
    ~degraded =>
        IF ExternalTargets(project_documents) = {}
        THEN active_support = {}
        ELSE /\ support_index # NotLoaded
             /\ active_support = Wanted(project_documents, support_index, TextsRead)

IInv == TypeOK /\ ResultsTell /\ SupportLoaded

IsProject(files) ==
    /\ files \in [Paths -> (UNION {TextsOf[path] : path \in Paths}) \cup {Absent}]
    /\ \A path \in Paths : files[path] \in TextsOf[path] \cup {Absent}

AreSupport(loaded) ==
    /\ DOMAIN loaded \subseteq SupportModules
    /\ \A module \in DOMAIN loaded : loaded[module] \in SupportTexts[module]

\* A cache that only grew.
Extends(later, cached) ==
    \A module \in DOMAIN cached : module \in DOMAIN later /\ later[module] = cached[module]

\* What a load that fails leaves in use.
StaysInUse(active, cached) == active = {} \/ (cached # << >> /\ active = active_support)

IsIndex(index) == index = NotLoaded \/ index \subseteq SupportModules
-----------------------------------------------------------------------------
(* Workspaces. *)

LEMMA WorkspaceDomain ==
    ASSUME NEW files, NEW loaded, NEW active
    PROVE  DOMAIN Workspace(files, loaded, active) = ProjectModules(files) \cup active
BY DEF Workspace

\* Every project module has a spelling, and the text of one that is chosen.
LEMMA ProjectText ==
    ASSUME NEW files, NEW loaded, NEW active, NEW module \in ProjectModules(files)
    PROVE  \E path \in Present(files) :
                /\ path = CHOOSE spelling \in SpellingsOf(files, module) : TRUE
                /\ ModuleOf[path] = module
                /\ Workspace(files, loaded, active)[module] = files[path]
<1>1. \E path \in SpellingsOf(files, module) : TRUE
    BY DEF ProjectModules, SpellingsOf
<1>2. (CHOOSE spelling \in SpellingsOf(files, module) : TRUE) \in SpellingsOf(files, module)
    BY <1>1
<1>3. QED  BY <1>2 DEF Workspace, SpellingsOf

LEMMA SupportText ==
    ASSUME NEW files, NEW loaded, NEW active, NEW module \in active, module \notin ProjectModules(files)
    PROVE  Workspace(files, loaded, active)[module] = loaded[module]
BY DEF Workspace

LEMMA ProjectModulesFacts ==
    ASSUME NEW files
    PROVE  /\ Present(files) \subseteq Paths
           /\ ProjectModules(files) \cap SupportModules = {}
BY WorkspaceAssumption DEF ProjectModules, Present

LEMMA WorkspaceImports ==
    ASSUME NEW files, IsProject(files), NEW loaded, AreSupport(loaded),
           NEW active \in SUBSET DOMAIN loaded
    PROVE  IsWorkspace(Workspace(files, loaded, active))
<1>1. ASSUME NEW module \in ProjectModules(files)
      PROVE  Workspace(files, loaded, active)[module].imports \subseteq Seq(STRING)
    <2>1. PICK path \in Present(files) : Workspace(files, loaded, active)[module] = files[path]
        BY <1>1, ProjectText
    <2>2. path \in Paths /\ files[path] \in TextsOf[path]
        BY DEF Present, IsProject
    <2>3. QED  BY <2>1, <2>2, WorkspaceAssumption
<1>2. ASSUME NEW module \in active \ ProjectModules(files)
      PROVE  Workspace(files, loaded, active)[module].imports \subseteq Seq(STRING)
    BY SupportText, WorkspaceAssumption DEF AreSupport
<1>3. DOMAIN Workspace(files, loaded, active) = ProjectModules(files) \cup (active \ ProjectModules(files))
    BY WorkspaceDomain
<1> HIDE DEF IsProject, AreSupport
<1>4. QED  BY <1>1, <1>2, <1>3 DEF IsWorkspace

\* An edit of one path, and support modules that are loaded but never replaced: the
\* texts of all other modules stay, and so does that of the edited one when it has
\* the same text as before.
LEMMA OtherTextsStay ==
    ASSUME NEW files, NEW edited, IsProject(files), IsProject(edited), NEW path \in Paths,
           \A other \in Paths : other # path => edited[other] = files[other],
           NEW loaded, NEW later, AreSupport(loaded), AreSupport(later),
           Extends(later, loaded),
           NEW active \in SUBSET DOMAIN loaded, NEW then \in SUBSET DOMAIN later,
           NEW module \in DOMAIN Workspace(files, loaded, active)
                            \cap DOMAIN Workspace(edited, later, then),
           module # ModuleOf[path] \/ edited[path] = files[path]
    PROVE  Workspace(edited, later, then)[module] = Workspace(files, loaded, active)[module]
<1>1. /\ module \in ProjectModules(files) \cup active
      /\ module \in ProjectModules(edited) \cup then
    BY WorkspaceDomain
<1>2. /\ ProjectModules(files) \cap SupportModules = {}
      /\ ProjectModules(edited) \cap SupportModules = {}
      /\ active \subseteq SupportModules /\ then \subseteq SupportModules
    BY ProjectModulesFacts DEF AreSupport
<1>3. CASE module \in ProjectModules(files)
    <2>1. module \in ProjectModules(edited)
        BY <1>1, <1>2, <1>3
    <2>3. PICK one \in Present(files) :
            /\ one = CHOOSE spelling \in SpellingsOf(files, module) : TRUE
            /\ ModuleOf[one] = module
            /\ Workspace(files, loaded, active)[module] = files[one]
        BY <1>3, ProjectText
    <2>4. PICK other \in Present(edited) :
            /\ other = CHOOSE spelling \in SpellingsOf(edited, module) : TRUE
            /\ ModuleOf[other] = module
            /\ Workspace(edited, later, then)[module] = edited[other]
        BY <2>1, ProjectText
    <2>5. one \in Paths
        BY DEF Present
    <2>6. CASE edited[path] = files[path]
        <3>1. edited = files
            BY <2>6 DEF IsProject
        <3>2. QED  BY <2>3, <2>4, <3>1
    <2>7. CASE module # ModuleOf[path]
        <3>1. SpellingsOf(edited, module) = SpellingsOf(files, module)
            BY <2>7 DEF SpellingsOf, Present
        <3>2. one = other
            BY <2>3, <2>4, <3>1
        <3>3. QED  BY <2>3, <2>4, <2>5, <2>7, <3>2
    <2>8. QED  BY <2>6, <2>7
<1>4. CASE module \notin ProjectModules(files)
    <2>1. module \in active /\ module \in then /\ module \notin ProjectModules(edited)
        BY <1>1, <1>2, <1>4
    <2>2. Workspace(files, loaded, active)[module] = loaded[module]
        BY <1>4, <2>1, SupportText
    <2>3. Workspace(edited, later, then)[module] = later[module]
        BY <2>1, SupportText
    <2>4. QED  BY <2>1, <2>2, <2>3 DEF Extends
<1>5. QED  BY <1>3, <1>4
-----------------------------------------------------------------------------
(* The support modules. *)

\* What is wanted is in the index, with all the imports it has there.
LEMMA WantedFacts ==
    ASSUME NEW files, NEW index \in SUBSET SupportModules, NEW texts
    PROVE  Wanted(files, index, texts) \subseteq SupportModules
BY DEF Wanted, Closure

\* What is wanted depends on the external targets and on the texts of what is wanted.
LEMMA WantedStays ==
    ASSUME NEW files, NEW edited, ExternalTargets(edited) = ExternalTargets(files),
           NEW index \in SUBSET SupportModules, NEW texts, NEW other,
           \A module \in Wanted(files, index, texts) : other[module] = texts[module]
    PROVE  Wanted(edited, index, other) = Wanted(files, index, texts)
<1> DEFINE Next1 == [module \in SupportModules |->
                IF texts[module] = Absent THEN {} ELSE Matching(index, texts[module].imports)]
           Next2 == [module \in SupportModules |->
                IF other[module] = Absent THEN {} ELSE Matching(index, other[module].imports)]
           seeds == Matching(index, ExternalTargets(files))
           wanted == Wanted(files, index, texts)
<1>1. wanted = Closure(seeds, Next1) /\ Wanted(edited, index, other) = Closure(seeds, Next2)
    BY DEF Wanted
<1>2. DOMAIN Next1 = SupportModules /\ DOMAIN Next2 = SupportModules
    OBVIOUS
<1>3. \A targets : Matching(index, targets) \subseteq SupportModules
    BY DEF Matching
<1>4. /\ \A module \in DOMAIN Next1 : Next1[module] \subseteq DOMAIN Next1
      /\ \A module \in DOMAIN Next2 : Next2[module] \subseteq DOMAIN Next2
    BY <1>3
<1>5. seeds \in SUBSET SupportModules
    BY <1>3
<1>6. \A module \in wanted : Next1[module] = Next2[module]
    BY WantedFacts
<1> HIDE DEF Next1, Next2, seeds, wanted
<1>7. /\ wanted \subseteq DOMAIN Next1 /\ seeds \subseteq wanted
      /\ \A module \in wanted : Next1[module] \subseteq wanted
    BY <1>1, <1>2, <1>4, <1>5, ClosureIsClosed
<1>8. Closure(seeds, Next1) = Closure(seeds, Next2)
    BY <1>2, <1>4, <1>6, <1>7, SameClosure
<1>9. QED  BY <1>1, <1>8 DEF wanted

\* What the load of the support modules leaves in the cache.
LEMMA SyncFacts ==
    ASSUME NEW files, NEW index, IsIndex(index), NEW cached, AreSupport(cached),
           DOMAIN support_disk = SupportModules,
           \A module \in SupportModules : support_disk[module] \in SupportTexts[module] \cup {Absent},
           NEW synced \in SyncSupport(files, index, cached)
    PROVE  /\ IsIndex(synced.index)
           /\ AreSupport(synced.loaded)
           /\ Extends(synced.loaded, cached)
           /\ synced.ok \in BOOLEAN
           /\ synced.ok => synced.active \subseteq DOMAIN synced.loaded
           /\ ~synced.ok => StaysInUse(synced.active, cached)
<1> DEFINE loaded_index == IF index = NotLoaded THEN OnDisk ELSE index
           texts == [module \in SupportModules |->
                       IF module \in DOMAIN cached THEN cached[module] ELSE support_disk[module]]
           wanted == Wanted(files, loaded_index, texts)
           readable == {module \in wanted : texts[module] # Absent}
           Cache(modules) == [module \in DOMAIN cached \cup modules |-> texts[module]]
<1>1. loaded_index \in SUBSET SupportModules
    BY DEF IsIndex, OnDisk
<1>2. wanted \subseteq SupportModules
    <2> HIDE DEF loaded_index, texts
    <2> QED  BY <1>1, WantedFacts
<1>3. ASSUME NEW read \in SUBSET readable
      PROVE  AreSupport(Cache(read)) /\ Extends(Cache(read), cached)
    <2> HIDE DEF wanted
    <2>1. \A module \in read : module \in SupportModules /\ texts[module] # Absent
        BY <1>2
    <2>2. \A module \in read : texts[module] \in SupportTexts[module]
        BY <2>1 DEF AreSupport
    <2>3. \A module \in DOMAIN cached : module \in SupportModules /\ texts[module] = cached[module]
        BY DEF AreSupport
    <2> HIDE DEF texts
    <2>4. QED  BY <2>1, <2>2, <2>3 DEF AreSupport, Extends
<1>4. CASE ExternalTargets(files) = {}
    <2>1. synced = [ok |-> TRUE, index |-> index, loaded |-> cached, active |-> {}]
        BY <1>4 DEF SyncSupport
    <2>2. QED  BY <2>1 DEF Extends
<1>5. CASE ExternalTargets(files) # {} /\ wanted = readable
    <2>1. synced = [ok |-> TRUE, index |-> loaded_index, loaded |-> Cache(wanted), active |-> wanted]
        BY <1>5 DEF SyncSupport
    <2>2. wanted \in SUBSET readable
        BY <1>5
    <2> HIDE DEF wanted, readable, texts
    <2>3. wanted \subseteq DOMAIN Cache(wanted)
        OBVIOUS
    <2>4. AreSupport(Cache(wanted)) /\ Extends(Cache(wanted), cached)
        BY <1>3, <2>2
    <2> HIDE DEF Cache, loaded_index
    <2>5. QED  BY <1>1, <2>1, <2>3, <2>4 DEF IsIndex
<1>6. CASE ExternalTargets(files) # {} /\ wanted # readable
    <2>1. PICK read \in SUBSET readable :
            synced = [ok |-> FALSE, index |-> loaded_index, loaded |-> Cache(read),
                      active |-> IF cached = << >> THEN {} ELSE active_support]
        BY <1>6 DEF SyncSupport
    <2>2. AreSupport(Cache(read)) /\ Extends(Cache(read), cached)
        BY <1>3
    <2> HIDE DEF wanted, readable, texts, Cache, loaded_index
    <2>3. QED  BY <1>1, <2>1, <2>2 DEF IsIndex, StaysInUse
<1>7. QED  BY <1>4, <1>5, <1>6

\* A load that succeeds leaves exactly what is wanted in use.
LEMMA SyncLoads ==
    ASSUME NEW files, NEW index, IsIndex(index), NEW cached, AreSupport(cached),
           NEW synced \in SyncSupport(files, index, cached), synced.ok,
           ExternalTargets(files) # {}
    PROVE  /\ synced.index \in SUBSET SupportModules
           /\ synced.index = IF index = NotLoaded THEN OnDisk ELSE index
           /\ synced.active = Wanted(files, synced.index,
                [module \in SupportModules |->
                    IF module \in DOMAIN cached THEN cached[module] ELSE support_disk[module]])
           /\ synced.active \subseteq DOMAIN synced.loaded
           /\ [module \in SupportModules |->
                    IF module \in DOMAIN synced.loaded
                    THEN synced.loaded[module] ELSE support_disk[module]]
                = [module \in SupportModules |->
                    IF module \in DOMAIN cached THEN cached[module] ELSE support_disk[module]]
<1> DEFINE loaded_index == IF index = NotLoaded THEN OnDisk ELSE index
           texts == [module \in SupportModules |->
                       IF module \in DOMAIN cached THEN cached[module] ELSE support_disk[module]]
           wanted == Wanted(files, loaded_index, texts)
           readable == {module \in wanted : texts[module] # Absent}
           Cache(modules) == [module \in DOMAIN cached \cup modules |-> texts[module]]
<1>1. loaded_index \in SUBSET SupportModules
    BY DEF IsIndex, OnDisk
<1>2. wanted \subseteq SupportModules
    <2> HIDE DEF loaded_index, texts
    <2> QED  BY <1>1, WantedFacts
<1>3. wanted = readable
    <2>1. CASE wanted # readable
        <3>1. PICK read \in SUBSET readable :
                synced = [ok |-> FALSE, index |-> loaded_index, loaded |-> Cache(read),
                          active |-> IF cached = << >> THEN {} ELSE active_support]
            BY <2>1 DEF SyncSupport
        <3>2. QED  BY <3>1
    <2>2. QED  BY <2>1
<1>4. synced = [ok |-> TRUE, index |-> loaded_index, loaded |-> Cache(wanted), active |-> wanted]
    BY <1>3 DEF SyncSupport
<1>5. [module \in SupportModules |->
            IF module \in DOMAIN Cache(wanted) THEN Cache(wanted)[module] ELSE support_disk[module]]
        = texts
    <2> HIDE DEF wanted
    <2> QED  OBVIOUS
<1>6. wanted \subseteq DOMAIN Cache(wanted)
    OBVIOUS
<1> HIDE DEF wanted, Cache, loaded_index
<1>7. QED  BY <1>1, <1>4, <1>5, <1>6 DEF wanted, loaded_index

\* A load that wants nothing leaves nothing in use.
LEMMA SyncIdles ==
    ASSUME NEW files, NEW index, NEW cached, NEW synced \in SyncSupport(files, index, cached),
           ExternalTargets(files) = {}
    PROVE  synced.ok /\ synced.active = {}
<1>1. synced = [ok |-> TRUE, index |-> index, loaded |-> cached, active |-> {}]
    BY DEF SyncSupport
<1>2. QED  BY <1>1
-----------------------------------------------------------------------------
(* The rebuild. *)

LEMMA FullReportFacts ==
    ASSUME NEW files, NEW workspace
    PROVE  /\ FullReport(files, workspace).blocked \in BOOLEAN
           /\ ~FullReport(files, workspace).blocked =>
                FullReport(files, workspace)
                    = [blocked |-> FALSE, collides |-> FALSE, report |-> CheckAll(workspace)]
BY DEF FullReport

\* Results that tell of the workspace make a report that says what the full one says.
LEMMA TellIsReported ==
    ASSUME NEW workspace, NEW diagnostics, Tell(diagnostics, workspace), NEW full,
           full = [blocked |-> FALSE, collides |-> FALSE, report |-> CheckAll(workspace)]
    PROVE  SummarizedReport([blocked |-> FALSE, collides |-> FALSE, report |-> diagnostics])
                = SummarizedReport(full)
<1> DEFINE Summed(report) == [module \in DOMAIN report |-> AsSummarized(report[module])]
<1>1. Summed(diagnostics) = Summed(CheckAll(workspace))
    <2>1. /\ DOMAIN CheckAll(workspace) = DOMAIN workspace
          /\ \A module \in DOMAIN workspace : CheckAll(workspace)[module] = CheckOf(workspace, module)
        BY DEF CheckAll
    <2>2. QED  BY <2>1 DEF Tell
<1>2. \A report : SummarizedReport([blocked |-> FALSE, collides |-> FALSE, report |-> report])
                    = [blocked |-> FALSE, collides |-> FALSE, report |-> Summed(report)]
    BY DEF SummarizedReport
<1> HIDE DEF Summed
<1>3. QED  BY <1>1, <1>2

LEMMA CheckAllTells ==
    ASSUME NEW workspace
    PROVE  Tell(CheckAll(workspace), workspace)
BY DEF Tell, CheckAll

\* The last results are those of the previous workspace, and the direct changes hold
\* every module whose text is another now.
Continues(previous, workspace, direct) ==
    /\ IsWorkspace(previous)
    /\ incremental = Summaries(previous)
    /\ dependency_index = Index(previous)
    /\ ~parse_blocked => Tell(check_diagnostics, previous)
    /\ \A module \in DOMAIN previous \cap DOMAIN workspace :
            previous[module] # workspace[module] => module \in direct

\* A rebuild that rechecks what the plan says tells what one that checks everything
\* tells, but for what summaries hide, as long as the last results told of the texts
\* of then and the direct changes hold every module whose text is another.
LEMMA RebuildTells ==
    ASSUME NEW files, NEW loaded, NEW active, NEW direct, NEW force \in BOOLEAN,
           Rebuild(files, loaded, active, direct, force),
           NEW workspace, workspace = Workspace(files, loaded, active), IsWorkspace(workspace),
           NEW previous,
           force \/ Continues(previous, workspace, direct)
    PROVE  /\ incremental' = Summaries(workspace)
           /\ dependency_index' = Index(workspace)
           /\ SummarizedReport(published)' = SummarizedReport(FullReport(files, workspace))
           /\ parse_blocked' = FullReport(files, workspace).blocked
           /\ ~parse_blocked' => Tell(check_diagnostics', workspace)
<1> DEFINE full == FullReport(files, workspace)
           current == IF force \/ incremental = << >>
                      THEN Summaries(workspace)
                      ELSE ReusedSummaries(workspace, incremental, direct)
           affected == ToRecheck(DOMAIN workspace, current, Index(workspace), direct, force)
           kept == DOMAIN check_diagnostics \cap DOMAIN workspace
<1>1. /\ rechecked' = IF full.blocked THEN {} ELSE affected
      /\ check_diagnostics' =
             [module \in kept \cup rechecked' |->
                IF module \in rechecked'
                THEN CheckOf(workspace, module)
                ELSE check_diagnostics[module]]
      /\ published' = IF full.blocked
                      THEN full
                      ELSE [blocked |-> FALSE, collides |-> FALSE, report |-> check_diagnostics']
      /\ incremental' = current
      /\ dependency_index' = Index(workspace)
      /\ parse_blocked' = full.blocked
    BY DEF Rebuild
<1>2. current = Summaries(workspace)
    <2>1. CASE force \/ incremental = << >>
        BY <2>1
    <2>2. CASE ~(force \/ incremental = << >>)
        <3>1. \A module \in DOMAIN previous \cap DOMAIN workspace :
                Summary(previous[module]) # Summary(workspace[module]) => module \in direct
            BY <2>2 DEF Continues
        <3>2. ReusedSummaries(workspace, Summaries(previous), direct) = Summaries(workspace)
            BY <3>1, ReusedAreCurrent
        <3>3. QED  BY <2>2, <3>2 DEF Continues
    <2>3. QED  BY <2>1, <2>2
<1> HIDE DEF current
<1>3. affected \subseteq DOMAIN workspace
    BY DEF ToRecheck
<1>4. ASSUME NEW module \in DOMAIN workspace \ affected
      PROVE  /\ module \in DOMAIN check_diagnostics
             /\ AsSummarized(check_diagnostics[module]) = AsSummarized(CheckOf(workspace, module))
    <2>1. ~force /\ ~parse_blocked
        BY DEF ToRecheck
    <2>2. module \notin Affected(dependency_index, Index(workspace), direct,
                                 DiffModules(incremental, current))
        BY <2>1 DEF ToRecheck
    <2>3. module \notin Affected(Index(previous), Index(workspace), direct,
                                 ChangedSummaries(previous, workspace))
        BY <1>2, <2>1, <2>2 DEF ChangedSummaries, Continues
    <2>4. /\ module \in DOMAIN previous
          /\ AsSummarized(CheckOf(workspace, module)) = AsSummarized(CheckOf(previous, module))
        BY <2>1, <2>3, LeftOutChecksAreKept DEF Continues
    <2>5. Tell(check_diagnostics, previous)
        BY <2>1 DEF Continues
    <2>6. QED  BY <2>4, <2>5 DEF Tell
<1> HIDE DEF affected, full
<1>5. ASSUME ~full.blocked PROVE Tell(check_diagnostics', workspace)
    <2>1. rechecked' = affected
        BY <1>1, <1>5
    <2>2. kept \cup rechecked' = DOMAIN workspace
        BY <1>3, <1>4, <2>1
    <2>3. \A module \in DOMAIN workspace :
            AsSummarized(IF module \in rechecked'
                         THEN CheckOf(workspace, module) ELSE check_diagnostics[module])
                = AsSummarized(CheckOf(workspace, module))
        BY <1>4, <2>1
    <2>4. QED  BY <1>1, <2>2, <2>3 DEF Tell
<1>6. SummarizedReport(published)' = SummarizedReport(full)
    <2> SUFFICES SummarizedReport(published') = SummarizedReport(full)
        BY DEF SummarizedReport
    <2>1. CASE full.blocked
        BY <1>1, <2>1
    <2>2. CASE ~full.blocked
        <3>1. full = [blocked |-> FALSE, collides |-> FALSE, report |-> CheckAll(workspace)]
            BY <2>2, FullReportFacts DEF full
        <3>2. SummarizedReport([blocked |-> FALSE, collides |-> FALSE, report |-> check_diagnostics'])
                = SummarizedReport(full)
            BY <1>5, <2>2, <3>1, TellIsReported
        <3>3. QED  BY <1>1, <2>2, <3>2
    <2>3. QED  BY <2>1, <2>2
<1>7. QED  BY <1>1, <1>2, <1>5, <1>6 DEF full

LEMMA RebuildType ==
    ASSUME NEW files, NEW loaded, NEW active, NEW direct, NEW force \in BOOLEAN,
           degraded \in BOOLEAN, Rebuild(files, loaded, active, direct, force)
    PROVE  /\ DOMAIN incremental' = DOMAIN dependency_index'
           /\ rechecked' \subseteq DOMAIN check_diagnostics'
           /\ parse_blocked' \in BOOLEAN
           /\ degraded' \in BOOLEAN
           /\ ~force /\ ~degraded' => ~degraded
<1> DEFINE workspace == Workspace(files, loaded, active)
<1>1. /\ incremental' = IF force \/ incremental = << >>
                        THEN Summaries(workspace)
                        ELSE ReusedSummaries(workspace, incremental, direct)
      /\ dependency_index' = Index(workspace)
      /\ parse_blocked' = FullReport(files, workspace).blocked
      /\ degraded' = (degraded /\ ~force)
      /\ rechecked' \subseteq DOMAIN check_diagnostics'
    BY DEF Rebuild
<1>2. DOMAIN incremental' = DOMAIN workspace
    BY <1>1, SummaryFacts DEF ReusedSummaries
<1>3. DOMAIN Index(workspace) = DOMAIN workspace
    BY IndexOfModules DEF Index, ImportTargets
<1>4. degraded' \in BOOLEAN /\ (~force /\ ~degraded' => ~degraded)
    BY <1>1
<1>5. parse_blocked' \in BOOLEAN
    BY <1>1, FullReportFacts
<1>6. QED  BY <1>1, <1>2, <1>3, <1>4, <1>5
-----------------------------------------------------------------------------
(* The steps. *)

\* No support module is loaded yet, or any longer.
LEMMA NothingCached == AreSupport(<< >>)
BY DEF AreSupport

LEMMA InitIsSound == Init => IInv
<1> SUFFICES ASSUME Init PROVE IInv
    OBVIOUS
<1> DEFINE workspace == Workspace(project_documents, << >>, {})
           full == FullReport(project_documents, workspace)
<1>1. Checked = workspace
    BY DEF Init, Checked
<1>2. /\ incremental = Summaries(workspace) /\ dependency_index = Index(workspace)
      /\ check_diagnostics = IF full.blocked THEN << >> ELSE full.report
      /\ parse_blocked = full.blocked /\ published = full
      /\ rechecked = IF full.blocked THEN {} ELSE DOMAIN workspace
    BY DEF Init
<1>3. ~full.blocked => check_diagnostics = CheckAll(workspace)
    BY <1>2, FullReportFacts
<1>4. ResultsTell
    BY <1>1, <1>2, <1>3, CheckAllTells DEF ResultsTell
<1>5. rechecked \subseteq DOMAIN check_diagnostics
    BY <1>2, <1>3 DEF CheckAll
<1>6. DOMAIN incremental = DOMAIN dependency_index
    BY <1>2, SummaryFacts, IndexOfModules DEF Index
<1>7. parse_blocked \in BOOLEAN
    BY <1>2, FullReportFacts
<1>8. TypeOK
    <2>1. /\ project_documents \in [Paths -> (UNION {TextsOf[path] : path \in Paths}) \cup {Absent}]
          /\ \A path \in Paths : project_documents[path] \in TextsOf[path] \cup {Absent}
          /\ support_disk = [module \in SupportModules |-> Absent]
          /\ support_index = NotLoaded /\ support_documents = << >> /\ active_support = {}
          /\ degraded = FALSE
        BY DEF Init
    <2>2. AreSupport(support_documents)
        BY <2>1, NothingCached
    <2>3. QED  BY <1>5, <1>6, <1>7, <2>1, <2>2 DEF TypeOK, AreSupport
<1>9. SupportLoaded
    BY DEF SupportLoaded, Init
<1>10. QED  BY <1>4, <1>8, <1>9 DEF IInv

\* An edit, or an update of the support files: the types of what it leaves.
LEMMA UpdateType ==
    ASSUME TypeOK, NEW files, project_documents' = files, IsProject(files),
           NEW index, IsIndex(index), NEW cached, AreSupport(cached),
           cached # << >> => active_support \subseteq DOMAIN cached,
           NEW direct, NEW force \in BOOLEAN,
           SyncAndRebuild(files, index, cached, direct, force), UNCHANGED support_disk
    PROVE  TypeOK'
<1>1. PICK synced \in SyncSupport(files, index, cached) :
        /\ support_index' = synced.index
        /\ support_documents' = synced.loaded
        /\ active_support' = synced.active
        /\ \/ synced.ok /\ Rebuild(files, synced.loaded, synced.active, direct, force)
           \/ ~synced.ok /\ degraded' = TRUE /\ UNCHANGED results
    BY DEF SyncAndRebuild
<1>2. /\ IsIndex(synced.index)
      /\ AreSupport(synced.loaded)
      /\ Extends(synced.loaded, cached)
      /\ synced.ok => synced.active \subseteq DOMAIN synced.loaded
      /\ ~synced.ok => StaysInUse(synced.active, cached)
    <2>1. /\ DOMAIN support_disk = SupportModules
          /\ \A module \in SupportModules : support_disk[module] \in SupportTexts[module] \cup {Absent}
        BY DEF TypeOK
    <2>2. QED  BY <2>1, SyncFacts
<1>3. active_support' \subseteq DOMAIN support_documents'
    BY <1>1, <1>2 DEF Extends, StaysInUse
<1>4. /\ DOMAIN incremental' = DOMAIN dependency_index'
      /\ rechecked' \subseteq DOMAIN check_diagnostics'
      /\ parse_blocked' \in BOOLEAN
      /\ degraded' \in BOOLEAN
    <2>1. CASE synced.ok
        BY <1>1, <2>1, RebuildType DEF TypeOK
    <2>2. CASE ~synced.ok
        BY <1>1, <2>2 DEF results, TypeOK
    <2>3. QED  BY <2>1, <2>2
<1>5. QED  BY <1>1, <1>2, <1>3, <1>4 DEF TypeOK, IsProject, IsIndex, AreSupport

LEMMA EditedProject ==
    ASSUME TypeOK, NEW path \in Paths, NEW text \in TextsOf[path] \cup {Absent}
    PROVE  IsProject([project_documents EXCEPT ![path] = text])
<1> DEFINE edited == [project_documents EXCEPT ![path] = text]
           any == (UNION {TextsOf[other] : other \in Paths}) \cup {Absent}
<1>1. /\ project_documents \in [Paths -> any]
      /\ \A other \in Paths : project_documents[other] \in TextsOf[other] \cup {Absent}
    BY DEF TypeOK
<1>2. text \in any
    <2>1. TextsOf[path] \in {TextsOf[other] : other \in Paths}
        OBVIOUS
    <2>2. QED  BY <2>1
<1>3. edited \in [Paths -> any]
    <2> HIDE DEF any
    <2> QED  BY <1>1, <1>2
<1>4. \A other \in Paths : edited[other] = IF other = path THEN text ELSE project_documents[other]
    <2> HIDE DEF any
    <2> QED  BY <1>1
<1>5. QED
    <2> HIDE DEF edited
    <2> QED  BY <1>1, <1>3, <1>4 DEF IsProject

LEMMA TypeStep ==
    ASSUME TypeOK, [Next]_vars
    PROVE  TypeOK'
<1>1. ASSUME NEW path \in Paths, NEW text \in TextsOf[path] \cup {Absent},
             UpdateProjectDocument(path, text)
      PROVE  TypeOK'
    <2>1. IsProject([project_documents EXCEPT ![path] = text])
        BY EditedProject
    <2>2. PICK direct :
            /\ project_documents' = [project_documents EXCEPT ![path] = text]
            /\ SyncAndRebuild([project_documents EXCEPT ![path] = text], support_index,
                              support_documents, direct, FALSE)
            /\ UNCHANGED support_disk
        BY <1>1 DEF UpdateProjectDocument
    <2>3. /\ IsIndex(support_index) /\ AreSupport(support_documents)
          /\ active_support \subseteq DOMAIN support_documents
        BY DEF TypeOK, IsIndex, AreSupport
    <2>4. QED  BY <2>1, <2>2, <2>3, UpdateType
<1>2. CASE UpdateSupportFile
    <2>1. /\ SyncAndRebuild(project_documents, NotLoaded, << >>, {}, TRUE)
          /\ UNCHANGED <<project_documents, support_disk>>
        BY <1>2 DEF UpdateSupportFile
    <2>2. IsProject(project_documents) /\ IsIndex(NotLoaded)
        BY DEF TypeOK, IsProject, IsIndex
    <2>3. QED  BY <2>1, <2>2, NothingCached, UpdateType
<1>3. ASSUME NEW module \in SupportModules, NEW text \in SupportTexts[module] \cup {Absent},
             SupportFileChanges(module, text)
      PROVE  TypeOK'
    BY <1>3 DEF SupportFileChanges, TypeOK, documents, results
<1>4. CASE UNCHANGED vars
    BY <1>4 DEF vars, documents, results, TypeOK
<1>5. QED  BY <1>1, <1>2, <1>3, <1>4 DEF Next
\* What UpdateProjectDocument and UpdateSupportFile have the workspace do.
LEMMA EditFacts ==
    ASSUME TypeOK, NEW path \in Paths, NEW text \in TextsOf[path] \cup {Absent},
           UpdateProjectDocument(path, text)
    PROVE  \E edited, direct :
              /\ project_documents' = edited
              /\ IsProject(edited)
              /\ edited[path] = text
              /\ \A other \in Paths : other # path => edited[other] = project_documents[other]
              /\ direct = {ModuleOf[path]} \/ (direct = {} /\ edited[path] = project_documents[path])
              /\ SyncAndRebuild(edited, support_index, support_documents, direct, FALSE)
              /\ UNCHANGED support_disk
<1> DEFINE edited == [project_documents EXCEPT ![path] = text]
           direct == IF text = Absent /\ project_documents[path] = Absent
                     THEN {} ELSE {ModuleOf[path]}
<1>1. /\ project_documents' = edited
      /\ SyncAndRebuild(edited, support_index, support_documents, direct, FALSE)
      /\ UNCHANGED support_disk
    BY DEF UpdateProjectDocument
<1>2. IsProject(edited)
    BY EditedProject
<1>3. \A other \in Paths : edited[other] = IF other = path THEN text ELSE project_documents[other]
    BY DEF TypeOK
<1> HIDE DEF edited
<1>4. direct = {ModuleOf[path]} \/ (direct = {} /\ edited[path] = project_documents[path])
    BY <1>3
<1> HIDE DEF direct
<1>5. QED  BY <1>1, <1>2, <1>3, <1>4

\* An edit of a path, after which the support modules that are in use are loaded.
LEMMA EditTells ==
    ASSUME TypeOK, ResultsTell, ~degraded,
           NEW path \in Paths, NEW edited, project_documents' = edited, IsProject(edited),
           \A other \in Paths : other # path => edited[other] = project_documents[other],
           NEW direct,
           direct = {ModuleOf[path]} \/ (direct = {} /\ edited[path] = project_documents[path]),
           AreSupport(support_documents'), Extends(support_documents', support_documents),
           active_support' \subseteq DOMAIN support_documents',
           Rebuild(edited, support_documents', active_support', direct, FALSE)
    PROVE  ResultsTell'
<1> DEFINE workspace == Workspace(edited, support_documents', active_support')
           previous == Workspace(project_documents, support_documents, active_support)
<1>1. /\ IsProject(project_documents) /\ AreSupport(support_documents)
      /\ active_support \subseteq DOMAIN support_documents
    BY DEF TypeOK, IsProject, AreSupport
<1>2. IsWorkspace(previous) /\ IsWorkspace(workspace)
    BY <1>1, WorkspaceImports
<1>3. /\ incremental = Summaries(previous)
      /\ dependency_index = Index(previous)
      /\ ~parse_blocked => Tell(check_diagnostics, previous)
    BY DEF ResultsTell, Checked
<1>4. \A module \in DOMAIN previous \cap DOMAIN workspace :
            previous[module] # workspace[module] => module \in direct
    <2>1. ASSUME NEW module \in DOMAIN previous \cap DOMAIN workspace, module \notin direct
          PROVE  workspace[module] = previous[module]
        <3>1. module # ModuleOf[path] \/ edited[path] = project_documents[path]
            BY <2>1
        <3>2. QED  BY <1>1, <3>1, OtherTextsStay
    <2>2. QED  BY <2>1
<1> HIDE DEF previous, workspace
<1>5. /\ incremental' = Summaries(workspace)
      /\ dependency_index' = Index(workspace)
      /\ SummarizedReport(published)' = SummarizedReport(FullReport(edited, workspace))
      /\ parse_blocked' = FullReport(edited, workspace).blocked
      /\ ~parse_blocked' => Tell(check_diagnostics', workspace)
    <2>1. workspace = Workspace(edited, support_documents', active_support')
        BY DEF workspace
    <2>2. Continues(previous, workspace, direct)
        BY <1>2, <1>3, <1>4 DEF Continues
    <2>3. QED  BY <1>2, <2>1, <2>2, RebuildTells
<1>6. Checked' = workspace
    BY DEF workspace, Checked
<1>7. QED  BY <1>5, <1>6 DEF ResultsTell

\* A forced rebuild has the results of the documents, whatever was there before.
LEMMA ForcedTells ==
    ASSUME IsProject(project_documents), UNCHANGED project_documents,
           AreSupport(support_documents'), active_support' \subseteq DOMAIN support_documents',
           Rebuild(project_documents, support_documents', active_support', {}, TRUE)
    PROVE  ResultsTell'
<1> DEFINE workspace == Workspace(project_documents, support_documents', active_support')
<1>1. IsWorkspace(workspace)
    BY WorkspaceImports
<1>2. workspace = Workspace(project_documents, support_documents', active_support')
    OBVIOUS
<1> HIDE DEF workspace
<1>3. /\ incremental' = Summaries(workspace)
      /\ dependency_index' = Index(workspace)
      /\ SummarizedReport(published)' = SummarizedReport(FullReport(project_documents, workspace))
      /\ parse_blocked' = FullReport(project_documents, workspace).blocked
      /\ ~parse_blocked' => Tell(check_diagnostics', workspace)
    BY <1>1, <1>2, RebuildTells
<1>4. Checked' = workspace
    BY <1>2 DEF Checked
<1>5. QED  BY <1>3, <1>4 DEF ResultsTell

\* How a load and the rebuild after it come out.
LEMMA SyncRebuildFacts ==
    ASSUME TypeOK, NEW files, NEW index, IsIndex(index), NEW cached, AreSupport(cached),
           NEW direct, NEW force \in BOOLEAN, SyncAndRebuild(files, index, cached, direct, force),
           ~degraded'
    PROVE  /\ Rebuild(files, support_documents', active_support', direct, force)
           /\ AreSupport(support_documents') /\ Extends(support_documents', cached)
           /\ active_support' \subseteq DOMAIN support_documents'
           /\ ~force => ~degraded
           /\ ExternalTargets(files) = {} => active_support' = {}
           /\ ExternalTargets(files) # {} =>
                /\ support_index' \in SUBSET SupportModules
                /\ support_index' = IF index = NotLoaded THEN OnDisk ELSE index
                /\ active_support' = Wanted(files, support_index',
                      [module \in SupportModules |->
                        IF module \in DOMAIN cached THEN cached[module] ELSE support_disk[module]])
                /\ [module \in SupportModules |->
                        IF module \in DOMAIN support_documents'
                        THEN support_documents'[module] ELSE support_disk[module]]
                    = [module \in SupportModules |->
                        IF module \in DOMAIN cached THEN cached[module] ELSE support_disk[module]]
<1>1. PICK synced \in SyncSupport(files, index, cached) :
        /\ support_index' = synced.index
        /\ support_documents' = synced.loaded
        /\ active_support' = synced.active
        /\ synced.ok
        /\ Rebuild(files, synced.loaded, synced.active, direct, force)
    BY DEF SyncAndRebuild
<1>2. /\ DOMAIN support_disk = SupportModules
      /\ \A module \in SupportModules : support_disk[module] \in SupportTexts[module] \cup {Absent}
    BY DEF TypeOK
<1>3. /\ AreSupport(synced.loaded)
      /\ Extends(synced.loaded, cached)
      /\ synced.ok => synced.active \subseteq DOMAIN synced.loaded
    BY <1>2, SyncFacts
<1>4. ~force => ~degraded
    BY <1>1, RebuildType DEF TypeOK
<1>5. ExternalTargets(files) = {} => active_support' = {}
    BY <1>1, SyncIdles
<1>6. CASE ExternalTargets(files) # {}
    <2>1. /\ synced.index \in SUBSET SupportModules
          /\ synced.index = IF index = NotLoaded THEN OnDisk ELSE index
          /\ synced.active = Wanted(files, synced.index,
                [module \in SupportModules |->
                    IF module \in DOMAIN cached THEN cached[module] ELSE support_disk[module]])
          /\ [module \in SupportModules |->
                    IF module \in DOMAIN synced.loaded
                    THEN synced.loaded[module] ELSE support_disk[module]]
                = [module \in SupportModules |->
                    IF module \in DOMAIN cached THEN cached[module] ELSE support_disk[module]]
        BY <1>1, <1>6, SyncLoads
    <2>2. QED  BY <1>1, <1>3, <1>4, <1>6, <2>1
<1>7. CASE ExternalTargets(files) = {}
    BY <1>1, <1>3, <1>4, <1>5, <1>7
<1>8. QED  BY <1>6, <1>7

LEMMA ResultsStep ==
    ASSUME IInv, [Next]_vars
    PROVE  ResultsTell'
<1> USE DEF IInv
<1>1. ASSUME NEW path \in Paths, NEW text \in TextsOf[path] \cup {Absent},
             UpdateProjectDocument(path, text)
      PROVE  ResultsTell'
    <2> SUFFICES ASSUME ~degraded' PROVE ResultsTell'
        BY DEF ResultsTell
    <2>1. PICK edited, direct :
            /\ project_documents' = edited
            /\ IsProject(edited)
            /\ edited[path] = text
            /\ \A other \in Paths : other # path => edited[other] = project_documents[other]
            /\ direct = {ModuleOf[path]} \/ (direct = {} /\ edited[path] = project_documents[path])
            /\ SyncAndRebuild(edited, support_index, support_documents, direct, FALSE)
            /\ UNCHANGED support_disk
        BY <1>1, EditFacts
    <2>2. IsIndex(support_index) /\ AreSupport(support_documents)
        BY DEF TypeOK, IsIndex, AreSupport
    <2>3. /\ Rebuild(edited, support_documents', active_support', direct, FALSE)
          /\ AreSupport(support_documents') /\ Extends(support_documents', support_documents)
          /\ active_support' \subseteq DOMAIN support_documents'
          /\ ~degraded
        BY <2>1, <2>2, SyncRebuildFacts
    <2>4. QED  BY <2>1, <2>3, EditTells
<1>2. CASE UpdateSupportFile
    <2> SUFFICES ASSUME ~degraded' PROVE ResultsTell'
        BY DEF ResultsTell
    <2>1. /\ SyncAndRebuild(project_documents, NotLoaded, << >>, {}, TRUE)
          /\ UNCHANGED project_documents
        BY <1>2 DEF UpdateSupportFile
    <2>2. IsIndex(NotLoaded) /\ IsProject(project_documents)
        BY DEF TypeOK, IsIndex, IsProject
    <2>3. /\ Rebuild(project_documents, support_documents', active_support', {}, TRUE)
          /\ AreSupport(support_documents')
          /\ active_support' \subseteq DOMAIN support_documents'
        BY <2>1, <2>2, NothingCached, SyncRebuildFacts
    <2>4. QED  BY <2>1, <2>2, <2>3, ForcedTells
<1>3. CASE UNCHANGED <<documents, results, degraded>>
    <2>1. UNCHANGED <<project_documents, support_documents, active_support, incremental,
                      dependency_index, check_diagnostics, parse_blocked, published, degraded>>
        BY <1>3 DEF documents, results
    <2>2. Checked' = Checked /\ SummarizedReport(published)' = SummarizedReport(published)
        BY <2>1 DEF Checked, SummarizedReport
    <2>3. QED  BY <2>1, <2>2 DEF ResultsTell
<1>4. QED
    BY <1>1, <1>2, <1>3 DEF Next, SupportFileChanges, vars

\* The texts read stay those of what is in use, whatever happens to the files.
LEMMA SupportStep ==
    ASSUME IInv, [Next]_vars
    PROVE  SupportLoaded'
<1> USE DEF IInv
<1>1. ASSUME NEW files, project_documents' = files,
             NEW index, IsIndex(index), NEW cached, AreSupport(cached),
             NEW direct, NEW force \in BOOLEAN, SyncAndRebuild(files, index, cached, direct, force),
             UNCHANGED support_disk
      PROVE  SupportLoaded'
    <2> SUFFICES ASSUME ~degraded' PROVE SupportLoaded'
        BY DEF SupportLoaded
    <2> DEFINE texts == [module \in SupportModules |->
                    IF module \in DOMAIN cached THEN cached[module] ELSE support_disk[module]]
    <2>1. /\ ExternalTargets(files) = {} => active_support' = {}
          /\ ExternalTargets(files) # {} =>
                /\ support_index' \in SUBSET SupportModules
                /\ active_support' = Wanted(files, support_index', texts)
                /\ [module \in SupportModules |->
                        IF module \in DOMAIN support_documents'
                        THEN support_documents'[module] ELSE support_disk[module]] = texts
        BY <1>1, SyncRebuildFacts
    <2>2. ExternalTargets(project_documents)' = ExternalTargets(files)
        BY <1>1 DEF ExternalTargets, Present, ProjectModules
    <2>3. CASE ExternalTargets(files) = {}
        BY <2>1, <2>2, <2>3 DEF SupportLoaded
    <2>4. CASE ExternalTargets(files) # {}
        <3>1. TextsRead' = texts
            BY <1>1, <2>1, <2>4 DEF TextsRead
        <3>2. support_index' # NotLoaded
            BY <2>1, <2>4, WorkspaceAssumption
        <3> HIDE DEF texts
        <3>3. active_support' = Wanted(project_documents, support_index, TextsRead)'
            BY <1>1, <2>1, <2>4, <3>1
        <3>4. QED  BY <2>2, <2>4, <3>2, <3>3 DEF SupportLoaded
    <2>5. QED  BY <2>3, <2>4
<1>2. ASSUME NEW path \in Paths, NEW text \in TextsOf[path] \cup {Absent},
             UpdateProjectDocument(path, text)
      PROVE  SupportLoaded'
    <2>1. PICK edited, direct :
            /\ project_documents' = edited
            /\ SyncAndRebuild(edited, support_index, support_documents, direct, FALSE)
            /\ UNCHANGED support_disk
        BY <1>2, EditFacts
    <2>2. IsIndex(support_index) /\ AreSupport(support_documents)
        BY DEF TypeOK, IsIndex, AreSupport
    <2>3. QED  BY <1>1, <2>1, <2>2
<1>3. CASE UpdateSupportFile
    <2>1. /\ SyncAndRebuild(project_documents, NotLoaded, << >>, {}, TRUE)
          /\ UNCHANGED <<project_documents, support_disk>>
        BY <1>3 DEF UpdateSupportFile
    <2>2. IsIndex(NotLoaded)
        BY DEF IsIndex
    <2>3. QED  BY <1>1, <2>1, <2>2, NothingCached
<1>4. CASE UNCHANGED <<documents, results, degraded>>
    <2> SUFFICES ASSUME ~degraded PROVE SupportLoaded'
        BY <1>4 DEF SupportLoaded
    <2>1. UNCHANGED <<project_documents, support_index, support_documents, active_support>>
        BY <1>4 DEF documents
    <2>2. CASE ExternalTargets(project_documents) = {}
        BY <2>1, <2>2 DEF SupportLoaded
    <2>3. CASE ExternalTargets(project_documents) # {}
        <3>1. /\ support_index # NotLoaded /\ support_index \in SUBSET SupportModules
              /\ active_support = Wanted(project_documents, support_index, TextsRead)
            BY <2>3 DEF SupportLoaded, TypeOK
        <3>2. \A module \in active_support : TextsRead'[module] = TextsRead[module]
            BY <2>1 DEF TypeOK, TextsRead
        <3>3. Wanted(project_documents, support_index, TextsRead')
                = Wanted(project_documents, support_index, TextsRead)
            BY <3>1, <3>2, WantedStays
        <3>4. QED  BY <2>1, <2>3, <3>1, <3>3 DEF SupportLoaded
    <2>4. QED  BY <2>2, <2>3
<1>5. QED
    BY <1>2, <1>3, <1>4 DEF Next, SupportFileChanges, vars
\* Where no summary changed, the plan is the direct changes.
LEMMA NothingMore ==
    ASSUME NEW previous, NEW current, NEW direct
    PROVE  Affected(previous, current, direct, {}) = direct
<1> DEFINE importers == [module \in DOMAIN previous \cup DOMAIN current |->
                            ReverseImporters(previous, current, module)]
<1>1. Closure({}, importers) = {}
    <2> HIDE DEF importers
    <2>1. {} \in SUBSET DOMAIN importers /\ {} \subseteq {}
        OBVIOUS
    <2>2. Closure({}, importers) \subseteq {}
        BY <2>1, ClosureIsLeast
    <2>3. QED  BY <2>2
<1>2. QED  BY <1>1 DEF Affected

\* An edit whose text has the same imports leaves what is wanted from outside, and
\* what the workspace holds.
LEMMA SameTargets ==
    ASSUME NEW files, NEW edited, NEW path \in Paths,
           IsProject(files), IsProject(edited),
           files[path] # Absent, edited[path] # Absent,
           Summary(files[path]) = Summary(edited[path]),
           \A other \in Paths : other # path => edited[other] = files[other]
    PROVE  /\ ProjectModules(edited) = ProjectModules(files)
           /\ ExternalTargets(edited) = ExternalTargets(files)
<1>1. Present(edited) = Present(files)
    BY DEF Present
<1>2. ProjectModules(edited) = ProjectModules(files)
    BY <1>1 DEF ProjectModules
<1>3. files[path].imports = edited[path].imports
    BY DEF Summary
<1>4. \A other \in Present(files) : edited[other].imports = files[other].imports
    BY <1>3 DEF Present
<1>5. UNION {edited[other].imports : other \in Present(edited)}
        = UNION {files[other].imports : other \in Present(files)}
    BY <1>1, <1>4
<1>6. QED  BY <1>2, <1>5 DEF ExternalTargets

\* Nor does it leave another summary of any module.
LEMMA SameSummaries ==
    ASSUME NEW files, NEW edited, NEW path \in Paths, IsProject(files), IsProject(edited),
           files[path] # Absent, edited[path] # Absent,
           Summary(files[path]) = Summary(edited[path]),
           \A other \in Paths : other # path => edited[other] = files[other],
           NEW loaded, NEW later, AreSupport(loaded), AreSupport(later), Extends(later, loaded),
           NEW active \in SUBSET DOMAIN loaded, active \subseteq DOMAIN later
    PROVE  Summaries(Workspace(edited, later, active)) = Summaries(Workspace(files, loaded, active))
<1> DEFINE previous == Workspace(files, loaded, active)
           workspace == Workspace(edited, later, active)
<1>1. Present(edited) = Present(files)
    BY DEF Present
<1>2. ProjectModules(edited) = ProjectModules(files)
    BY <1>1 DEF ProjectModules
<1>3. ASSUME NEW module \in ProjectModules(files)
      PROVE  Summary(workspace[module]) = Summary(previous[module])
    <2>1. SpellingsOf(edited, module) = SpellingsOf(files, module)
        BY <1>1 DEF SpellingsOf
    <2>2. PICK one \in Present(files) :
            /\ one = CHOOSE spelling \in SpellingsOf(files, module) : TRUE
            /\ previous[module] = files[one]
        BY ProjectText
    <2>3. PICK other \in Present(edited) :
            /\ other = CHOOSE spelling \in SpellingsOf(edited, module) : TRUE
            /\ workspace[module] = edited[other]
        BY <1>2, ProjectText
    <2>4. one = other /\ one \in Paths
        BY <2>1, <2>2, <2>3 DEF Present
    <2>5. CASE one = path
        BY <2>2, <2>3, <2>4, <2>5
    <2>6. CASE one # path
        BY <2>2, <2>3, <2>4, <2>6
    <2>7. QED  BY <2>5, <2>6
<1>4. ASSUME NEW module \in active, module \notin ProjectModules(files)
      PROVE  Summary(workspace[module]) = Summary(previous[module])
    <2>1. previous[module] = loaded[module]
        BY <1>4, SupportText
    <2>2. workspace[module] = later[module]
        BY <1>2, <1>4, SupportText
    <2>3. QED  BY <2>1, <2>2 DEF Extends
<1>5. DOMAIN previous = ProjectModules(files) \cup active /\ DOMAIN workspace = DOMAIN previous
    <2>1. DOMAIN previous = ProjectModules(files) \cup active
        BY WorkspaceDomain
    <2>2. DOMAIN workspace = ProjectModules(edited) \cup active
        BY WorkspaceDomain
    <2> HIDE DEF previous, workspace
    <2>3. QED  BY <1>2, <2>1, <2>2
<1> HIDE DEF previous, workspace
<1>6. \A module \in DOMAIN workspace : Summary(workspace[module]) = Summary(previous[module])
    BY <1>3, <1>4, <1>5
<1>7. QED
    <2>1. Summaries(workspace) = [module \in DOMAIN workspace |-> Summary(workspace[module])]
        BY DEF Summaries, ReusedSummaries
    <2>2. Summaries(previous) = [module \in DOMAIN previous |-> Summary(previous[module])]
        BY DEF Summaries, ReusedSummaries
    <2>3. QED  BY <1>5, <1>6, <2>1, <2>2 DEF previous, workspace

\* The load that follows such an edit succeeds, and finds in the cache what was in use.
LEMMA SameSupport ==
    ASSUME TypeOK, SupportLoaded, ~degraded,
           NEW edited, ExternalTargets(edited) = ExternalTargets(project_documents),
           NEW synced \in SyncSupport(edited, support_index, support_documents)
    PROVE  synced.ok /\ synced.active = active_support
<1>1. CASE ExternalTargets(edited) = {}
    BY <1>1, SyncIdles DEF SupportLoaded
<1>2. CASE ExternalTargets(edited) # {}
    <2> DEFINE wanted == Wanted(edited, support_index, TextsRead)
    <2>1. /\ support_index # NotLoaded /\ support_index \in SUBSET SupportModules
          /\ active_support = Wanted(project_documents, support_index, TextsRead)
        BY <1>2 DEF SupportLoaded, TypeOK
    <2>2. wanted = active_support
        BY <2>1, WantedStays
    <2>3. \A module \in active_support : TextsRead[module] # Absent
        BY WorkspaceAssumption DEF TypeOK, TextsRead
    <2>4. {module \in wanted : TextsRead[module] # Absent} = wanted
        BY <2>2, <2>3
    <2>5. \E loaded : synced = [ok |-> TRUE, index |-> support_index, loaded |-> loaded, active |-> wanted]
        <3> HIDE DEF wanted
        <3>1. QED  BY <1>2, <2>1, <2>4 DEF SyncSupport, TextsRead, wanted
    <2>6. QED  BY <2>2, <2>5
<1>3. QED  BY <1>1, <1>2

\* An edit that no public summary shows rechecks the edited module alone.
LEMMA EditIsLocal ==
    ASSUME IInv, ~degraded, ~parse_blocked, NEW path \in Paths,
           NEW text \in TextsOf[path], UpdateProjectDocument(path, text),
           project_documents[path] # Absent,
           Summary(project_documents[path]) = Summary(text)
    PROVE  rechecked' \subseteq {ModuleOf[path]}
<1> USE DEF IInv
<1>1. PICK edited, direct :
            /\ project_documents' = edited
            /\ IsProject(edited)
            /\ edited[path] = text
            /\ \A other \in Paths : other # path => edited[other] = project_documents[other]
            /\ direct = {ModuleOf[path]} \/ (direct = {} /\ edited[path] = project_documents[path])
            /\ SyncAndRebuild(edited, support_index, support_documents, direct, FALSE)
    BY EditFacts
<1>2. /\ IsProject(project_documents) /\ AreSupport(support_documents) /\ IsIndex(support_index)
      /\ active_support \subseteq DOMAIN support_documents
      /\ DOMAIN support_disk = SupportModules
      /\ \A module \in SupportModules : support_disk[module] \in SupportTexts[module] \cup {Absent}
    BY DEF TypeOK, IsProject, AreSupport, IsIndex
<1>3. text # Absent
    BY WorkspaceAssumption
<1>4. ExternalTargets(edited) = ExternalTargets(project_documents)
    BY <1>1, <1>2, <1>3, SameTargets
<1>5. PICK synced \in SyncSupport(edited, support_index, support_documents) :
        synced.ok => Rebuild(edited, synced.loaded, synced.active, direct, FALSE)
    BY <1>1 DEF SyncAndRebuild
<1>6. synced.ok /\ synced.active = active_support
    BY <1>4, SameSupport
<1>7. AreSupport(synced.loaded) /\ Extends(synced.loaded, support_documents)
    BY <1>2, SyncFacts
<1> DEFINE previous == Workspace(project_documents, support_documents, active_support)
           workspace == Workspace(edited, synced.loaded, active_support)
<1>8. Rebuild(edited, synced.loaded, active_support, direct, FALSE)
    BY <1>5, <1>6
<1>9. active_support \subseteq DOMAIN synced.loaded
    BY <1>2, <1>7 DEF Extends
<1>10. Summaries(workspace) = Summaries(previous)
    BY <1>1, <1>2, <1>3, <1>7, <1>9, SameSummaries
<1>11. incremental = Summaries(previous)
    BY DEF ResultsTell, Checked
<1> DEFINE current == IF FALSE \/ incremental = << >>
                      THEN Summaries(workspace)
                      ELSE ReusedSummaries(workspace, incremental, direct)
<1>12. rechecked' \subseteq ToRecheck(DOMAIN workspace, current, Index(workspace), direct, FALSE)
    BY <1>8 DEF Rebuild
<1>13. current = Summaries(previous)
    <2> HIDE DEF previous, workspace
    <2>1. ReusedSummaries(workspace, Summaries(previous), direct) = Summaries(workspace)
        <3>1. \A module \in DOMAIN workspace :
                DOMAIN Summaries(previous) = DOMAIN workspace
                    /\ Summaries(previous)[module] = Summary(workspace[module])
            BY <1>10, SummaryFacts
        <3>2. QED  BY <3>1 DEF Summaries, ReusedSummaries
    <2>2. QED  BY <1>10, <1>11, <2>1
<1> HIDE DEF current
<1>14. DiffModules(incremental, current) = {}
    BY <1>11, <1>13 DEF DiffModules
<1>15. rechecked' \subseteq Affected(dependency_index, Index(workspace), direct, {})
    BY <1>12, <1>14 DEF ToRecheck
<1>16. rechecked' \subseteq direct
    BY <1>15, NothingMore
<1>17. QED  BY <1>1, <1>16
-----------------------------------------------------------------------------
\* After any sequence of edits and of changes to the support files.
THEOREM WorkspaceInvariant == Spec => []IInv
<1>1. IInv /\ [Next]_vars => IInv'
    <2>1. ASSUME IInv, [Next]_vars PROVE IInv'
        BY <2>1, TypeStep, ResultsStep, SupportStep DEF IInv
    <2>2. QED  BY <2>1
<1>2. QED  BY <1>1, InitIsSound, PTL DEF Spec

\* Type correctness of the workspace for any project and any support modules.
THEOREM TypeCorrect == Spec => []TypeOK
<1>1. IInv => TypeOK
    BY DEF IInv
<1>2. QED  BY <1>1, WorkspaceInvariant, PTL

\* What rebuild_state tells the editor has a result of every module, made from its
\* text and the summaries of all it reaches as they are, until an update has failed.
THEOREM IncrementalTellsAsSummarized == Spec => []PublishedAsSummarized
<1>1. IInv => PublishedAsSummarized
    BY DEF IInv, ResultsTell, PublishedAsSummarized
<1>2. QED  BY <1>1, WorkspaceInvariant, PTL

\* A change of a body rechecks its module alone, however large the project is.
THEOREM ImplementationIsLocal == Spec => ImplementationChangeIsLocal
<1> DEFINE Local(path) ==
        ( /\ ~degraded /\ ~parse_blocked
          /\ Absent \notin {project_documents[path], project_documents'[path]}
          /\ project_documents[path] # project_documents'[path]
          /\ Summary(project_documents[path]) = Summary(project_documents'[path]) )
            => rechecked' \subseteq {ModuleOf[path]}
<1>1. ASSUME IInv, Next, NEW path \in Paths PROVE Local(path)
    <2> SUFFICES ASSUME ~degraded, ~parse_blocked,
                        Absent \notin {project_documents[path], project_documents'[path]},
                        project_documents[path] # project_documents'[path],
                        Summary(project_documents[path]) = Summary(project_documents'[path])
                 PROVE  rechecked' \subseteq {ModuleOf[path]}
        OBVIOUS
    <2>1. PICK edited \in Paths : \E text \in TextsOf[edited] \cup {Absent} :
            UpdateProjectDocument(edited, text)
        BY <1>1 DEF Next, UpdateSupportFile, SupportFileChanges, documents
    <2>2. PICK text \in TextsOf[edited] \cup {Absent} : UpdateProjectDocument(edited, text)
        BY <2>1
    <2>3. /\ project_documents'[edited] = text
          /\ \A other \in Paths : other # edited => project_documents'[other] = project_documents[other]
        <3>1. TypeOK
            BY <1>1 DEF IInv
        <3>2. PICK files, direct :
                /\ project_documents' = files
                /\ IsProject(files)
                /\ files[edited] = text
                /\ \A other \in Paths : other # edited => files[other] = project_documents[other]
                /\ direct = {ModuleOf[edited]} \/ (direct = {} /\ files[edited] = project_documents[edited])
                /\ SyncAndRebuild(files, support_index, support_documents, direct, FALSE)
                /\ UNCHANGED support_disk
            BY <2>2, <3>1, EditFacts
        <3>3. QED  BY <3>2
    <2>4. edited = path
        BY <2>3
    <2>5. QED  BY <1>1, <2>2, <2>3, <2>4, EditIsLocal
<1>2. IInv /\ [Next]_vars => [\A path \in Paths : Local(path)]_vars
    BY <1>1
<1>3. QED  BY <1>2, WorkspaceInvariant, PTL DEF Spec, ImplementationChangeIsLocal
=============================================================================
