---------------------------- MODULE LspWorkspace ----------------------------
(***************************************************************************)
(* The language server's incremental workspace: crates/typepython_lsp/src/ *)
(* workspace/lifecycle.rs.                                                 *)
(*                                                                         *)
(* Each document event gives one project path a new text (from an overlay  *)
(* or the disk) or removes it; the workspace then loads the support        *)
(* modules the project imports and rebuilds its state, rechecking as       *)
(* little as it can.  Support files change on disk without being asked.    *)
(***************************************************************************)
EXTENDS IncrementalCheck

CONSTANTS
    Paths,             \* project files
    ModuleOf,          \* the module each is, by its path under a source root
    TextsOf,           \* per path, the texts its file or overlay may hold
    SupportModules,    \* modules outside the project: stubs, installed packages
    SupportTexts,      \* per support module, the texts its file may hold
    Absent,            \* no such file
    NotLoaded          \* no support index yet

ASSUME WorkspaceAssumption ==
    /\ ModuleOf \in [Paths -> Seq(STRING)]
    /\ DOMAIN TextsOf = Paths
    /\ DOMAIN SupportTexts = SupportModules
    /\ \A path \in Paths : ModuleOf[path] \notin SupportModules
    /\ \A path \in Paths : \A text \in TextsOf[path] : text.imports \subseteq Seq(STRING)
    /\ \A module \in SupportModules : \A text \in SupportTexts[module] :
            text.imports \subseteq Seq(STRING)
    /\ Absent \notin UNION {TextsOf[path] : path \in Paths}
    /\ Absent \notin UNION {SupportTexts[module] : module \in SupportModules}
    /\ \A index \in SUBSET SupportModules : index # NotLoaded

VARIABLES
    project_documents,          \* per path, the text read last, or Absent
    support_disk,               \* per support module, its file as it is
    support_index,              \* SupportSourceCatalog.index
    support_documents,          \* the support modules parsed so far
    active_support,             \* active_support_paths
    incremental,                \* the summaries of the last rebuild
    dependency_index,
    check_diagnostics,          \* check_diagnostics_by_module
    parse_blocked,
    published,                  \* state.diagnostics_by_uri
    rechecked,                  \* the modules the last rebuild ran the checker on
    degraded                    \* has an update failed since the last forced rebuild?

documents == <<project_documents, support_index, support_documents, active_support>>
results ==
    <<incremental, dependency_index, check_diagnostics, parse_blocked, published, rechecked>>
vars == <<documents, results, support_disk, degraded>>
-----------------------------------------------------------------------------
(* The texts the checker sees. *)

Present(files) == {path \in Paths : files[path] # Absent}
SpellingsOf(files, module) == {path \in Present(files) : ModuleOf[path] = module}
ProjectModules(files) == {ModuleOf[path] : path \in Present(files)}

\* detect_module_collisions: two project files are one module.
Collides(files) ==
    \E one, other \in Present(files) : one # other /\ ModuleOf[one] = ModuleOf[other]

\* checking_syntax_trees.  While two files collide nothing is checked, and
\* either text may stand for the module.
Workspace(files, loaded, active) ==
    [module \in ProjectModules(files) \cup active |->
        IF module \in ProjectModules(files)
        THEN files[CHOOSE path \in SpellingsOf(files, module) : TRUE]
        ELSE loaded[module]]

Unparsed(workspace) == {module \in DOMAIN workspace : ~workspace[module].parses}

\* What a rebuild that checks everything would publish.
FullReport(files, workspace) ==
    IF Collides(files) \/ Unparsed(workspace) # {}
    THEN [blocked |-> TRUE, collides |-> Collides(files), report |-> Unparsed(workspace)]
    ELSE [blocked |-> FALSE, collides |-> FALSE, report |-> CheckAll(workspace)]
-----------------------------------------------------------------------------
(* sync_support_documents. *)

OnDisk == {module \in SupportModules : support_disk[module] # Absent}

ExternalTargets(files) ==
    {target \in UNION {files[path].imports : path \in Present(files)} :
        Prefixes(target) \cap ProjectModules(files) = {}}

\* queue_matching_support_modules: every enclosing package of a target.
Matching(index, targets) == index \cap UNION {Prefixes(target) : target \in targets}

\* load_support_queue follows the imports of what it loads.
Wanted(files, index, texts) ==
    Closure(Matching(index, ExternalTargets(files)),
            [module \in SupportModules |->
                IF texts[module] = Absent THEN {} ELSE Matching(index, texts[module].imports)])

\* How sync_support_documents may end.  A support document that is not cached
\* is read from the disk; the index may still name a file that is gone, and
\* then the load, and the update, fail with part of what was wanted in the
\* cache.
SyncSupport(files, index, cached) ==
    LET loaded_index == IF index = NotLoaded THEN OnDisk ELSE index
        texts == [module \in SupportModules |->
                    IF module \in DOMAIN cached THEN cached[module] ELSE support_disk[module]]
        wanted == Wanted(files, loaded_index, texts)
        readable == {module \in wanted : texts[module] # Absent}
        Cache(modules) == [module \in DOMAIN cached \cup modules |-> texts[module]]
    IN  IF ExternalTargets(files) = {}
        THEN {[ok |-> TRUE, index |-> index, loaded |-> cached, active |-> {}]}
        ELSE IF wanted = readable
        THEN {[ok |-> TRUE, index |-> loaded_index, loaded |-> Cache(wanted), active |-> wanted]}
        ELSE {[ok |-> FALSE, index |-> loaded_index, loaded |-> Cache(read),
               active |-> IF cached = << >> THEN {} ELSE active_support] : read \in SUBSET readable}
-----------------------------------------------------------------------------
(* rebuild_state. *)

\* Mutant of ToRecheck: what a blocked state left undone is forgotten.
ToRecheckAlways(modules, current, current_index, direct_changes, force_full_check) ==
    IF force_full_check
    THEN modules
    ELSE modules \cap Affected(dependency_index, current_index, direct_changes,
                               DiffModules(incremental, current))

\* Mutant of ToRecheck: whatever changed, its importers are rechecked.
ToRecheckImporters(modules, current, current_index, direct_changes, force_full_check) ==
    IF force_full_check \/ parse_blocked
    THEN modules
    ELSE modules \cap Affected(dependency_index, current_index, direct_changes,
                               direct_changes \cup DiffModules(incremental, current))

\* rechecked_modules: all of them if asked to, or if the last state could not
\* be checked.
ToRecheck(modules, current, current_index, direct_changes, force_full_check) ==
    IF force_full_check \/ parse_blocked
    THEN modules
    ELSE modules \cap Affected(dependency_index, current_index, direct_changes,
                               DiffModules(incremental, current))

Rebuild(files, loaded, active, direct_changes, force_full_check) ==
    LET workspace == Workspace(files, loaded, active)
        modules == DOMAIN workspace
        current ==
            IF force_full_check \/ incremental = << >>
            THEN Summaries(workspace)
            ELSE ReusedSummaries(workspace, incremental, direct_changes)
        current_index == Index(workspace)
        full == FullReport(files, workspace)
        affected == ToRecheck(modules, current, current_index, direct_changes, force_full_check)
        kept == DOMAIN check_diagnostics \cap modules
    IN  /\ rechecked' = IF full.blocked THEN {} ELSE affected
        /\ check_diagnostics' =
             [module \in kept \cup rechecked' |->
                IF module \in rechecked'
                THEN CheckOf(workspace, module)
                ELSE check_diagnostics[module]]
        /\ published' = IF full.blocked
                        THEN full
                        ELSE [blocked |-> FALSE, collides |-> FALSE, report |-> check_diagnostics']
        /\ incremental' = current
        /\ dependency_index' = current_index
        /\ parse_blocked' = full.blocked
        /\ degraded' = (degraded /\ ~force_full_check)

\* What follows update_project_document: load the support modules, then
\* rebuild, or return the error of the load with the results as they were.
SyncAndRebuild(files, index, cached, direct_changes, force_full_check) ==
    \E synced \in SyncSupport(files, index, cached) :
        /\ support_index' = synced.index
        /\ support_documents' = synced.loaded
        /\ active_support' = synced.active
        /\ \/ /\ synced.ok
              /\ Rebuild(files, synced.loaded, synced.active, direct_changes, force_full_check)
           \/ /\ ~synced.ok
              /\ degraded' = TRUE
              /\ UNCHANGED results
-----------------------------------------------------------------------------
\* apply_project_path_update (and apply_file_system_path_update of a project
\* file): didOpen, didChange and didClose give the path its next text.
UpdateProjectDocument(path, text) ==
    LET direct_changes == IF text = Absent /\ project_documents[path] = Absent
                          THEN {} ELSE {ModuleOf[path]}
    IN  /\ project_documents' = [project_documents EXCEPT ![path] = text]
        /\ SyncAndRebuild(project_documents', support_index, support_documents, direct_changes, FALSE)
        /\ UNCHANGED support_disk

\* apply_file_system_path_update of a file that may be a support source: the
\* support caches are dropped and a full check is forced.
UpdateSupportFile ==
    /\ SyncAndRebuild(project_documents, NotLoaded, << >>, {}, TRUE)
    /\ UNCHANGED <<project_documents, support_disk>>

\* A package is installed, upgraded or removed.
SupportFileChanges(module, text) ==
    /\ support_disk[module] # text
    /\ support_disk' = [support_disk EXCEPT ![module] = text]
    /\ UNCHANGED <<documents, results, degraded>>

\* IncrementalWorkspace::new, over the files on disk: the first rebuild is a
\* full one.
Init ==
    /\ project_documents \in [Paths -> (UNION {TextsOf[path] : path \in Paths}) \cup {Absent}]
    /\ \A path \in Paths : project_documents[path] \in TextsOf[path] \cup {Absent}
    /\ support_disk = [module \in SupportModules |-> Absent]
    /\ ExternalTargets(project_documents) = {}
    /\ support_index = NotLoaded
    /\ support_documents = << >>
    /\ active_support = {}
    /\ LET workspace == Workspace(project_documents, << >>, {})
           full == FullReport(project_documents, workspace)
       IN  /\ incremental = Summaries(workspace)
           /\ dependency_index = Index(workspace)
           /\ check_diagnostics = IF full.blocked THEN << >> ELSE full.report
           /\ parse_blocked = full.blocked
           /\ published = full
           /\ rechecked = IF full.blocked THEN {} ELSE DOMAIN workspace
    /\ degraded = FALSE

Next ==
    \/ \E path \in Paths : \E text \in TextsOf[path] \cup {Absent} :
        UpdateProjectDocument(path, text)
    \/ UpdateSupportFile
    \/ \E module \in SupportModules : \E text \in SupportTexts[module] \cup {Absent} :
        SupportFileChanges(module, text)

Spec == Init /\ [][Next]_vars
-----------------------------------------------------------------------------
TypeOK ==
    /\ project_documents \in [Paths -> (UNION {TextsOf[path] : path \in Paths}) \cup {Absent}]
    /\ \A path \in Paths : project_documents[path] \in TextsOf[path] \cup {Absent}
    /\ DOMAIN support_disk = SupportModules
    /\ \A module \in SupportModules : support_disk[module] \in SupportTexts[module] \cup {Absent}
    /\ support_index = NotLoaded \/ support_index \subseteq SupportModules
    /\ active_support \subseteq DOMAIN support_documents
    /\ DOMAIN support_documents \subseteq SupportModules
    /\ \A module \in DOMAIN support_documents : support_documents[module] \in SupportTexts[module]
    /\ DOMAIN incremental = DOMAIN dependency_index
    /\ rechecked \subseteq DOMAIN check_diagnostics
    /\ parse_blocked \in BOOLEAN
    /\ degraded \in BOOLEAN

Checked == Workspace(project_documents, support_documents, active_support)

SummarizedReport(state) ==
    IF state.blocked
    THEN state
    ELSE [state EXCEPT !.report = [module \in DOMAIN @ |-> AsSummarized(@[module])]]

\* After any sequence of edits, additions, removals, collisions and parse errors,
\* what the editor is told has, for each module there is, a result of its text as it
\* is and of the summaries as they are of all it reaches (rebuild_state).  What is
\* hidden from the summaries may have changed since: 6.1.2 has a summary hold enough
\* to tell when dependents must be rechecked (artifact-and-tooling-spec-v1.md:281),
\* and this one does not.  Until an update has failed: its direct changes are not
\* kept, and the next one publishes results of the older text (17.3.2, line 1029).
PublishedAsSummarized ==
    ~degraded => SummarizedReport(published) = SummarizedReport(FullReport(project_documents, Checked))

\* A change no public summary shows rechecks the changed module alone.  For one of a
\* hidden part this is less than its importers need; see PublishedAsSummarized.
ImplementationChangeIsLocal ==
    [][\A path \in Paths :
        ( /\ ~degraded /\ ~parse_blocked
          /\ Absent \notin {project_documents[path], project_documents'[path]}
          /\ project_documents[path] # project_documents'[path]
          /\ Summary(project_documents[path]) = Summary(project_documents'[path]) )
            => rechecked' \subseteq {ModuleOf[path]}]_vars
=============================================================================
