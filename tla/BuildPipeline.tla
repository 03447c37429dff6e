--------------------------- MODULE BuildPipeline ---------------------------
(***************************************************************************)
(* The build pipeline of crates/typepython_cli/src/pipeline.rs: check,     *)
(* build and clean, and the files they leave for the next command, which   *)
(* may be killed, or fail, between any two of its writes.                  *)
(*                                                                         *)
(* A command reads each source and the configuration once, so they change  *)
(* between commands here.  The files of one module (.py, .pyi, .pyc) are   *)
(* one artifact; effects.json, which no command reads, is left out.        *)
(***************************************************************************)
EXTENDS IncrementalCheck

CONSTANTS
    Modules,         \* project modules
    TextsOf,         \* per module, the texts its source may hold
    Configs,         \* configurations: target_python, require_known_public_types, and
                     \* experimental.shape_transforms
    NoEmitOnError,   \* emit.no_emit_on_error
    None             \* a file that is missing, torn or of an older schema

ASSUME PipelineAssumption ==
    /\ Modules \subseteq Seq(STRING)
    /\ DOMAIN TextsOf = Modules
    /\ \A module \in Modules : \A text \in TextsOf[module] : text.imports \subseteq Seq(STRING)
    /\ NoEmitOnError \in BOOLEAN

VARIABLES
    sources,            \* the project: a function from modules to texts
    config,
    snapshot,           \* snapshot.json
    analysis_cache,     \* analysis-cache.json
    manifest,           \* build-manifest.json
    outputs,            \* out_dir: per module, what it was emitted from
    run,                \* the PipelineSnapshot of the command that runs
    pc,                 \* "idle", or what it does next
    disturbed           \* since the last clean, has an emission stopped halfway, or
                        \* have artifacts been removed?

files == <<snapshot, analysis_cache, manifest, outputs>>
vars == <<sources, config, files, run, pc, disturbed>>

NoRun == << >>
-----------------------------------------------------------------------------
(* What a pipeline that remembers nothing would find. *)

\* What each file holds of the configuration it was made under: SnapshotMetadata,
\* AnalysisCacheMetadata and OutputAffectingConfigFingerprint.
Metadata(settings) == settings.target_python
AnalysisMetadata(settings) ==
    [target_python |-> settings.target_python,
     require_known_public_types |-> settings.require_known_public_types]
OutputConfig(settings) ==
    [target_python |-> settings.target_python, shape_transforms |-> settings.shape_transforms]

Checked(module) == [under |-> Metadata(config), of |-> CheckOf(sources, module)]

\* A lowered module and its stub: a stub has the fields and signatures a class takes
\* from the classes of other modules, so it is made from what a check is made from.
Emitted(module) == [under |-> OutputConfig(config), of |-> CheckOf(sources, module)]

\* TPY4017 of a transform whose target is a data class goes away with shape_transforms.
LowersUnder(text, shape_transforms) ==
    text.fault # "lowering" /\ (text.fault = "shape transform" => shape_transforms)

Lowers(module) == LowersUnder(sources[module], config.shape_transforms)

\* public_surface_completeness_diagnostics has something to say of the module.
Incomplete(module) ==
    config.require_known_public_types /\ sources[module].fault = "incomplete surface"

\* The reports of lowering or of completeness a list holds: 0, 1, or Many.
Many == 2
Extended(copies, more) == IF more /\ copies < Many THEN copies + 1 ELSE copies

HasErrors(diagnostics) ==
    \E module \in DOMAIN diagnostics :
        \/ diagnostics[module].check.of.text.fault = "type error"
        \/ diagnostics[module].lowering > 0
        \/ diagnostics[module].surface > 0
-----------------------------------------------------------------------------
(* run_pipeline. *)

\* Mutant of ShouldEmit: errors do not keep from emitting.
ShouldEmitAnyway(result) == result.command = "build" /\ ~result.blocked

\* should_emit_build_outputs
ShouldEmit(result) ==
    /\ result.command = "build"
    /\ ~result.blocked
    /\ ~(HasErrors(result.diagnostics) /\ NoEmitOnError)

AfterAnalysisState(result) == IF ShouldEmit(result) THEN "cleanup" ELSE "report"

\* analyze_pipeline_state: summaries are reused while the metadata is the same.
Incremental ==
    [metadata |-> Metadata(config),
     source_hashes |-> sources,
     summaries |->
        IF snapshot # None /\ snapshot.metadata = Metadata(config)
        THEN ReusedSummaries(sources, snapshot.summaries, DiffModules(snapshot.source_hashes, sources))
        ELSE Summaries(sources)]

\* affected_modules since an earlier state: source_change_modules are the
\* direct changes, and its index is rebuilt from its summaries.
AffectedSince(previous, current) ==
    DOMAIN sources \cap
        Affected(IndexOf(ImportTargets(previous.summaries)),
                 IndexOf(ImportTargets(current.summaries)),
                 DiffModules(previous.source_hashes, current.source_hashes),
                 DiffModules(previous.summaries, current.summaries))

\* Mutant of CacheReusable: the cache may be of another analysis.
CacheOfAnyState ==
    /\ snapshot # None /\ analysis_cache # None
    /\ analysis_cache.metadata = AnalysisMetadata(config)

\* Mutant of CacheReusable: the cache may be of another configuration.
CacheOfAnyConfig ==
    snapshot # None /\ analysis_cache # None /\ analysis_cache.incremental = snapshot

CacheReusable ==
    /\ snapshot # None /\ analysis_cache # None
    /\ analysis_cache.incremental = snapshot
    /\ analysis_cache.metadata = AnalysisMetadata(config)

Rechecked(incremental) ==
    IF CacheReusable THEN AffectedSince(snapshot, incremental) ELSE DOMAIN sources

\* Mutant of CheckDiagnostics: those of removed modules stay.
CheckDiagnosticsOfAll(rechecked) ==
    LET cached == IF CacheReusable THEN analysis_cache.module_diagnostics ELSE << >>
    IN  [module \in rechecked \cup DOMAIN cached |->
            IF module \in rechecked
            THEN [check |-> Checked(module), lowering |-> 0, surface |-> 0]
            ELSE cached[module]]

\* Mutant of CheckDiagnostics: a recheck adds to the list of the module.
CheckDiagnosticsAdded(rechecked) ==
    LET cached == IF CacheReusable THEN analysis_cache.module_diagnostics ELSE << >>
    IN  [module \in rechecked \cup (DOMAIN cached \cap DOMAIN sources) |->
            IF module \in DOMAIN cached
            THEN IF module \in rechecked
                 THEN [cached[module] EXCEPT !.check = Checked(module)]
                 ELSE cached[module]
            ELSE [check |-> Checked(module), lowering |-> 0, surface |-> 0]]

CheckDiagnostics(rechecked) ==
    LET cached == IF CacheReusable THEN analysis_cache.module_diagnostics ELSE << >>
    IN  [module \in rechecked \cup (DOMAIN cached \cap DOMAIN sources) |->
            IF module \in rechecked
            THEN [check |-> Checked(module), lowering |-> 0, surface |-> 0]
            ELSE cached[module]]

\* verify_build_artifacts: the artifacts and the snapshot exist and parse;
\* what they were made from is not looked at.
ArtifactsVerify == DOMAIN sources \subseteq DOMAIN outputs /\ snapshot # None

\* The manifest is of this state and of these options.
ManifestMatches(incremental) ==
    manifest.incremental = incremental /\ manifest.output_config = OutputConfig(config)

\* can_reuse_cached_pipeline_outputs
OutputsReusable(incremental) ==
    manifest # None /\ ManifestMatches(incremental) /\ ArtifactsVerify

\* Mutant of RequiringMaterialization: what changed since the last analysis.
AffectedSinceAnalysis(incremental) ==
    IF manifest = None \/ snapshot = None THEN DOMAIN sources ELSE AffectedSince(snapshot, incremental)

\* Mutant of RequiringMaterialization: the options of the manifest do not matter.
AffectedSinceAnyManifest(incremental) ==
    IF \/ manifest = None
       \/ manifest.incremental = incremental
       \/ DOMAIN manifest.incremental.source_hashes # DOMAIN sources
    THEN DOMAIN sources
    ELSE AffectedSince(manifest.incremental, incremental)

\* modules_requiring_materialization: everything, unless the manifest has the
\* same emit plan and options; then what was affected since.
RequiringMaterialization(incremental) ==
    IF \/ manifest = None
       \/ ManifestMatches(incremental)
       \/ manifest.incremental.metadata # incremental.metadata
       \/ manifest.output_config # OutputConfig(config)
       \/ DOMAIN manifest.incremental.source_hashes # DOMAIN sources
    THEN DOMAIN sources
    ELSE AffectedSince(manifest.incremental, incremental)

\* The lowering diagnostics, and with nothing to block on those of completeness,
\* are added to whatever the list of the module holds.
Lowered(diagnostics, modules) ==
    LET blocked == \E module \in modules : ~Lowers(module)
    IN  [module \in DOMAIN diagnostics |->
            [diagnostics[module] EXCEPT
                !.lowering = Extended(@, module \in modules /\ ~Lowers(module)),
                !.surface = Extended(@, module \in modules /\ Incomplete(module) /\ ~blocked)]]

\* The command reports, and stops, at a source that does not parse.
ParseFails == \E module \in DOMAIN sources : sources[module].fault = "syntax error"

RunPipeline(command) ==
    /\ pc = "idle"
    /\ UNCHANGED <<sources, config, files, disturbed>>
    /\ \/ /\ ParseFails
          /\ UNCHANGED <<run, pc>>
       \/ /\ ~ParseFails
          /\ LET incremental == Incremental
                 rechecked == Rechecked(incremental)
                 diagnostics == CheckDiagnostics(rechecked)
                 modules == rechecked \cup RequiringMaterialization(incremental)
             IN  run' = IF OutputsReusable(incremental)
                        THEN [command |-> command, incremental |-> incremental,
                              diagnostics |-> diagnostics, lowered |-> {}, blocked |-> FALSE]
                        ELSE [command |-> command, incremental |-> incremental,
                              diagnostics |-> Lowered(diagnostics, modules), lowered |-> modules,
                              blocked |-> \E module \in modules : ~Lowers(module)]
          /\ pc' = IF sources = << >> THEN AfterAnalysisState(run') ELSE "snapshot"
-----------------------------------------------------------------------------
(* The writes, one after the other. *)

\* persist_pipeline_analysis_state: snapshot.json, then analysis-cache.json;
\* neither for a project without modules.
WriteSnapshot ==
    /\ pc = "snapshot"
    /\ snapshot' = run.incremental
    /\ pc' = "analysis cache"
    /\ UNCHANGED <<sources, config, analysis_cache, manifest, outputs, run, disturbed>>

WriteAnalysisCache ==
    /\ pc = "analysis cache"
    /\ analysis_cache' = [incremental |-> run.incremental, metadata |-> AnalysisMetadata(config),
                          module_diagnostics |-> run.diagnostics]
    /\ pc' = AfterAnalysisState(run)
    /\ UNCHANGED <<sources, config, snapshot, manifest, outputs, run, disturbed>>

\* cleanup_stale_materialized_outputs: what the manifest has and the plan has
\* not.
Stale ==
    IF manifest = None THEN {} ELSE DOMAIN manifest.incremental.source_hashes \ DOMAIN sources

CleanupStale ==
    /\ pc = "cleanup"
    /\ outputs' = [module \in DOMAIN outputs \ Stale |-> outputs[module]]
    /\ pc' = "outputs"
    /\ UNCHANGED <<sources, config, snapshot, analysis_cache, manifest, run, disturbed>>

Installed(modules) ==
    [module \in DOMAIN outputs \cup modules |->
        IF module \in modules THEN Emitted(module) ELSE outputs[module]]

\* write_runtime_outputs, of the modules that were lowered.
WriteOutputs ==
    /\ pc = "outputs"
    /\ outputs' = Installed(run.lowered)
    /\ pc' = "snapshot again"
    /\ UNCHANGED <<sources, config, snapshot, analysis_cache, manifest, run, disturbed>>

WriteSnapshotAgain ==
    /\ pc = "snapshot again"
    /\ snapshot' = run.incremental
    /\ pc' = "manifest"
    /\ UNCHANGED <<sources, config, analysis_cache, manifest, outputs, run, disturbed>>

WriteManifest ==
    /\ pc = "manifest"
    /\ manifest' = [incremental |-> run.incremental, output_config |-> OutputConfig(config)]
    /\ pc' = "report"
    /\ UNCHANGED <<sources, config, snapshot, analysis_cache, outputs, run, disturbed>>

PrintSummary ==
    /\ pc = "report"
    /\ pc' = "idle"
    /\ run' = NoRun
    /\ UNCHANGED <<sources, config, files, disturbed>>
-----------------------------------------------------------------------------
(* Whatever stops a command leaves the file it was writing as it was, or torn. *)

Interrupt ==
    /\ pc' = "idle"
    /\ run' = NoRun
    /\ UNCHANGED <<sources, config>>

InterruptSnapshot ==
    /\ pc \in {"snapshot", "snapshot again"}
    /\ snapshot' \in {snapshot, None}
    /\ disturbed' = (disturbed \/ pc = "snapshot again")
    /\ UNCHANGED <<analysis_cache, manifest, outputs>>

InterruptAnalysisCache ==
    /\ pc = "analysis cache"
    /\ analysis_cache' \in {analysis_cache, None}
    /\ UNCHANGED <<snapshot, manifest, outputs, disturbed>>

\* write_files_transactionally renames one file after the other: each is the
\* new one, the old one, or moved away for its backup.
InterruptOutputs ==
    /\ pc \in {"cleanup", "outputs"}
    /\ \/ /\ pc = "cleanup"
          /\ \E removed \in SUBSET Stale :
                outputs' = [module \in DOMAIN outputs \ removed |-> outputs[module]]
       \/ /\ pc = "outputs"
          /\ \E written \in SUBSET run.lowered : \E moved \in SUBSET written :
                outputs' = [module \in DOMAIN Installed(written) \ moved |-> Installed(written)[module]]
    /\ disturbed' = TRUE
    /\ UNCHANGED <<snapshot, analysis_cache, manifest>>

InterruptManifest ==
    /\ pc = "manifest"
    /\ manifest' \in {manifest, None}
    /\ disturbed' = TRUE
    /\ UNCHANGED <<snapshot, analysis_cache, outputs>>

Interrupted ==
    /\ InterruptSnapshot \/ InterruptAnalysisCache \/ InterruptOutputs \/ InterruptManifest
    /\ Interrupt

\* clean_project removes out_dir, then cache_dir.
CleanProject ==
    /\ pc = "idle"
    /\ outputs' = << >>
    /\ snapshot' = None
    /\ analysis_cache' = None
    /\ manifest' = None
    /\ disturbed' = FALSE
    /\ UNCHANGED <<sources, config, run, pc>>

\* clean_project stopped on the way, or files of out_dir removed by hand.
OutputsRemoved ==
    /\ pc = "idle"
    /\ \E removed \in SUBSET DOMAIN outputs :
        outputs' = [module \in DOMAIN outputs \ removed |-> outputs[module]]
    /\ \/ UNCHANGED <<snapshot, analysis_cache, manifest>>
       \/ /\ outputs' = << >>
          /\ snapshot' \in {snapshot, None}
          /\ analysis_cache' \in {analysis_cache, None}
          /\ manifest' \in {manifest, None}
    /\ disturbed' = TRUE
    /\ UNCHANGED <<sources, config, run, pc>>
-----------------------------------------------------------------------------
EditSource(module) ==
    /\ pc = "idle"
    /\ \/ \E text \in TextsOf[module] :
            sources' = [other \in DOMAIN sources \cup {module} |->
                            IF other = module THEN text ELSE sources[other]]
       \/ sources' = [other \in DOMAIN sources \ {module} |-> sources[other]]
    /\ UNCHANGED <<config, files, run, pc, disturbed>>

EditConfig ==
    /\ pc = "idle"
    /\ config' \in Configs \ {config}
    /\ UNCHANGED <<sources, files, run, pc, disturbed>>

Init ==
    /\ sources = << >>
    /\ config \in Configs
    /\ snapshot = None
    /\ analysis_cache = None
    /\ manifest = None
    /\ outputs = << >>
    /\ run = NoRun
    /\ pc = "idle"
    /\ disturbed = FALSE

Next ==
    \/ \E command \in {"check", "build"} : RunPipeline(command)
    \/ WriteSnapshot
    \/ WriteAnalysisCache
    \/ CleanupStale
    \/ WriteOutputs
    \/ WriteSnapshotAgain
    \/ WriteManifest
    \/ PrintSummary
    \/ Interrupted
    \/ CleanProject
    \/ OutputsRemoved
    \/ \E module \in Modules : EditSource(module)
    \/ EditConfig

Spec == Init /\ [][Next]_vars
-----------------------------------------------------------------------------
Texts == UNION {TextsOf[module] : module \in Modules}
Projects == UNION {[modules -> Texts] : modules \in SUBSET Modules}

\* incremental is made from one reading of the sources.
IncrementalStates ==
    {[metadata |-> metadata, source_hashes |-> project, summaries |-> Summaries(project)] :
        metadata \in {Metadata(settings) : settings \in Configs}, project \in Projects}

Manifests ==
    [incremental : IncrementalStates, output_config : {OutputConfig(settings) : settings \in Configs}]

ASSUME NoneAssumption == None \notin IncrementalStates \cup Manifests

TypeOK ==
    /\ sources \in Projects
    /\ config \in Configs
    /\ snapshot \in IncrementalStates \cup {None}
    /\ manifest \in Manifests \cup {None}
    /\ DOMAIN outputs \subseteq Modules
    /\ analysis_cache # None =>
         /\ analysis_cache.incremental \in IncrementalStates
         /\ analysis_cache.metadata \in {AnalysisMetadata(settings) : settings \in Configs}
         /\ DOMAIN analysis_cache.module_diagnostics = DOMAIN analysis_cache.incremental.source_hashes
    /\ run # NoRun =>
         /\ run.incremental \in IncrementalStates
         /\ run.lowered \subseteq DOMAIN run.diagnostics
    /\ (pc = "idle") = (run = NoRun)
    /\ pc \in {"idle", "snapshot", "analysis cache", "cleanup", "outputs", "snapshot again",
              "manifest", "report"}
    /\ disturbed \in BOOLEAN

\* The part of a result, or of an artifact, that plans and caches keep track of.
Summarized(result) == [under |-> result.under, of |-> AsSummarized(result.of)]

\* Whatever was edited, killed, lost or rebuilt before, a command reports of each
\* module what was found in its text as it is, under the target as it is, with the
\* summaries as they are of all it reaches: no cached result is older than these
\* (run_pipeline, through snapshot.json and analysis-cache.json).  It may be older
\* than what summaries hide; 6.1.2 (artifact-and-tooling-spec-v1.md:281) has them
\* hold enough to tell when dependents must be rechecked.
CheckResultsAsSummarized ==
    pc = "report" =>
        [module \in DOMAIN run.diagnostics |-> Summarized(run.diagnostics[module].check)]
            = [module \in DOMAIN sources |-> Summarized(Checked(module))]

\* A module that does not lower is reported by every command, be it one that lowers
\* it or not, and one that lowers under any options by none: what one run stored is
\* replaced as the module is rechecked.  In between, the TPY4017 of a data class may
\* be reported after shape_transforms was turned on, as no cache key holds the option.
LoweringErrorsReported ==
    pc = "report" =>
        \A module \in DOMAIN sources :
            /\ ~Lowers(module) => run.diagnostics[module].lowering > 0
            /\ run.diagnostics[module].lowering > 0 => ~LowersUnder(sources[module], FALSE)

\* A build that emits leaves the artifacts of the sources it read, as far as
\* summaries tell: each module it did not lower has one an earlier build made from
\* its text as it is, under the options as they are, with the summaries as they are
\* of all it reaches, and those of removed modules are gone.  Checks in between, and
\* commands killed while they write their caches, change nothing about that.
OutputsAsSummarized ==
    (pc = "report" /\ ShouldEmit(run) /\ ~disturbed) =>
        [module \in DOMAIN outputs |-> Summarized(outputs[module])]
            = [module \in DOMAIN sources |-> Summarized(Emitted(module))]

\* no_emit_on_error: out_dir is not written while a module has an error of its own,
\* be it one an earlier command found in a module this one did not look at.
EmitsOnlyWithoutErrors ==
    [][(NoEmitOnError /\ pc = "outputs" /\ outputs' # outputs) =>
        \A module \in DOMAIN sources : sources[module].fault # "type error" /\ Lowers(module)]_vars

\* language-spec-v1.md:1671: with require_known_public_types any incomplete
\* surface is diagnosed, by a run in which nothing else stopped lowering.
IncompleteSurfaceReported ==
    (pc = "report" /\ ~run.blocked) =>
        \A module \in DOMAIN sources : Incomplete(module) => run.diagnostics[module].surface > 0
=============================================================================
