------------------------- MODULE BuildPipelineProofs -------------------------
(***************************************************************************)
(* The pipeline is proved for every project, whatever it imports, and every *)
(* history of edits, commands and interruptions: caches change nothing of  *)
(* what is reported, and a build that emits leaves what its sources say,   *)
(* but for what summaries hide.                                            *)
(***************************************************************************)
EXTENDS BuildPipeline, IncrementalCheckProofs

\* The state a command that reads the sources now computes.
FreshState ==
    [metadata |-> Metadata(config), source_hashes |-> sources, summaries |-> Summaries(sources)]

\* What checking a module gave when the state was made.
CheckIn(state, module) ==
    [under |-> state.metadata, of |-> CheckOf(state.source_hashes, module)]

\* The manifest of a build that emits now, and what a module is emitted from by the
\* build that leaves a manifest.
FreshManifest == [incremental |-> FreshState, output_config |-> OutputConfig(config)]
EmittedIn(made, module) ==
    [under |-> made.output_config, of |-> CheckOf(made.incremental.source_hashes, module)]

IsEntry(entry) ==
    /\ entry = [check |-> entry.check, lowering |-> entry.lowering, surface |-> entry.surface]
    /\ entry.lowering \in Nat

\* The diagnostics are of the state: the checks, and only of a module that fails to
\* lower under some options a lowering error.
Tells(diagnostics, state) ==
    /\ DOMAIN diagnostics = DOMAIN state.source_hashes
    /\ \A module \in DOMAIN diagnostics :
          /\ IsEntry(diagnostics[module])
          /\ Summarized(diagnostics[module].check) = Summarized(CheckIn(state, module))
          /\ diagnostics[module].lowering > 0 => ~LowersUnder(state.source_hashes[module], FALSE)

\* No module that does not lower is left out.
TellsWhoFails(diagnostics) ==
    \A module \in DOMAIN sources : ~Lowers(module) => diagnostics[module].lowering > 0

\* analysis-cache.json tells of the state it names, under the options it names.
CacheTells ==
    analysis_cache # None =>
        /\ analysis_cache.incremental \in IncrementalStates
        /\ analysis_cache.metadata \in {AnalysisMetadata(settings) : settings \in Configs}
        /\ analysis_cache.metadata.target_python = analysis_cache.incremental.metadata
        /\ Tells(analysis_cache.module_diagnostics, analysis_cache.incremental)

\* A manifest is only written for a project that lowers.
ManifestLowers ==
    manifest # None =>
        \A module \in DOMAIN manifest.incremental.source_hashes :
            LowersUnder(manifest.incremental.source_hashes[module], manifest.output_config.shape_transforms)

Emitting == pc \in {"cleanup", "outputs", "snapshot again", "manifest"}

\* What a command holds in memory is about the sources as they are.
RunTells ==
    pc # "idle" =>
        /\ run.incremental = FreshState
        /\ Tells(run.diagnostics, FreshState)
        /\ TellsWhoFails(run.diagnostics)
        /\ run.lowered \subseteq DOMAIN sources
        /\ run.blocked = (\E module \in DOMAIN sources : ~Lowers(module))
        /\ Emitting => ShouldEmit(run)
        /\ pc = "report" /\ ShouldEmit(run) => manifest = FreshManifest

\* What a command did not lower was emitted by the build that left the manifest from
\* what it would be emitted from now, as far as summaries tell.
RestIsBuilt ==
    pc \in {"snapshot", "analysis cache", "cleanup", "outputs"} =>
        \A module \in DOMAIN sources \ run.lowered :
            /\ manifest # None
            /\ module \in DOMAIN manifest.incremental.source_hashes
            /\ Summarized(EmittedIn(manifest, module)) = Summarized(EmittedIn(FreshManifest, module))

Built(modules, made) ==
    /\ DOMAIN outputs = modules
    /\ \A module \in modules : Summarized(outputs[module]) = Summarized(EmittedIn(made, module))

OfManifest == IF manifest = None THEN {} ELSE DOMAIN manifest.incremental.source_hashes

\* The manifest describes out_dir, except while a build replaces the one and then
\* the other.
ManifestDescribes ==
    /\ outputs = [module \in DOMAIN outputs |-> outputs[module]]
    /\ ~disturbed =>
        /\ pc \in {"idle", "snapshot", "analysis cache", "cleanup", "report"} =>
              Built(OfManifest, manifest)
        /\ pc = "outputs" => Built(OfManifest \cap DOMAIN sources, manifest)
        /\ pc \in {"snapshot again", "manifest"} => Built(DOMAIN sources, FreshManifest)

IInv ==
    TypeOK /\ CacheTells /\ ManifestLowers /\ RunTells /\ RestIsBuilt /\ ManifestDescribes
-----------------------------------------------------------------------------
(* States and the projects they are of. *)

LEMMA ProjectFacts ==
    ASSUME NEW project \in Projects
    PROVE  IsWorkspace(project) /\ DOMAIN project \subseteq Modules
<1>1. PICK modules \in SUBSET Modules : project \in [modules -> Texts]
    BY DEF Projects
<1>2. \A text \in Texts : text.imports \subseteq Seq(STRING)
    BY PipelineAssumption DEF Texts
<1>3. QED  BY <1>1, <1>2 DEF IsWorkspace

LEMMA StateFacts ==
    ASSUME NEW state \in IncrementalStates
    PROVE  /\ state = [metadata |-> state.metadata, source_hashes |-> state.source_hashes,
                       summaries |-> Summaries(state.source_hashes)]
           /\ state.source_hashes \in Projects
           /\ state.summaries = Summaries(state.source_hashes)
BY DEF IncrementalStates

LEMMA FreshStateFacts ==
    ASSUME TypeOK
    PROVE  /\ FreshState \in IncrementalStates
           /\ FreshState.metadata = Metadata(config)
           /\ FreshState.source_hashes = sources
           /\ FreshState.summaries = Summaries(sources)
           /\ \A module : CheckIn(FreshState, module) = Checked(module)
           /\ \A module : EmittedIn(FreshManifest, module) = Emitted(module)
           /\ FreshManifest \in Manifests
<1>1. sources \in Projects /\ config \in Configs
    BY DEF TypeOK
<1>2. FreshState \in IncrementalStates
    BY <1>1 DEF IncrementalStates, FreshState
<1>3. /\ FreshState.metadata = Metadata(config)
      /\ FreshState.source_hashes = sources
      /\ FreshState.summaries = Summaries(sources)
    BY DEF FreshState
<1>4. OutputConfig(config) \in {OutputConfig(settings) : settings \in Configs}
    BY <1>1
<1>5. FreshManifest \in Manifests
    BY <1>2, <1>4 DEF FreshManifest, Manifests
<1>6. QED  BY <1>2, <1>3, <1>5 DEF CheckIn, Checked, EmittedIn, Emitted, FreshManifest

\* The summaries a command reuses are those it would have made.
LEMMA IncrementalIsFresh ==
    ASSUME TypeOK
    PROVE  Incremental = FreshState
<1>1. CASE snapshot # None /\ snapshot.metadata = Metadata(config)
    <2>1. snapshot \in IncrementalStates
        BY <1>1 DEF TypeOK
    <2>2. snapshot.summaries = Summaries(snapshot.source_hashes)
        BY <2>1, StateFacts
    <2>3. \A module \in DOMAIN snapshot.source_hashes \cap DOMAIN sources :
            Summary(snapshot.source_hashes[module]) # Summary(sources[module])
                => module \in DiffModules(snapshot.source_hashes, sources)
        BY DEF DiffModules
    <2>4. ReusedSummaries(sources, snapshot.summaries, DiffModules(snapshot.source_hashes, sources))
            = Summaries(sources)
        BY <2>2, <2>3, ReusedAreCurrent
    <2>5. QED  BY <1>1, <2>4 DEF Incremental, FreshState
<1>2. QED  BY <1>1 DEF Incremental, FreshState

\* A module that is not affected since a state has the text it had, and a check of
\* it reads what it read, but for what summaries hide.
LEMMA NotAffectedSince ==
    ASSUME TypeOK, NEW state \in IncrementalStates,
           NEW module \in DOMAIN sources \ AffectedSince(state, FreshState)
    PROVE  /\ module \in DOMAIN state.source_hashes
           /\ state.source_hashes[module] = sources[module]
           /\ AsSummarized(CheckOf(state.source_hashes, module)) = AsSummarized(CheckOf(sources, module))
<1> DEFINE previous == state.source_hashes
           direct == DiffModules(previous, sources)
<1>1. IsWorkspace(previous) /\ IsWorkspace(sources)
    BY StateFacts, ProjectFacts DEF TypeOK
<1>2. \A other \in DOMAIN previous \cap DOMAIN sources :
        previous[other] # sources[other] => other \in direct
    BY DEF DiffModules
<1>3. /\ IndexOf(ImportTargets(state.summaries)) = Index(previous)
      /\ IndexOf(ImportTargets(FreshState.summaries)) = Index(sources)
    BY StateFacts, FreshStateFacts, IndexOfSummaries
<1>4. DiffModules(state.summaries, FreshState.summaries) = ChangedSummaries(previous, sources)
    BY StateFacts, FreshStateFacts DEF ChangedSummaries
<1>5. module \in DOMAIN sources \
        Affected(Index(previous), Index(sources), direct, ChangedSummaries(previous, sources))
    BY <1>3, <1>4, FreshStateFacts DEF AffectedSince
<1> HIDE DEF previous, direct
<1>6. /\ module \in DOMAIN previous
      /\ previous[module] = sources[module]
      /\ AsSummarized(CheckOf(sources, module)) = AsSummarized(CheckOf(previous, module))
    BY <1>1, <1>2, <1>5, LeftOutChecksAreKept
<1>7. QED  BY <1>6 DEF previous
-----------------------------------------------------------------------------
(* run_pipeline. *)

\* Of the checks all is told, and a lowering error only of a module that has one, be it
\* under other options.
ChecksTold(diagnostics, rechecked) ==
    /\ rechecked \subseteq DOMAIN sources
    /\ DOMAIN diagnostics = DOMAIN sources
    /\ \A module \in DOMAIN sources :
          /\ IsEntry(diagnostics[module])
          /\ Summarized(diagnostics[module].check) = Summarized(Checked(module))
          /\ diagnostics[module].lowering > 0 => ~LowersUnder(sources[module], FALSE)

\* Cached diagnostics are taken over only for what is not affected since they were
\* stored, under the same options.
LEMMA CheckDiagnosticsTell ==
    ASSUME TypeOK, CacheTells
    PROVE  ChecksTold(CheckDiagnostics(Rechecked(FreshState)), Rechecked(FreshState))
<1> DEFINE again == Rechecked(FreshState)
           diagnostics == CheckDiagnostics(again)
           New(module) == [check |-> Checked(module), lowering |-> 0, surface |-> 0]
           Told(module) == /\ IsEntry(diagnostics[module])
                           /\ Summarized(diagnostics[module].check) = Summarized(Checked(module))
                           /\ diagnostics[module].lowering > 0 => ~LowersUnder(sources[module], FALSE)
<1> SUFFICES ChecksTold(diagnostics, again)
    OBVIOUS
<1>1. again \subseteq DOMAIN sources
    BY DEF Rechecked, AffectedSince
<1>2. \A module \in again : module \in DOMAIN diagnostics /\ diagnostics[module] = New(module)
    BY DEF CheckDiagnostics
<1>3. \A module \in again : Told(module)
    <2> SUFFICES ASSUME NEW module \in again PROVE Told(module)
        OBVIOUS
    <2>1. /\ New(module).check = Checked(module) /\ New(module).lowering = 0
          /\ IsEntry(New(module))
        BY DEF IsEntry
    <2>2. diagnostics[module] = New(module)
        BY <1>2
    <2> HIDE DEF diagnostics, again, New
    <2>3. ~(diagnostics[module].lowering > 0)
        BY <2>1, <2>2
    <2> QED  BY <2>1, <2>2, <2>3
<1>4. CASE ~CacheReusable
    <2>1. again = DOMAIN sources
        BY <1>4 DEF Rechecked
    <2>2. DOMAIN diagnostics = DOMAIN sources
        BY <1>4, <2>1 DEF CheckDiagnostics
    <2> HIDE DEF diagnostics, again
    <2>3. QED  BY <1>3, <2>1, <2>2 DEF ChecksTold
<1>5. CASE CacheReusable
    <2> DEFINE state == analysis_cache.incremental
               cached == analysis_cache.module_diagnostics
    <2>1. /\ snapshot = state /\ state \in IncrementalStates
          /\ state.metadata = Metadata(config)
          /\ Tells(cached, state)
        BY <1>5 DEF CacheReusable, CacheTells, AnalysisMetadata, Metadata
    <2>2. again = AffectedSince(state, FreshState)
        BY <1>5, <2>1 DEF Rechecked
    <2>3. /\ DOMAIN diagnostics = again \cup (DOMAIN cached \cap DOMAIN sources)
          /\ \A module \in (DOMAIN cached \cap DOMAIN sources) \ again : diagnostics[module] = cached[module]
        BY <1>5 DEF CheckDiagnostics
    <2> HIDE DEF diagnostics, again, state, cached
    <2>4. ASSUME NEW module \in DOMAIN sources \ again
          PROVE  module \in DOMAIN cached /\ Told(module)
        <3>1. /\ module \in DOMAIN state.source_hashes
              /\ state.source_hashes[module] = sources[module]
              /\ AsSummarized(CheckOf(state.source_hashes, module)) = AsSummarized(CheckOf(sources, module))
            BY <2>1, <2>2, NotAffectedSince
        <3>2. /\ module \in DOMAIN cached
              /\ IsEntry(cached[module])
              /\ Summarized(cached[module].check) = Summarized(CheckIn(state, module))
              /\ cached[module].lowering > 0 => ~LowersUnder(sources[module], FALSE)
            BY <2>1, <3>1 DEF Tells
        <3>3. Summarized(CheckIn(state, module)) = Summarized(Checked(module))
            BY <2>1, <3>1 DEF CheckIn, Checked, Summarized
        <3>4. diagnostics[module] = cached[module]
            BY <2>3, <3>2
        <3>5. QED  BY <3>2, <3>3, <3>4
    <2>5. DOMAIN diagnostics = DOMAIN sources
        BY <1>1, <2>3, <2>4
    <2>6. QED  BY <1>1, <1>3, <2>4, <2>5 DEF ChecksTold
<1>6. QED  BY <1>4, <1>5

\* What does not require materialization was built by the build that left the manifest.
LEMMA NotRequiringIsBuilt ==
    ASSUME TypeOK, ManifestLowers,
           NEW module \in DOMAIN sources \ RequiringMaterialization(FreshState)
    PROVE  /\ manifest # None
           /\ module \in DOMAIN manifest.incremental.source_hashes
           /\ Summarized(EmittedIn(manifest, module)) = Summarized(EmittedIn(FreshManifest, module))
           /\ Lowers(module)
<1>1. /\ manifest # None /\ manifest.output_config = OutputConfig(config)
      /\ module \notin AffectedSince(manifest.incremental, FreshState)
    BY DEF RequiringMaterialization
<1>2. manifest.incremental \in IncrementalStates
    BY <1>1 DEF TypeOK, Manifests
<1>3. /\ module \in DOMAIN manifest.incremental.source_hashes
      /\ manifest.incremental.source_hashes[module] = sources[module]
      /\ AsSummarized(CheckOf(manifest.incremental.source_hashes, module))
            = AsSummarized(CheckOf(sources, module))
    BY <1>1, <1>2, NotAffectedSince
<1>4. Summarized(EmittedIn(manifest, module)) = Summarized(EmittedIn(FreshManifest, module))
    BY <1>1, <1>3, FreshStateFacts DEF EmittedIn, Emitted, Summarized
<1>5. Lowers(module)
    BY <1>1, <1>3 DEF ManifestLowers, Lowers, OutputConfig
<1>6. QED  BY <1>1, <1>3, <1>4, <1>5

\* shape_transforms only ever lets more texts lower.
LEMMA MoreLower ==
    ASSUME NEW module, ~Lowers(module)
    PROVE  ~LowersUnder(sources[module], FALSE)
BY DEF Lowers, LowersUnder

\* With what is lowered anew, the lists tell of every module that does not lower.
LEMMA LoweredTells ==
    ASSUME TypeOK, NEW diagnostics, NEW rechecked, ChecksTold(diagnostics, rechecked),
           NEW modules, \A module \in DOMAIN sources \ modules : Lowers(module)
    PROVE  /\ Tells(Lowered(diagnostics, modules), FreshState)
           /\ TellsWhoFails(Lowered(diagnostics, modules))
<1> DEFINE lowered == Lowered(diagnostics, modules)
<1>1. DOMAIN lowered = DOMAIN sources
    BY DEF Lowered, ChecksTold
<1>2. ASSUME NEW module \in DOMAIN sources
      PROVE  /\ IsEntry(lowered[module])
             /\ Summarized(lowered[module].check) = Summarized(Checked(module))
             /\ ~Lowers(module) => lowered[module].lowering > 0
             /\ lowered[module].lowering > 0 => ~LowersUnder(sources[module], FALSE)
    <2> DEFINE entry == diagnostics[module]
    <2>1. PICK surface :
            lowered[module] = [entry EXCEPT
                !.lowering = Extended(entry.lowering, module \in modules /\ ~Lowers(module)),
                !.surface = surface]
        BY DEF Lowered, ChecksTold
    <2>2. /\ entry = [check |-> entry.check, lowering |-> entry.lowering, surface |-> entry.surface]
          /\ entry.lowering \in Nat /\ Summarized(entry.check) = Summarized(Checked(module))
          /\ entry.lowering > 0 => ~LowersUnder(sources[module], FALSE)
        BY DEF ChecksTold, IsEntry
    <2> DEFINE copies == Extended(entry.lowering, module \in modules /\ ~Lowers(module))
    <2>3. copies \in Nat /\ (copies > 0 <=> (entry.lowering > 0 \/ ~Lowers(module)))
        BY <2>2 DEF Extended, Many
    <2> HIDE DEF entry, copies, lowered
    <2>4. lowered[module] = [check |-> entry.check, lowering |-> copies, surface |-> surface]
        BY <2>1, <2>2 DEF copies
    <2>5. /\ IsEntry(lowered[module])
          /\ lowered[module].check = entry.check /\ lowered[module].lowering = copies
        BY <2>3, <2>4 DEF IsEntry
    <2>6. (entry.lowering > 0 \/ ~Lowers(module)) => ~LowersUnder(sources[module], FALSE)
        BY <2>2, MoreLower
    <2>7. QED  BY <2>2, <2>3, <2>5, <2>6
<1> HIDE DEF lowered
<1>3. QED  BY <1>1, <1>2, FreshStateFacts DEF Tells, TellsWhoFails, lowered

\* What run_pipeline hands to the writes: all there is to say of the sources as they
\* are, and what to lower, outside of which the manifest's artifacts are right.
LEMMA PipelineRuns ==
    ASSUME TypeOK, CacheTells, ManifestLowers, NEW command, RunPipeline(command)
    PROVE  \/ UNCHANGED vars
           \/ /\ run' # NoRun
              /\ run'.incremental = FreshState
              /\ Tells(run'.diagnostics, FreshState) /\ TellsWhoFails(run'.diagnostics)
              /\ run'.lowered \subseteq DOMAIN sources
              /\ run'.blocked = (\E module \in DOMAIN sources : ~Lowers(module))
              /\ \A module \in DOMAIN sources \ run'.lowered :
                    /\ manifest # None
                    /\ module \in DOMAIN manifest.incremental.source_hashes
                    /\ Summarized(EmittedIn(manifest, module)) = Summarized(EmittedIn(FreshManifest, module))
              /\ pc' = IF sources = << >> THEN AfterAnalysisState(run') ELSE "snapshot"
<1> DEFINE again == Rechecked(FreshState)
           diagnostics == CheckDiagnostics(again)
           requiring == RequiringMaterialization(FreshState)
           modules == again \cup requiring
<1>1. ChecksTold(diagnostics, again)
    BY CheckDiagnosticsTell
<1>2. requiring \subseteq DOMAIN sources
    BY DEF RequiringMaterialization, AffectedSince
<1>3. modules \subseteq DOMAIN sources
    BY <1>1, <1>2 DEF ChecksTold
<1>4. SUFFICES ASSUME ~ParseFails PROVE
        /\ run' # NoRun
        /\ run'.incremental = FreshState
        /\ Tells(run'.diagnostics, FreshState) /\ TellsWhoFails(run'.diagnostics)
        /\ run'.lowered \subseteq DOMAIN sources
        /\ run'.blocked = (\E module \in DOMAIN sources : ~Lowers(module))
        /\ \A module \in DOMAIN sources \ run'.lowered :
              /\ manifest # None
              /\ module \in DOMAIN manifest.incremental.source_hashes
              /\ Summarized(EmittedIn(manifest, module)) = Summarized(EmittedIn(FreshManifest, module))
    BY DEF RunPipeline, vars
<1> DEFINE lowering == [command |-> command, incremental |-> FreshState,
                        diagnostics |-> Lowered(diagnostics, modules), lowered |-> modules,
                        blocked |-> \E module \in modules : ~Lowers(module)]
           reusing == [command |-> command, incremental |-> FreshState,
                       diagnostics |-> diagnostics, lowered |-> {}, blocked |-> FALSE]
<1>5. run' = IF OutputsReusable(FreshState) THEN reusing ELSE lowering
    BY <1>4, IncrementalIsFresh DEF RunPipeline
<1>6. \A module \in DOMAIN sources \ modules :
        /\ manifest # None
        /\ module \in DOMAIN manifest.incremental.source_hashes
        /\ Summarized(EmittedIn(manifest, module)) = Summarized(EmittedIn(FreshManifest, module))
        /\ Lowers(module)
    BY NotRequiringIsBuilt
<1>7. /\ Tells(Lowered(diagnostics, modules), FreshState)
      /\ TellsWhoFails(Lowered(diagnostics, modules))
    <2> HIDE DEF diagnostics, again, modules
    <2> QED  BY <1>1, <1>6, LoweredTells
<1>8. CASE ~OutputsReusable(FreshState)
    <2> HIDE DEF diagnostics, modules
    <2>1. run' = lowering
        BY <1>5, <1>8
    <2>2. QED  BY <1>3, <1>6, <1>7, <2>1 DEF NoRun
<1>9. CASE OutputsReusable(FreshState)
    <2>1. manifest = FreshManifest /\ manifest # None
        BY <1>9 DEF OutputsReusable, ManifestMatches, FreshManifest, TypeOK, Manifests
    <2>2. \A module \in DOMAIN sources : Lowers(module)
        BY <2>1, FreshStateFacts DEF ManifestLowers, Lowers, FreshManifest, OutputConfig
    <2>3. Tells(diagnostics, FreshState) /\ TellsWhoFails(diagnostics)
        <3> HIDE DEF diagnostics, again
        <3> QED  BY <1>1, <2>2, FreshStateFacts DEF Tells, TellsWhoFails, ChecksTold
    <2> HIDE DEF diagnostics, modules
    <2>4. run' = reusing
        BY <1>5, <1>9
    <2>5. QED  BY <2>1, <2>2, <2>3, <2>4, FreshStateFacts DEF NoRun, FreshManifest
<1>10. QED  BY <1>8, <1>9
-----------------------------------------------------------------------------
(* The steps, one lemma per part of the invariant. *)

LEMMA NothingFacts == DOMAIN << >> = {} /\ << >> = [nothing \in {} |-> nothing]
OBVIOUS

\* Before any command ran there is nothing to be wrong.
LEMMA InitIsSound == Init => IInv
<1> SUFFICES ASSUME Init PROVE IInv
    OBVIOUS
<1>1. sources \in Projects
    <2>1. sources \in [{} -> Texts]
        BY DEF Init
    <2>2. QED  BY <2>1 DEF Projects
<1>2. TypeOK
    BY <1>1, NothingFacts DEF Init, TypeOK, NoRun
<1>3. ManifestDescribes
    BY NothingFacts DEF Init, ManifestDescribes, Built, OfManifest
<1>4. QED
    BY <1>2, <1>3 DEF Init, IInv, CacheTells, ManifestLowers, RunTells, RestIsBuilt

LEMMA Unmoved ==
    ASSUME UNCHANGED <<sources, config>>
    PROVE  /\ FreshState' = FreshState /\ FreshManifest' = FreshManifest
           /\ \A module : Lowers(module)' = Lowers(module)
BY DEF FreshState, FreshManifest, Lowers

LEMMA TellsMoved ==
    ASSUME UNCHANGED <<sources, config>>, TellsWhoFails(run'.diagnostics)
    PROVE  TellsWhoFails(run.diagnostics)'
BY Unmoved DEF TellsWhoFails

LEMMA AfterAnalysisFacts ==
    ASSUME NEW result
    PROVE  /\ AfterAnalysisState(result) \in {"cleanup", "report"}
           /\ AfterAnalysisState(result) = "cleanup" <=> ShouldEmit(result)
BY DEF AfterAnalysisState

\* Sources are added, replaced and removed.
LEMMA EditedType ==
    ASSUME TypeOK, NEW module \in Modules, EditSource(module)
    PROVE  sources' \in Projects
<1>1. PICK modules \in SUBSET Modules : sources \in [modules -> Texts]
    BY DEF TypeOK, Projects
<1>2. CASE \E text \in TextsOf[module] :
            sources' = [other \in DOMAIN sources \cup {module} |->
                            IF other = module THEN text ELSE sources[other]]
    <2>1. PICK text \in TextsOf[module] :
            sources' = [other \in DOMAIN sources \cup {module} |->
                            IF other = module THEN text ELSE sources[other]]
        BY <1>2
    <2>2. text \in Texts
        BY DEF Texts
    <2>3. sources' \in [modules \cup {module} -> Texts]
        BY <1>1, <2>1, <2>2
    <2>4. QED  BY <2>3 DEF Projects
<1>3. CASE sources' = [other \in DOMAIN sources \ {module} |-> sources[other]]
    <2>1. sources' \in [modules \ {module} -> Texts]
        BY <1>1, <1>3
    <2>2. QED  BY <2>1 DEF Projects
<1>4. QED  BY <1>2, <1>3 DEF EditSource

LEMMA InterruptedKeeps ==
    ASSUME Interrupted
    PROVE  /\ pc' = "idle" /\ run' = NoRun /\ UNCHANGED <<sources, config>>
           /\ snapshot' \in {snapshot, None}
           /\ analysis_cache' \in {analysis_cache, None}
           /\ manifest' \in {manifest, None}
BY DEF Interrupted, Interrupt, InterruptSnapshot, InterruptAnalysisCache, InterruptOutputs, InterruptManifest

LEMMA TypeStep ==
    ASSUME IInv, [Next]_vars
    PROVE  TypeOK'
<1> USE DEF IInv
<1>1. ASSUME NEW command, RunPipeline(command) PROVE TypeOK'
    <2>1. CASE UNCHANGED vars
        BY <2>1 DEF TypeOK, vars, files
    <2>2. CASE /\ run' # NoRun
               /\ run'.incremental = FreshState
               /\ Tells(run'.diagnostics, FreshState)
               /\ run'.lowered \subseteq DOMAIN sources
               /\ pc' = IF sources = << >> THEN AfterAnalysisState(run') ELSE "snapshot"
        <3>1. run'.incremental \in IncrementalStates /\ run'.lowered \subseteq DOMAIN run'.diagnostics
            BY <2>2, FreshStateFacts DEF Tells
        <3>2. pc' \in {"cleanup", "report", "snapshot"}
            BY <2>2, AfterAnalysisFacts
        <3>3. UNCHANGED <<sources, config, files, disturbed>>
            BY <1>1 DEF RunPipeline
        <3>4. QED  BY <2>2, <3>1, <3>2, <3>3 DEF TypeOK, files
    <2>3. QED  BY <1>1, <2>1, <2>2, PipelineRuns
<1>2. CASE WriteSnapshot
    BY <1>2 DEF WriteSnapshot, TypeOK
<1>3. CASE WriteAnalysisCache
    <2>1. pc' \in {"cleanup", "report"}
        BY <1>3, AfterAnalysisFacts DEF WriteAnalysisCache
    <2>2. /\ analysis_cache'.incremental = run.incremental
          /\ analysis_cache'.metadata = AnalysisMetadata(config)
          /\ analysis_cache'.module_diagnostics = run.diagnostics
        BY <1>3 DEF WriteAnalysisCache
    <2>3. DOMAIN run.diagnostics = DOMAIN run.incremental.source_hashes
        BY <1>3 DEF WriteAnalysisCache, RunTells, Tells
    <2>4. QED  BY <1>3, <2>1, <2>2, <2>3 DEF WriteAnalysisCache, TypeOK
<1>4. CASE CleanupStale
    BY <1>4 DEF CleanupStale, TypeOK
<1>5. CASE WriteOutputs
    <2>1. run.lowered \subseteq Modules
        BY <1>5, ProjectFacts DEF WriteOutputs, TypeOK, RunTells
    <2>2. DOMAIN outputs' = DOMAIN outputs \cup run.lowered
        BY <1>5 DEF WriteOutputs, Installed
    <2>3. QED  BY <1>5, <2>1, <2>2 DEF WriteOutputs, TypeOK
<1>6. CASE WriteSnapshotAgain
    BY <1>6 DEF WriteSnapshotAgain, TypeOK
<1>7. CASE WriteManifest
    <2>1. manifest' = FreshManifest
        BY <1>7 DEF WriteManifest, RunTells, FreshManifest
    <2>2. FreshManifest \in Manifests
        BY FreshStateFacts
    <2>3. QED  BY <1>7, <2>1, <2>2 DEF WriteManifest, TypeOK
<1>8. CASE PrintSummary
    BY <1>8 DEF PrintSummary, TypeOK, files
<1>9. CASE Interrupted
    <2>1. DOMAIN outputs' \subseteq Modules
        <3>1. CASE InterruptOutputs /\ pc = "cleanup"
            BY <3>1 DEF InterruptOutputs, TypeOK
        <3>2. CASE InterruptOutputs /\ pc = "outputs"
            <4>1. PICK written \in SUBSET run.lowered : \E moved \in SUBSET written :
                    outputs' = [module \in DOMAIN Installed(written) \ moved |-> Installed(written)[module]]
                BY <3>2 DEF InterruptOutputs
            <4>2. DOMAIN Installed(written) = DOMAIN outputs \cup written
                BY DEF Installed
            <4>3. run.lowered \subseteq Modules
                BY <3>2, ProjectFacts DEF TypeOK, RunTells
            <4>4. QED  BY <4>1, <4>2, <4>3 DEF TypeOK
        <3>3. CASE UNCHANGED outputs
            BY <3>3 DEF TypeOK
        <3>4. QED
            BY <1>9, <3>1, <3>2, <3>3
               DEF Interrupted, InterruptSnapshot, InterruptAnalysisCache, InterruptOutputs, InterruptManifest
    <2>2. disturbed' \in BOOLEAN
        BY <1>9 DEF Interrupted, InterruptSnapshot, InterruptAnalysisCache, InterruptOutputs,
                    InterruptManifest, TypeOK
    <2>3. QED  BY <1>9, <2>1, <2>2, InterruptedKeeps DEF TypeOK
<1>10. CASE CleanProject
    BY <1>10, NothingFacts DEF CleanProject, TypeOK
<1>11. CASE OutputsRemoved
    BY <1>11 DEF OutputsRemoved, TypeOK
<1>12. ASSUME NEW module \in Modules, EditSource(module) PROVE TypeOK'
    BY <1>12, EditedType DEF EditSource, TypeOK, files
<1>13. CASE EditConfig
    BY <1>13 DEF EditConfig, TypeOK, files
<1>14. CASE UNCHANGED vars
    BY <1>14 DEF TypeOK, vars, files
<1>15. QED
    BY <1>1, <1>2, <1>3, <1>4, <1>5, <1>6, <1>7, <1>8, <1>9, <1>10, <1>11, <1>12, <1>13, <1>14 DEF Next

\* The cache is only replaced by what the running command found.
LEMMA CacheStep ==
    ASSUME IInv, [Next]_vars
    PROVE  CacheTells'
<1> USE DEF IInv
<1>1. CASE UNCHANGED analysis_cache
    BY <1>1 DEF CacheTells
<1>2. CASE WriteAnalysisCache
    <2>1. /\ analysis_cache'.incremental = FreshState
          /\ analysis_cache'.metadata = AnalysisMetadata(config)
          /\ Tells(analysis_cache'.module_diagnostics, FreshState)
        BY <1>2 DEF WriteAnalysisCache, RunTells
    <2>2. config \in Configs
        BY DEF TypeOK
    <2>3. QED  BY <2>1, <2>2, FreshStateFacts DEF CacheTells, AnalysisMetadata, Metadata
<1>3. CASE analysis_cache' = None
    BY <1>3 DEF CacheTells
<1>4. CASE OutputsRemoved
    BY <1>1, <1>3, <1>4 DEF OutputsRemoved
<1>5. QED
    BY <1>1, <1>2, <1>3, <1>4, InterruptedKeeps
       DEF Next, RunPipeline, WriteSnapshot, CleanupStale, WriteOutputs, WriteSnapshotAgain,
           WriteManifest, PrintSummary, CleanProject, EditSource, EditConfig, vars, files

\* A build that is blocked emits nothing.
LEMMA ManifestStep ==
    ASSUME IInv, [Next]_vars
    PROVE  ManifestLowers'
<1> USE DEF IInv
<1>1. CASE UNCHANGED manifest
    BY <1>1 DEF ManifestLowers
<1>2. CASE WriteManifest
    <2>1. manifest' = FreshManifest /\ ~run.blocked
        BY <1>2 DEF WriteManifest, RunTells, Emitting, ShouldEmit, FreshManifest
    <2>2. \A module \in DOMAIN sources : Lowers(module)
        BY <1>2, <2>1 DEF WriteManifest, RunTells
    <2>3. QED  BY <2>1, <2>2, FreshStateFacts DEF ManifestLowers, Lowers, FreshManifest, OutputConfig
<1>3. CASE manifest' = None
    BY <1>3 DEF ManifestLowers
<1>4. CASE OutputsRemoved
    BY <1>1, <1>3, <1>4 DEF OutputsRemoved
<1>5. QED
    BY <1>1, <1>2, <1>3, <1>4, InterruptedKeeps
       DEF Next, RunPipeline, WriteSnapshot, WriteAnalysisCache, CleanupStale, WriteOutputs,
           WriteSnapshotAgain, PrintSummary, CleanProject, EditSource, EditConfig, vars, files

\* While a command writes, sources and options are those it read.
LEMMA RunStep ==
    ASSUME IInv, [Next]_vars
    PROVE  RunTells'
<1> USE DEF IInv
<1>1. CASE pc' = "idle"
    BY <1>1 DEF RunTells
<1>2. ASSUME NEW command, RunPipeline(command) PROVE RunTells'
    <2>1. CASE UNCHANGED vars
        <3>1. pc # "idle" => TellsWhoFails(run'.diagnostics)
            BY <2>1 DEF RunTells, vars
        <3>2. ShouldEmit(run)' <=> ShouldEmit(run)
            BY <2>1 DEF ShouldEmit, HasErrors, vars
        <3>3. QED  BY <2>1, <3>1, <3>2, Unmoved, TellsMoved DEF RunTells, Emitting, vars, files
    <2>2. CASE /\ run'.incremental = FreshState
               /\ Tells(run'.diagnostics, FreshState)
               /\ TellsWhoFails(run'.diagnostics)
               /\ run'.lowered \subseteq DOMAIN sources
               /\ run'.blocked = (\E module \in DOMAIN sources : ~Lowers(module))
               /\ pc' = IF sources = << >> THEN AfterAnalysisState(run') ELSE "snapshot"
        <3>1. UNCHANGED <<sources, config, manifest>>
            BY <1>2 DEF RunPipeline, files
        <3>2. /\ pc' \in {"cleanup", "report", "snapshot"}
              /\ pc' = "cleanup" => ShouldEmit(run')
              /\ pc' = "report" => ~ShouldEmit(run')
            BY <2>2, AfterAnalysisFacts
        <3>3. ShouldEmit(run)' <=> ShouldEmit(run')
            BY DEF ShouldEmit, HasErrors
        <3>4. TellsWhoFails(run.diagnostics)'
            BY <2>2, <3>1, TellsMoved
        <3>5. run.blocked' = (\E module \in DOMAIN sources' : ~Lowers(module)')
            BY <2>2, <3>1, Unmoved
        <3>6. QED  BY <2>2, <3>1, <3>2, <3>3, <3>4, <3>5, Unmoved DEF RunTells, Emitting
    <2>3. QED  BY <1>2, <2>1, <2>2, PipelineRuns
<1>3. ASSUME pc # "idle", UNCHANGED <<sources, config, run>>,
             Emitting' => ShouldEmit(run),
             pc' = "report" /\ ShouldEmit(run) => manifest' = FreshManifest
      PROVE  RunTells'
    <2>1. ShouldEmit(run)' <=> ShouldEmit(run)
        BY <1>3 DEF ShouldEmit, HasErrors
    <2>2. TellsWhoFails(run.diagnostics)'
        <3>1. TellsWhoFails(run'.diagnostics)
            BY <1>3 DEF RunTells
        <3>2. QED  BY <1>3, <3>1, TellsMoved
    <2>3. QED  BY <1>3, <2>1, <2>2, Unmoved DEF RunTells
<1>4. CASE WriteSnapshot
    BY <1>3, <1>4 DEF WriteSnapshot, Emitting
<1>5. CASE WriteAnalysisCache
    BY <1>3, <1>5, AfterAnalysisFacts DEF WriteAnalysisCache, Emitting
<1>6. CASE CleanupStale
    BY <1>3, <1>6 DEF CleanupStale, Emitting, RunTells
<1>7. CASE WriteOutputs
    BY <1>3, <1>7 DEF WriteOutputs, Emitting, RunTells
<1>8. CASE WriteSnapshotAgain
    BY <1>3, <1>8 DEF WriteSnapshotAgain, Emitting, RunTells
<1>9. CASE WriteManifest
    BY <1>3, <1>9 DEF WriteManifest, Emitting, RunTells, FreshManifest
<1>10. CASE UNCHANGED vars
    BY <1>1, <1>3, <1>10 DEF RunTells, Emitting, vars, files
<1>11. QED
    BY <1>1, <1>2, <1>4, <1>5, <1>6, <1>7, <1>8, <1>9, <1>10, InterruptedKeeps
       DEF Next, PrintSummary, CleanProject, OutputsRemoved, EditSource, EditConfig

\* From the plan to the writes the manifest stays.
LEMMA RestStep ==
    ASSUME IInv, [Next]_vars
    PROVE  RestIsBuilt'
<1> USE DEF IInv
<1>1. CASE pc' \notin {"snapshot", "analysis cache", "cleanup", "outputs"}
    BY <1>1 DEF RestIsBuilt
<1>2. ASSUME RestIsBuilt, pc \in {"snapshot", "analysis cache", "cleanup", "outputs"},
             UNCHANGED <<sources, config, manifest, run>>
      PROVE  RestIsBuilt'
    BY <1>2, Unmoved DEF RestIsBuilt
<1>3. ASSUME NEW command, RunPipeline(command) PROVE RestIsBuilt'
    <2>1. CASE UNCHANGED vars
        BY <1>1, <1>2, <2>1 DEF vars, files
    <2>2. CASE \A module \in DOMAIN sources \ run'.lowered :
                  /\ manifest # None
                  /\ module \in DOMAIN manifest.incremental.source_hashes
                  /\ Summarized(EmittedIn(manifest, module)) = Summarized(EmittedIn(FreshManifest, module))
        <3>1. UNCHANGED <<sources, config, manifest>>
            BY <1>3 DEF RunPipeline, files
        <3>2. QED  BY <2>2, <3>1, Unmoved DEF RestIsBuilt
    <2>3. QED  BY <1>3, <2>1, <2>2, PipelineRuns
<1>4. CASE WriteSnapshot
    BY <1>2, <1>4 DEF WriteSnapshot
<1>5. CASE WriteAnalysisCache
    BY <1>2, <1>5 DEF WriteAnalysisCache
<1>6. CASE CleanupStale
    BY <1>2, <1>6 DEF CleanupStale
<1>7. CASE UNCHANGED vars
    BY <1>1, <1>2, <1>7 DEF vars, files
<1>8. QED
    BY <1>1, <1>3, <1>4, <1>5, <1>6, <1>7, InterruptedKeeps
       DEF Next, WriteOutputs, WriteSnapshotAgain, WriteManifest, PrintSummary, CleanProject,
           OutputsRemoved, EditSource, EditConfig

\* Where neither artifacts nor manifest change, nor what is being emitted.
LEMMA DescribesUnmoved ==
    ASSUME ManifestDescribes, UNCHANGED <<outputs, manifest>>,
           disturbed \in BOOLEAN, ~disturbed' => ~disturbed,
           ~disturbed' => /\ pc \in {"idle", "snapshot", "analysis cache", "cleanup", "report"}
                          /\ pc' \in {"idle", "snapshot", "analysis cache", "cleanup", "report"}
    PROVE  ManifestDescribes'
<1>1. OfManifest' = OfManifest
    BY DEF OfManifest
<1>2. ASSUME Built(OfManifest, manifest) PROVE Built(OfManifest, manifest)'
    BY <1>1, <1>2 DEF Built
<1>3. outputs' = [module \in DOMAIN outputs' |-> outputs'[module]]
    BY DEF ManifestDescribes
<1>4. ASSUME ~disturbed'
      PROVE  /\ pc' \in {"idle", "snapshot", "analysis cache", "cleanup", "report"}
             /\ Built(OfManifest, manifest)'
    <2>1. Built(OfManifest, manifest)
        BY <1>4 DEF ManifestDescribes
    <2>2. QED  BY <1>2, <1>4, <2>1
<1>5. QED  BY <1>3, <1>4 DEF ManifestDescribes

\* What a build leaves is what its sources say: what it lowered is new, and the rest
\* was there.
LEMMA OutputsWritten ==
    ASSUME TypeOK, RunTells, RestIsBuilt, ManifestDescribes, ~disturbed, WriteOutputs
    PROVE  /\ DOMAIN outputs' = DOMAIN sources
           /\ \A module \in DOMAIN sources :
                 Summarized(outputs'[module]) = Summarized(EmittedIn(FreshManifest, module))
<1>1. pc = "outputs" /\ outputs' = Installed(run.lowered)
    BY DEF WriteOutputs
<1>2. run.lowered \subseteq DOMAIN sources
    BY <1>1 DEF RunTells
<1>3. Built(OfManifest \cap DOMAIN sources, manifest)
    BY <1>1 DEF ManifestDescribes
<1>4. ASSUME NEW module \in DOMAIN sources \ run.lowered
      PROVE  /\ module \in DOMAIN outputs
             /\ Summarized(outputs[module]) = Summarized(EmittedIn(FreshManifest, module))
    <2>1. module \in OfManifest /\ Summarized(EmittedIn(manifest, module)) = Summarized(EmittedIn(FreshManifest, module))
        BY <1>1 DEF RestIsBuilt, OfManifest
    <2>2. QED  BY <1>3, <2>1 DEF Built
<1>5. \A module \in run.lowered : Emitted(module) = EmittedIn(FreshManifest, module)
    BY FreshStateFacts
<1>6. DOMAIN outputs \subseteq DOMAIN sources
    BY <1>3 DEF Built
<1>7. /\ DOMAIN Installed(run.lowered) = DOMAIN outputs \cup run.lowered
      /\ \A module \in DOMAIN outputs \cup run.lowered : Installed(run.lowered)[module] =
            IF module \in run.lowered THEN Emitted(module) ELSE outputs[module]
    BY DEF Installed
<1>8. QED  BY <1>1, <1>2, <1>4, <1>5, <1>6, <1>7

LEMMA DescribesStep ==
    ASSUME IInv, [Next]_vars
    PROVE  ManifestDescribes'
<1> USE DEF IInv
<1>1. ASSUME NEW command, RunPipeline(command) PROVE ManifestDescribes'
    <2>1. CASE UNCHANGED vars
        BY <2>1, Unmoved DEF ManifestDescribes, Built, OfManifest, vars, files
    <2>2. CASE pc' = IF sources = << >> THEN AfterAnalysisState(run') ELSE "snapshot"
        <3>1. pc' \in {"cleanup", "report", "snapshot"}
            BY <2>2, AfterAnalysisFacts
        <3>2. pc = "idle" /\ UNCHANGED <<outputs, manifest, disturbed>>
            BY <1>1 DEF RunPipeline, files
        <3>3. QED  BY <3>1, <3>2, DescribesUnmoved DEF TypeOK
    <2>3. QED  BY <1>1, <2>1, <2>2, PipelineRuns
<1>2. CASE WriteSnapshot
    BY <1>2, DescribesUnmoved DEF WriteSnapshot, TypeOK
<1>3. CASE WriteAnalysisCache
    BY <1>3, AfterAnalysisFacts, DescribesUnmoved DEF WriteAnalysisCache, TypeOK
<1>4. CASE CleanupStale
    <2>1. /\ pc = "cleanup" /\ pc' = "outputs" /\ UNCHANGED <<sources, manifest, disturbed>>
          /\ outputs' = [module \in DOMAIN outputs \ Stale |-> outputs[module]]
        BY <1>4 DEF CleanupStale
    <2>2. OfManifest \ Stale = OfManifest \cap DOMAIN sources
        BY DEF Stale, OfManifest
    <2>3. OfManifest' = OfManifest
        BY <2>1 DEF OfManifest
    <2>4. ASSUME ~disturbed PROVE Built(OfManifest \cap DOMAIN sources, manifest)'
        BY <2>1, <2>2, <2>3, <2>4 DEF ManifestDescribes, Built
    <2>5. QED  BY <2>1, <2>4 DEF ManifestDescribes
<1>5. CASE WriteOutputs
    <2>1. pc' = "snapshot again" /\ UNCHANGED <<sources, config, disturbed>>
        BY <1>5 DEF WriteOutputs
    <2>2. ASSUME ~disturbed PROVE Built(DOMAIN sources, FreshManifest)'
        BY <1>5, <2>1, <2>2, OutputsWritten, Unmoved DEF Built
    <2>3. outputs' = [module \in DOMAIN outputs' |-> outputs'[module]]
        BY <1>5 DEF WriteOutputs, Installed
    <2>4. QED  BY <2>1, <2>2, <2>3 DEF ManifestDescribes
<1>6. CASE WriteSnapshotAgain
    <2>1. /\ pc = "snapshot again" /\ pc' = "manifest"
          /\ UNCHANGED <<sources, config, outputs, manifest, disturbed>>
        BY <1>6 DEF WriteSnapshotAgain
    <2>2. QED  BY <2>1, Unmoved DEF ManifestDescribes, Built
<1>7. CASE WriteManifest
    <2>1. /\ pc = "manifest" /\ pc' = "report" /\ manifest' = FreshManifest
          /\ UNCHANGED <<sources, config, outputs, disturbed>>
        BY <1>7 DEF WriteManifest, RunTells, FreshManifest
    <2>2. manifest' # None /\ OfManifest' = DOMAIN sources
        BY <2>1, FreshStateFacts, NoneAssumption DEF OfManifest, FreshManifest
    <2>3. QED  BY <2>1, <2>2, Unmoved DEF ManifestDescribes, Built
<1>8. CASE PrintSummary
    BY <1>8, DescribesUnmoved DEF PrintSummary, TypeOK, files
<1>9. CASE Interrupted
    <2>1. CASE InterruptSnapshot
        BY <1>9, <2>1, InterruptedKeeps, DescribesUnmoved DEF InterruptSnapshot, TypeOK
    <2>2. CASE InterruptAnalysisCache
        BY <1>9, <2>2, InterruptedKeeps, DescribesUnmoved DEF InterruptAnalysisCache, TypeOK
    <2>3. CASE InterruptOutputs
        BY <2>3 DEF InterruptOutputs, ManifestDescribes
    <2>4. CASE InterruptManifest
        BY <2>4 DEF InterruptManifest, ManifestDescribes
    <2>5. QED  BY <1>9, <2>1, <2>2, <2>3, <2>4 DEF Interrupted
<1>10. CASE CleanProject
    BY <1>10, NothingFacts DEF CleanProject, ManifestDescribes, Built, OfManifest
<1>11. CASE OutputsRemoved
    BY <1>11 DEF OutputsRemoved, ManifestDescribes
<1>12. ASSUME NEW module \in Modules, EditSource(module) PROVE ManifestDescribes'
    BY <1>12, DescribesUnmoved DEF EditSource, TypeOK, files
<1>13. CASE EditConfig
    BY <1>13, DescribesUnmoved DEF EditConfig, TypeOK, files
<1>14. CASE UNCHANGED vars
    BY <1>14, Unmoved DEF ManifestDescribes, Built, OfManifest, vars, files
<1>15. QED
    BY <1>1, <1>2, <1>3, <1>4, <1>5, <1>6, <1>7, <1>8, <1>9, <1>10, <1>11, <1>12, <1>13, <1>14 DEF Next
-----------------------------------------------------------------------------
\* At every step of every command, edit and interruption of run_pipeline: the cache
\* tells of the state it names, the manifest of out_dir, and a command of its sources.
THEOREM PipelineInvariant == Spec => []IInv
<1>1. IInv /\ [Next]_vars => IInv'
    <2>1. ASSUME IInv, [Next]_vars PROVE IInv'
        BY <2>1, TypeStep, CacheStep, ManifestStep, RunStep, RestStep, DescribesStep DEF IInv
    <2>2. QED  BY <2>1
<1>2. QED  BY <1>1, InitIsSound, PTL DEF Spec

\* Type correctness of the pipeline for any modules, texts and configurations.
THEOREM TypeCorrect == Spec => []TypeOK
<1>1. IInv => TypeOK
    BY DEF IInv
<1>2. QED  BY <1>1, PipelineInvariant, PTL

\* Whatever snapshot.json and analysis-cache.json hold, run_pipeline reports of every
\* module what its text and the summaries of all it reaches make of it now.
THEOREM ResultsAreAsSummarized == Spec => []CheckResultsAsSummarized
<1>1. ASSUME IInv PROVE CheckResultsAsSummarized
    <2> SUFFICES ASSUME pc = "report" PROVE
            [module \in DOMAIN run.diagnostics |-> Summarized(run.diagnostics[module].check)]
                = [module \in DOMAIN sources |-> Summarized(Checked(module))]
        BY DEF CheckResultsAsSummarized
    <2>1. /\ DOMAIN run.diagnostics = DOMAIN sources
          /\ \A module \in DOMAIN sources :
                Summarized(run.diagnostics[module].check) = Summarized(Checked(module))
        BY <1>1, FreshStateFacts DEF IInv, RunTells, Tells
    <2>2. QED  BY <2>1
<1>2. QED  BY <1>1, PipelineInvariant, PTL

\* A module that does not lower is reported by every command, and one that lowers under
\* any options by none.
THEOREM LoweringIsReported == Spec => []LoweringErrorsReported
<1>1. ASSUME IInv PROVE LoweringErrorsReported
    BY <1>1, FreshStateFacts DEF IInv, RunTells, Tells, TellsWhoFails, LoweringErrorsReported
<1>2. QED  BY <1>1, PipelineInvariant, PTL

\* A build that emits leaves artifacts of its sources, their options and the summaries
\* they reach, whatever the builds before it lowered and reused, as long as none of
\* them was stopped while it emitted.
THEOREM OutputsAreAsSummarized == Spec => []OutputsAsSummarized
<1>1. ASSUME IInv PROVE OutputsAsSummarized
    <2> SUFFICES ASSUME pc = "report", ShouldEmit(run), ~disturbed
                 PROVE  [module \in DOMAIN outputs |-> Summarized(outputs[module])]
                            = [module \in DOMAIN sources |-> Summarized(Emitted(module))]
        BY DEF OutputsAsSummarized
    <2>1. manifest = FreshManifest
        BY <1>1 DEF IInv, RunTells
    <2>2. manifest # None /\ OfManifest = DOMAIN sources
        BY <1>1, <2>1, FreshStateFacts, NoneAssumption DEF IInv, OfManifest, FreshManifest
    <2>3. /\ DOMAIN outputs = DOMAIN sources
          /\ \A module \in DOMAIN sources : Summarized(outputs[module]) = Summarized(Emitted(module))
        BY <1>1, <2>1, <2>2, FreshStateFacts DEF IInv, ManifestDescribes, Built
    <2>4. QED  BY <2>3
<1>2. QED  BY <1>1, PipelineInvariant, PTL

\* With no_emit_on_error no command writes out_dir while a source has an error, be it
\* one that only an earlier command looked at.
THEOREM NothingEmittedWithErrors == Spec => EmitsOnlyWithoutErrors
<1>1. ASSUME IInv, NoEmitOnError, pc = "outputs", NEW module \in DOMAIN sources
      PROVE  sources[module].fault # "type error" /\ Lowers(module)
    <2>1. /\ ~run.blocked /\ ~HasErrors(run.diagnostics)
          /\ Tells(run.diagnostics, FreshState)
          /\ run.blocked = (\E other \in DOMAIN sources : ~Lowers(other))
        BY <1>1 DEF IInv, RunTells, Emitting, ShouldEmit
    <2>2. /\ module \in DOMAIN run.diagnostics
          /\ Summarized(run.diagnostics[module].check) = Summarized(Checked(module))
        BY <1>1, <2>1, FreshStateFacts DEF IInv, Tells
    <2>3. Checked(module).of.text = sources[module]
        BY DEF Checked, CheckOf
    <2>4. \A one, other : Summarized(one) = Summarized(other) => one.of.text = other.of.text
        BY DEF Summarized, AsSummarized
    <2>5. run.diagnostics[module].check.of.text = sources[module]
        BY <2>2, <2>3, <2>4
    <2>6. sources[module].fault # "type error"
        BY <2>1, <2>2, <2>5 DEF HasErrors
    <2>7. QED  BY <2>1, <2>6
<1>2. IInv => [(NoEmitOnError /\ pc = "outputs" /\ outputs' # outputs) =>
                   \A module \in DOMAIN sources :
                        sources[module].fault # "type error" /\ Lowers(module)]_vars
    BY <1>1
<1>3. QED  BY <1>2, PipelineInvariant, PTL DEF EmitsOnlyWithoutErrors
=============================================================================
