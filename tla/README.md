# TypePython: a TLA+ verification project

TypePython is a compiler from a typed superset of Python (`.tpy`) to Python and stub
files: a command line (`check`, `build`, `watch`, ...) and a language server, in Rust. Two
kinds of code in it are hard to get right and hard to test, and these modules model both.

- What surrounds the translation. Both front ends keep the results of earlier work and decide, at
  each edit, how little they can redo; a loop hands diagnostics to an editor, another one rebuilds
  after file events. State lives long, and events come in any order.
- Three analyses that claim something of every Python program: which names a module exports,
  which types may stand for which, and what a guard tells about a name. Each is modelled beside
  what Python really does, and compared with it.

Source paths below are relative to the repository; `crates/` is `src/crates/` here.

## 1. Inventory

| Component | State it keeps | Operations | What is hard |
|---|---|---|---|
| `typepython_syntax` | none | source → syntax tree and lists of sites (guards, returns, assignments, ...) | size; a site that is lost is lost silently |
| `typepython_binding`, `typepython_graph` | none | syntax tree → declarations → module nodes | size; pure and sequential |
| `typepython_checking` | none between calls | check a set of modules against the graph; relate types; narrow names; summarise a module's public surface | what a result depends on; recursive types; narrowing by line numbers, without a flow graph; bounded fixpoints (`effects.rs`) |
| `typepython_lowering`, `typepython_emit` | none; `emit` writes files | lower to Python, plan paths, write artifacts file by file | an interrupted write |
| `typepython_incremental` | none; it defines the persisted state | snapshot, diff, dependency index, `affected_modules` | import cycles, imports re-resolved when modules come and go |
| `typepython_project` | a process-wide cache of support indexes | discover sources, detect collisions, index support files | cache races with the prewarm thread |
| CLI pipeline (`typepython_cli/src/pipeline.rs`) | `snapshot.json`, `analysis-cache.json`, `build-manifest.json`, `out_dir` | `check`, `build`, `clean` | crashes between writes, stale caches, changed options, reuse of outputs |
| watch mode (`typepython_cli/src/main.rs`) | watched targets, debounce | rebuild after events, adjust the watches | edits during a rebuild, a change of watches that fails halfway |
| static exports (`typepython_cli/src/api_diff.rs`) | abstract states of a module's top level | compute `__all__` without running the module | aliases, objects shared by containers, branches, handlers, deferred effects |
| LSP workspace (`typepython_lsp/src/workspace/`) | documents, support documents, summaries, dependency index, diagnostics by module, `parse_blocked` | apply one document event, load support modules, rebuild | stale results after any sequence of edits; updates that fail halfway |
| LSP loop and scheduler (`server.rs`, `scheduler.rs`) | overlays, the channel, the pending batch, canceled ids | dispatch a message, debounce diagnostics, flush | order of messages, superseded batches, starvation, shutdown |
| `typepython_config`, `_diagnostics`, `_target`, other CLI commands, the Python package, editor extension, scripts | none | parsing, reports, launching | nothing a model checker reaches |

How they interact. `check` and `build` run the pipeline once per process: discover and parse,
summarise (reusing summaries of unchanged sources), diff against `snapshot.json`, ask
`affected_modules` what to recheck, take the rest from `analysis-cache.json`, decide what to
lower from `build-manifest.json`, then write the caches and, for a build, the outputs.
`watch` runs the same build after file events. The language server keeps the same
summaries and index in memory: each document event goes through the channel to the loop,
which updates the workspace and schedules the diagnostics of every document as one batch.
Both front ends share `typepython_incremental` and the summaries of `typepython_checking`. The
type relation and the narrowing are what a check of one module asks for each expression; the static
exports are computed for the stubs and sources of two releases that `api-diff` compares.

What makes each correct:

- *Planning.* It ends; it leaves out no module whose inputs changed; it adds none without a reason.
- *LSP workspace.* What is published is what a check of everything would publish, as far as public
  summaries tell (section 2 says where they do not).
- *LSP loop.* What goes out is current, nothing due is lost or held back for ever, and requests see
  the text they were asked about.
- *Pipeline.* No reported result and no artifact is older than its text, its options and the summaries it
  depends on; with errors nothing is emitted; all of this across killed commands and changed options.
- *Watch mode.* When it waits, its last rebuild saw every edit it could hear of; it watches what the
  configuration names; it comes to rest, if it does not watch what it writes.
- *Static exports.* A resolved `__all__` is what the module may export: nothing missing, nothing made up.
- *Type relation.* What is assignable is safe; it chains, respects unions, is monotone under `Any`, and ends.
- *Narrowing.* A name never has a value its narrowed type rules out; what a guard decides is used.

`PROJECT.json` lists every component with its status and every hazard at its line.

## 2. Modules

| Module | Models | Role |
|---|---|---|
| `DependencyIndex` | `dependency_index`, `resolve_import_module_key`, `reverse_importers` | operators, shared by the first group |
| `IncrementalCheck` | summaries, `diff`, the result of `affected_modules`, what a check reads | operators, shared by the two front ends |
| `InvalidationRule` | section 17.3.2 of the artifact specification, as the code's doc states it | abstract specification |
| `AffectedModules` | the worklist of `affected_modules`, one turn of the loop per step | implements `InvalidationRule` |
| `LspWorkspace` | `workspace/lifecycle.rs` | uses `IncrementalCheck` |
| `LspServer` | `server.rs`, `scheduler.rs`, the state-changing part of `analysis.rs`, the editor | |
| `BuildPipeline` | `pipeline.rs`, the writes of `emit/src/runtime.rs`, `clean` | uses `IncrementalCheck` |
| `WatchLoop` | `run_watch` and `apply_watch_targets` of `main.rs`, the file watcher | |
| `ModuleRuns` | what Python computes for the top level of a module | external semantics |
| `StaticExports` | `static_all_names` of `api_diff.rs` and all it calls | compared with `ModuleRuns` |
| `SemanticTypes` | `SemanticType` of `type_core.rs`, substitution, unions, `Annotated` | operators |
| `Assignability` | `type_system/assignability.rs` | operators |
| `TypeValues` | which values a type holds | the reference semantics |
| `TypeRelation` | one comparison of two types of a menu | compares `Assignability` with `TypeValues` |
| `Guards` | what one guard makes of a type, in `type_system/flow.rs`, and what a test may answer | operators, with `TypeValues` |
| `FlowNarrowing` | which guards count at a line in `type_system/flow.rs` and `expressions.rs`, and the sites that `extraction/guards.rs` and `control_flow.rs` list | compared with runs of the function |
| `IncrementalCheckProofs` | | what a plan that leaves a module out guarantees, for any two workspaces |
| `AffectedModulesProofs`, `LspWorkspaceProofs`, `BuildPipelineProofs` | | theorems about the modules they extend, from `IncrementalCheckProofs` |
| `WatchLoopProofs`, `LspServerProofs`, `StaticExportsProofs`, `FlowNarrowingProofs` | | theorems about the modules they extend |
| `MC...` | | instances for TLC |

Definitions whose comment says "Mutant of ..." are deliberately wrong variants of the definition
that follows. They are used by no specification; each shows that one property can fail.

### Planning: `DependencyIndex`, `AffectedModules`

A module key is the sequence of its dotted segments, so that "the enclosing package" is a
prefix. A workspace maps the present modules to the import targets each names; `Imports`
resolves a target to its longest prefix that is a module, which is what
`resolve_import_module_key` does. `previous` and `current` are two workspaces of one
update. `direct_changes` is any set of modules, and `summary_changed_modules` is what `diff` may
return: every module added or removed, every module whose imports changed (imports are
part of a summary) and any others whose exports changed. `Start`, `Visit` and `Finish` are the
function's prologue, one turn of its `while` loop, and its end. The `VecDeque` is a set: the
order of visits is left open, which only adds behaviours.

`InvalidationRule` makes one step from "no plan" to any plan that holds `Required`: the
direct changes, and what is still there of the smallest set that holds the changed summaries
and is closed under importers.

### What a result depends on: `IncrementalCheck`

A text is a record: imports, public surface, what is hidden from the summary, body, and whether it parses.
`Summary` keeps the imports and the surface. `CheckOf(workspace, module)` is the checker's result, represented by
all it may read: the module's own text and, of the modules it can reach through imports, the summaries and the hidden
parts. A public type may come from an import of an import, and so the whole reachable part counts. Two results are
equal exactly when what they read is, so a property that compares results fails as soon as a cached one was
computed from anything that has since changed.

What is hidden is the gap between what a summary holds and what the checker reads. `semantic_public_summary`
(`checking/src/lib.rs:933`) records, of a class, its bases, type parameters and, per member, name, kind and annotation in
sorted order (`:1043`). The checks of other modules read more from the graph: the signatures of methods for overrides
(`declarations.rs:53`), whether a method is final, abstract, deprecated or an override, and the defaults and
the order of fields (`calls/dataclass.rs:37`); so do the stubs of data classes (`stubs.rs:254`). Changing the return type
of a method in `base.tpy` therefore does not recheck the modules whose classes extend it: their diagnostics, cached or shown, and
their `.pyi` stay those of the earlier base until something else has them rechecked. The artifact specification asks
for more: section 6.1.2 (`docs/spec/artifact-and-tooling-spec-v1.md:281`) has summaries suffice to decide when dependents must be rechecked.
So "results are exactly those of a full check" is false of this code. What is true is stated with `AsSummarized`,
which keeps of a result its text and the summaries it saw: `PublishedAsSummarized`, `CheckResultsAsSummarized` and
`OutputsAsSummarized` fail for every other way a result may be older than the sources. `LeftOutChecksAreKept` says what the gap is:
the result of a module that a plan leaves out stands if and only if nothing hidden has changed in what it reaches.

### The language server's workspace: `LspWorkspace`

`UpdateProjectDocument` is `apply_project_path_update`: the text is stored, then the support
modules the project wants are loaded, then `Rebuild` is `rebuild_state`. `UpdateSupportFile` is
`apply_file_system_path_update` for a file that is not the project's: both support caches are
dropped and everything is rechecked. The load fails when the support index names a file that
is gone from the disk; the cache then holds any part of what was wanted, the results stay as
they were, and the error goes to the caller. The bundled standard library, which
`sync_support_documents` searches first, does not change and is left out. `published` is the outcome of the rebuild (blocked
by a collision or a parse error, or the results per module), `rechecked` remembers which
modules were run, and `degraded` whether an update has failed since everything was rechecked.
`rebuild_state` also refreshes symbol and reference indexes; these are not in the model.

### The language server's loop: `LspServer`

`channel` is the mpsc channel between the reader thread and the loop. Every `Serve` disjunct is
one turn of the loop: it takes the oldest message, runs the handler, then `flush_due_after`. A
batch has a `wait` in ticks (the time to `due_at`), a count of deferrals, and its notifications.
The clock ticks at any time while the batch waits. A document's diagnostics are its text, clean
or broken. `editor` is the buffer as the editor last sent it, `overlays` what the server
has applied of it, `documents` the workspace's view of each project file, `shown` what the
editor displays. The environment opens, changes (also out of sync), closes, watches, asks,
cancels, and ends the session in each of the three ways the code knows: `exit`, end of input,
unreadable input. Updates of the workspace do not fail here: that is `LspWorkspace`'s part.
A cancellation is one more message of the channel, so it is handled after the request it is about
and only leaves its id behind; `IdsReused` says whether the editor may use such an id again, in
which case that request is dropped (`DropCanceled`).

### The build pipeline: `BuildPipeline`

The three cache files and the artifacts are values, `None` when a file is missing, torn or of
an older schema (the loaders treat all three alike). `RunPipeline` is `run_pipeline`, from the
discovery to the snapshot it returns; the steps after it are the writes, in the code's order,
each of which may be where the command stops: killed, or by an error it returns. `Interrupted`
leaves the file being written old or torn, and for the outputs any mixture of old, new and missing
files, since they are renamed into place one at a time. A lowered artifact is represented by
what it was made from, as a check result is; a stub also reads the hidden parts of other modules. Diagnostics of lowering and of surface
completeness are counted (0, 1, many), since the code appends them to lists.

Simplifications: `.py`, `.pyi` and `.pyc` of a module are one artifact; `out_dir` itself does not
move; sources change between commands only, as a command reads each once; support modules
are left out; one command runs at a time; `effects.json` is written and never read.
Three keys hold parts of the configuration, and three options stand for the parts: `target_python` is in the
snapshot's metadata (`Metadata`), and so in the other two; `require_known_public_types` only in the analysis cache's (`AnalysisMetadata`);
`shape_transforms` only in `output_config` (`OutputConfig`). The last one decides `TPY4017` for a transform whose target is
a data class (`LowersUnder`), yet no key of a cached diagnostic holds it: after it is turned on, the cached error of an unchanged module
is still reported, and with `no_emit_on_error` keeps the build from writing, until the module is edited or the
caches are cleaned. `LoweringErrorsReported` therefore says of a command that it reports every module that does not lower, and none that lowers
under any options; turning the option off is caught, since the outputs are then not reused and everything is lowered.

### Watch mode: `WatchLoop`

One step per thing that can be overtaken: `LoadProject` reads the configuration anew, `ReadRoot` reads
the sources of one root, `FinishBuild` plans the change of watches, `Unwatch` and `Watch` are the two
loops of `apply_watch_targets` call by call (each may fail, and ends it), `Applied` returns to the
loop, `Receive` takes one event and `Timeout` is the debounce that passes without one. An edit may
come between any two of them. A rebuild is reduced to what it read and when: its result is
`BuildPipeline`'s. An event's paths only reach a note on the terminal, so `channel` counts events.
`unseen` holds the paths that changed where no watch was, among them what changes
before the first watches are registered and what a watch that went away with its file would have
reported; the loop cannot know of these. A root is watched once for its whole tree. An error the watcher
reports is printed wherever it is received, and is no step.

A configuration says which roots are sources (`src`) and which have `out_dir` or `cache_dir` under them (`written`).
`validate_project_paths` compares these two directories with each other only, so they may lie under a source root (`src = ["."]` with the
default `.typepython` does). Roots are watched recursively and `run_watch` does not filter events, so what a rebuild
writes there (`Write`; `snapshot.json` is rewritten each time) is an event that causes the next rebuild.
What is written is kept from being a source by `project.exclude`, as its default does.

### Static exports: `ModuleRuns`, `StaticExports`

`api-diff` needs the names a module exports, and `__all__` may be built up by statements. A
behaviour of `StaticExports` appends one statement of a menu at a time and runs it twice: on
the abstract states of the analysis (`states`: known sequences, alias pairs, whether `__all__` is missing,
known or dynamic), and on every state Python may be in (`runs`: an environment and a heap, in which an
object is a sequence of strings and may be shared by names and held by other objects). `if` is
followed into the clauses its test allows. An exception may leave the body of a `try` before, in the middle of
or after any statement, those inside an `if` included (`raised`); a statement whose value raises leaves no run. Functions
have effects that take place when they are called. Lists, tuples and sets are one kind of sequence;
strings are model values. `tracked` is any set of names that satisfies what `static_all_dependency_names`
computes for the statements at hand (`Closed`), and `Mentions` is `StaticAllReferenceFinder`, which also looks at the
tests of an `if` and the names of handlers.

`ModuleRuns` also says which shapes expressions and statements have (`IsStatement`), and `MenuAssumption` that the menu has no
others: a suite of an `if` has no compound statement, one of a `try` may have an `if`. Memory is bounded by `Objects`, three
objects for each name; `Swept` gives back what no name reaches, and a run that would need more ends.

Five forms of statements are in `MCStaticExports` as `Overlooked` and outside the menu of the run,
because the analysis looks past them and `ExportsComplete` fails with each: an import of `__all__` inside
a `with`, `x[0][0] = ...` through an alias, a function with `__all__` as the default of an argument
that it changes, `__all__ = __all__`, which resolves nothing, and `m += c` where `c` holds `__all__`: `m` holds it
afterwards and is not tracked, so that a call of a function with `m` goes unseen. `Followed` names all five. That the menu has only
followed statements, and `Overlooked` none, are assumptions that TLC evaluates.

### The type relation: `SemanticTypes`, `Assignability`, `TypeValues`, `TypeRelation`

A type is a record as `SemanticType` is an enumeration: names, generics, callables, unions, annotated
types. `Assignability` follows `semantic_type_is_assignable_with_visiting` and its helpers branch by branch and
in their order, with the `visiting` set that cuts recursive aliases; a comparison that would call itself
for ever answers "loops". Declarations are those of one module: classes and interfaces with bases and
members, aliases, newtypes, enums. `TypeValues` is independent of it: `Holds` is the set of values of
a universe a type holds, to a depth: an instance of a class is whatever a subclass makes it, a function is the table
of its results, a container is told by the type it was made for. `TypeRelation` compares every pair of a
menu under the two options that change the answer, null strictness and taint.

Left out: imported names, the special cases for context managers, `Callable` as a generic
head, aliases that reach themselves through no constructor (`A = B` with `B = A`:
`expand_semantic_type_alias_once`, `assignability.rs:1220`, begins each alias with an empty `seen` set, so the
code recurses without end, where `ExpandedAliases` would stop). Builtin classes are leaves. `shape`
stands for the names and modifiers of parameters. Attributes are read-only in the reference,
as the code takes them. `MCTypeRelation` lists as `Overlooked`, outside the menu, the types for which the
relation is not what its reference says: a class that extends an interface is taken for one (anything
with its members goes there), a list of a recursive alias is compared one way only, unions in an
invariant place are told by their widest and narrowest branches, the `...` of a tuple counts as an
object, and a union of a tainted type takes no tainted value.

### Narrowing: `Guards`, `FlowNarrowing`

A function of a parameter and locals is written line by line, in blocks: guards with an
`if`, `elif`, `else`, returns, asserts, assignments, aliases, augmented assignments, deletions. The checker
has no flow graph; it is given the sites (`if_guards`, `asserts`, `returns`, `assignments`, `invalidations`,
each with lines) and decides with line numbers. The model writes the same lists, and keeps beside
them, for the properties only, `runs`: the values the names may have wherever the next line goes, following each
test on values; `scope`: the clauses each line is in; and `clauses`: those each `if` has. The runs of a clause are done with the
`if`; the others go into the next clause, or past its end.
`TypeAt` is `resolve_direct_name_reference_semantic_type` for one line: `Facts` are the guards in effect there, the
ifs whose suite returned and the asserts, in the order the code applies them, and `TypesAt` goes from line to line, since the type of an
assignment is that of its value at its own line.

What one guard makes of a type (`Narrow`), how types join, which values a type has and what a test may answer are
parameters, so that the proofs are about any. `Guards` is what the code does: conditions
with `and`, `or` and `not`, `isinstance`, `is None`, truth, `TypeIs` and `TypeGuard`. That each of its guards is true of values is
the assumption `GuardsTell`, which TLC evaluates for every type, test and outcome of the menu. It is about the
menu and not about all types: `narrow_to_instance_semantic_types` (`flow.rs:623`) keeps the branches of a union that are among the tested
types and drops a tested subclass of another branch, so `isinstance(x, (int, Dog))` leaves `int` of `int | Animal`,
and a `Dog` is overlooked. No declared type of the menu is such a union.

`NarrowingIsSafe` is stated for lines that come after everything the type rests on (`RestsOn`), and
`NarrowingIsTight` while each guard decides by whole members of a union (`exact`). These conditions
name what the design by lines cannot do, and each was met as a counterexample before it was written down:
an assert or an `if` with a return that is itself inside a branch narrows the lines after that branch too; any
nested return counts as its suite returning; the suites of `elif` count as one false suite, of which one may return
and another not; an `isinstance` on what is no union replaces the type; `list[int]`, `Literal[0]` and `object` count as surely true. An alias ends when either name is assigned on an earlier
line, in whatever branch, which is on the safe side. Loops, `try`, `with`, `match` and `:=` are not
modelled. An `if` whose suite is on its own line loses its site and narrows nothing.

## 3. Runs

| Run | Instance | Checks | Distinct states |
|---|---|---|---|
| `affected` | 4 modules, 12 workspaces and none, with a cycle, a package with a nested module that may be absent, and an import that resolves to a module, its package, or nothing; any direct changes and summary changes | `TypeOK`, `PlanIsExact`, `LeftOutInputsUnchanged`, refinement `ImplementsRule`, `Terminates` | 101,696 |
| `server_exact` | a project file and a document outside the project, one request id that may be reused, at most 2 messages in flight, debounce of 1 tick, 3 deferrals as in the code | `TypeOK`, `NoStaleBatch`, `ShownIsCurrent`, `AnsweredInOrder`, `DiagnosticsSettle`, `RequestsAnswered` | 458,715 |
| `workspace_exact` | 4 paths for 3 modules (two spellings of one), texts that differ in body, hidden part, surface, imports and parsing, one support module with two versions | `TypeOK`, `PublishedAsSummarized`, `ImplementationChangeIsLocal` | 48,354 |
| `build_exact` | 2 modules, one importing the other; type, lowering and syntax errors, a transform that `shape_transforms` lets through; a change of a hidden part; two target versions; a command may stop anywhere | `TypeOK`, `CheckResultsAsSummarized`, `LoweringErrorsReported`, `OutputsAsSummarized`, `EmitsOnlyWithoutErrors` | 919,988 |
| `watch` | 2 roots of which the configuration names one or both, or one that the caches lie under, or does not load; 2 events in flight | `TypeOK`, `LastRebuildIsCurrent`, `WatchesFollowConfig`, `ActiveWasWatched`, `SettlesAfterEdits` | 673,224 |
| `exports` | programs of 3 statements from a menu of 50, over `__all__`, two more sequences and a function; 4 abstract states instead of the code's limit | `TypeOK`, `EveryRunDescribed`, `ExportsComplete`, `ExportsPossible` | 35,691 |
| `types` | all pairs of 89 types over 8 classes and interfaces, 2 aliases, under all 4 settings | `TypeOK`, `AssignableIsSafe`, `AssignableChains`, `UnionsAreBounds`, `AnyLoosens` | 63,368 |
| `flow` | functions of 2 blocks of 64, 6 declared types, 10 tests; the assumptions on guards and joins | `TypeOK`, `NarrowingIsSafe`, `NarrowingIsTight` | 125,899 |

Why the bounds suffice. The planner compares only two indexes, so two workspaces and a chain
of three importers with a cycle show direct, transitive and re-resolved imports. The
workspace and the pipeline carry state over any number of updates: the runs do not bound their
number, only the texts, two to four per module, enough to tell a change of body, hidden part, surface and
imports apart and to come back to an earlier one. In `build_exact` not all of these meet in one state: `Together` lists
which kinds of texts and options do (`OneVariation`), among them each fault beside a right text, and the transform of a data class
with `shape_transforms` on and off. In the server and the watch loop, two messages in flight are enough for one
to overtake what the other was based on; longer channels delay the same steps. `MaxChannel` is
the only bound on a state variable there; `Many = 2` caps a count whose only question is "more than once".
Initial workspaces in `LspWorkspace` import nothing external; the first edit may. Three statements are what
it takes to alias, change through the alias and export; `MaxStates = 4` lets the analysis meet its limit. Menus of types
reach an argument of an argument, where variance turns twice. Two blocks are a narrowing, and what
comes between it and its use.

Deadlock is checked except where the system stops by design: the worklist ends, the server
ends on `exit`, at the end of input or on an error, watch mode ends when its first build fails, and a program, a
comparison and a function are complete when nothing is left to append.

Fairness. `AffectedModules` assumes that the loop runs. `LspServer` assumes weak fairness of the
loop (`Serve`), which is enabled from the moment a message is in the channel or a batch is due until it
acts (`recv_timeout` returns in both cases), and of the clock (`Tick`). The editor owes nothing:
`DiagnosticsSettle` holds although it may go on asking for ever, because deferrals are counted.
`WatchLoop` assumes weak fairness of the loop (`Run`): a rebuild ends, an event in the channel is received, and the
time-out of `recv_timeout` passes. It is enabled whenever the loop is not waiting for an event that has not come, and nothing is asked of the one
who edits: `SettlesAfterEdits` is about behaviours in which the edits stop. Its second half, that the loop comes to rest, has one more
premise: from some point on the configuration in use has no written directory under a watched root. Without it the loop may rebuild
for ever; its first half, that the rebuilds come to be of the last edit, holds even then.

What is stated with a condition. `PublishedAsSummarized`, `CheckResultsAsSummarized` and `OutputsAsSummarized` compare what summaries tell
(section 2). `PublishedAsSummarized` holds until an update has failed: what that update changed
directly is not checked again by the next one, unless it changes it too. `LoweringErrorsReported` leaves out a module that lowers only with
`shape_transforms`, which the cache may report after the option was turned on. `EmitsOnlyWithoutErrors` is about the errors of a module's own
text. `OutputsAsSummarized` holds until an emission was interrupted or
files were removed by hand: a manifest that was not rewritten may match sources that come back,
while the artifacts are those of a later text, or missing. `LastRebuildIsCurrent` is about what a watch reported.

### Runs that refute something

Each of these checks one statement of the documentation or the tests, and finds a behaviour of
the code that contradicts it.

| Run | What happens |
|---|---|
| `server_cleared` | A project file is deleted; the batch that clears its diagnostics is replaced by the batch of another event before the debounce ends, and they stay on screen. |
| `build_surface` | Build, then turn on `require_known_public_types`, then check: the cached diagnostics are rightly dropped, the outputs are reused, and the early return skips the completeness check. |
| `types_recursion` | A class is compared with an interface whose method returns the interface: the comparison of members starts with an empty `visiting` set and asks the first question again, without end. |
| `flow_join` | `z = none()`, then `if c: z = number()`: after the `if` the type of `z` is `int`, the textually last assignment, and the `None` of the other path is forgotten. |

All four need only ordinary use.

## 4. Proofs

Eight modules hold theorems; their theorems hold for every value of the constants that satisfies the
named assumptions. Of the eight instances of section 3, seven are covered: every safety property
of the planner, the workspace, the pipeline, the watch loop and the server is a theorem, and so is every property of the
static exports but `ExportsPossible` and of the narrowing but `NarrowingIsTight`.

`IncrementalCheckProofs` is about any two workspaces whose imports are sequences of strings. `Closure` is defined as the
smallest set that holds the seeds and that no step leaves, so that a proof can use it without a recursion.

- `LeftOutChecksAreKept`: a module outside `Affected` was in the previous workspace with the same text, and what it
  reaches is the same set of modules with the same summaries, as long as the direct changes hold every module whose text changed. Its
  result is the one a check gives now if and only if none of these has changed what is hidden: the theorem claims no more of a
  plan than the summaries support. The visited modules
  are closed under importers in both indexes (`PlanHoldsVisited`). So a module that is not visited imports
  none that is, before or after. All others have the same summary, and their targets resolve alike: of two
  prefixes of one target the longer would be an added or removed module, which is visited (`SameResolution`, `SameImports`).
  So what a left-out module reaches is the same set, with the same summaries (`SameClosure`). Every target that
  resolves has a longest prefix, by well-founded induction over lengths (`LeastElement`, `LongestKey`).
- `ReusedAreCurrent`: summaries taken over by module key are the current ones as long as no kept one changed.

`AffectedModulesProofs` proves, for every `Modules` and `Workspaces` that satisfy
`WorkspacesAssumption` (each workspace maps some of the modules to sets of sequences of strings):

1. `TypeCorrect`: `Spec => []TypeOK`. It rests on the fact that the index of a workspace maps
   its modules to its modules (`IndexType`).
2. `LoopInvariant`: `Spec => []LoopInv`. What the specification asks for, that the plan is closed under
   importers, holds only at the end. In the loop, a visited module's importers may still be
   unvisited as long as it is in the queue itself. `LoopInv` says just that, with: everything
   visited that is still present is planned, and so are the direct changes.
3. `LoopImplementsRule`: `Spec => ImplementsRule`. The loop's steps are stutters except
   `Finish`, where the queue is empty; then `visited` is a set closed under importers that holds
   the changed summaries, so it contains the smallest one, and the plan holds `Required`
   (`PlanHoldsRequired`).
4. `LeftOutModulesAreUntouched`: `Spec => []LeftOutInputsUnchanged`. It adds `InputsInv` (how
   the inputs relate to each other, which no step changes) and the argument about resolution above (`LeftOutImports`).
5. `LoopPlansExactly`: `Spec => []PlanIsExact`. It adds the other direction to `LoopInv`:
   `NoMoreThanReachable`, that the loop visits only what is reached from a changed summary and plans only what the result of `Affected` holds.

`LspWorkspaceProofs` proves, under `WorkspaceAssumption`, for any paths, texts and support modules:

1. `WorkspaceInvariant`: `Spec => []IInv`. `ResultsTell` says that until an update has failed the summaries, the
   index, `parse_blocked`, what is published and, unless blocked, the results per module are those of the documents as
   they are, the results as far as summaries tell (`Tell`). `PublishedAsSummarized` alone is not inductive: the next update starts from the summaries and the index, and
   while a file does not parse they move on and the results do not. That a module other than the edited one keeps its text needs that
   support texts, once cached, are never replaced (`Extends`), and that two spellings of one module are chosen between alike
   (`OtherTextsStay`); then `RebuildTells` is `LeftOutChecksAreKept` and `ReusedAreCurrent`. `SupportLoaded` says that the support modules
   in use are those the project wants, read from the cache, whatever has happened to the files since.
2. `TypeCorrect` and `IncrementalTellsAsSummarized` (`PublishedAsSummarized`) follow. `ImplementationIsLocal` is the action property
   `ImplementationChangeIsLocal`: an edit with the same summary changes no target, so what is loaded
   stays (`SameSupport`), no summary changes (`SameSummaries`) and the plan is the direct change (`NothingMore`).

`BuildPipelineProofs` proves, under `PipelineAssumption` and `NoneAssumption` (a missing file is no state):

1. `PipelineInvariant`: `Spec => []IInv`, with a lemma per part. `CacheTells`: `analysis-cache.json` holds the diagnostics of the
   state it names, under the options it names; it need not be the state of `snapshot.json`, since a command may stop between the two writes.
   A lowering error it holds is of a module that fails under some options (`Tells`), as the options it was found under are not part of it; that
   none is missing is `TellsWhoFails`, of a running command only.
   `ManifestLowers`: a manifest is of sources that all lower under its options. `RunTells`: what a command holds in memory is of its sources.
   `RestIsBuilt`: a module that a build does not lower has in the manifest an artifact no older than the summaries tell.
   `ManifestDescribes`: as long as nothing disturbed an emission, the artifacts are those of the manifest; between cleanup and manifest, those of
   the part of it that is still in the project, then those of the sources. The step that reads the caches is the hard one: what is taken from the cache
   or not lowered was left out of a plan between two states, and `LeftOutChecksAreKept` applies (`NotAffectedSince`).
2. `TypeCorrect`, `ResultsAreAsSummarized` (`CheckResultsAsSummarized`), `LoweringIsReported` (`LoweringErrorsReported`),
   `OutputsAreAsSummarized` (`OutputsAsSummarized`) and `NothingEmittedWithErrors` (`EmitsOnlyWithoutErrors`) follow.

`WatchLoopProofs` proves, under `WatchAssumption`, for any roots, settings, contents and length of the channel:

1. `LoopInvariant`: `Spec => []IInv`, where `IInv` adds to `TypeOK` five parts, each with a lemma per kind of
   step. `Loaded` says that a running rebuild is working on the configuration it read. `CurrentOrAwaited` is
   the heart: for each path the last rebuild depends on, it was read as it is now, or it changed unheard, or the running rebuild
   has still to read it, or an event is in the channel, or the loop is already past one and will rebuild.
   `AttachedIsActive` and `PlanFollows` relate the watches, the active targets and what is left of the plan to the
   configuration that was read, and `Shaped` says where in the loop a plan may be left over.
2. `TypeCorrect`, `WaitsOnCurrentBuild` (`LastRebuildIsCurrent`) and `WatchesAreTheConfigured`
   (`WatchesFollowConfig`) follow from it at the places the loop waits; `ActiveIsWatched` is the action property
   `ActiveWasWatched`, from the guards of `Watch` and the invariant.

`LspServerProofs` proves, for any documents, ids, debounce, deferrals and length of the channel:

1. `SchedulerInvariant`: `Spec => []IInv`. A pending batch is a batch (`IsBatch`), it holds the present
   diagnostics of every document the server publishes (`PendingCovers`), and without one the editor already shows
   them (`ShownIsCurrent`). Neither half is inductive alone: a flush turns the first into the second, and a
   message that changes a document replaces the batch by one of all documents.
2. `WaitingIsCurrent` (`NoStaleBatch`) and `NothingIsLost` (`ShownIsCurrent`) follow.
3. `TypeCorrect`: `Spec => []TypeOK`. It needs the type of what is on its way (`ChannelTyped`: the channel is a sequence of
   `Messages`), and that a batch made of published and clearing notifications is one again (`OverIsNotifications`).

4. `ServerFollowsEditor`: `Spec => []Ordered`. `Holds` runs the server ahead without a recursion: after the first k messages a
   buffer has the text of the last of them that edits it, or else the one it has now. `BuffersFollow` says that after
   all of them the server has what the editor has; `ChangesFollow` and `RequestsFollow` say what the server will have when a
   change or a request is next. The two are needed together: that a change is accepted, and not refused for a closed
   document, is what keeps `BuffersFollow`. `OneRequestPerId` says that an answer ends the wait of one request, and
   `DocumentsFollow` that the workspace has the open documents as the loop has them. An appended message adds to `Holds`
   (`AppendEdit`, `AppendOther`), a handled one moves from the queue into the buffers (`TailHolds`).
5. `AnsweredFromText`: `Spec => AnsweredInOrder`. Only `Answer` ends a wait, at the head of the channel, where `RequestsFollow` is about
   the buffers as they are.

`StaticExportsProofs` proves, under `MenuAssumption` (the statements have the shapes of section 2), `LimitAssumption` and
`StringsAssumption` (a string is none of the three answers), for any names, strings, menu, limit and length of programs:

1. `ExportsTyped`: `Spec => []TypeOK`, whatever the menu. That the pairs of `add_alias` stay an equivalence
   (`WellPaired`) is the part a single step could break.
2. `CoveringAlways`: the inductive invariant `Covering`, for menus of statements that are `Followed`. `EveryRunDescribed`
   is not inductive: a state that is right about the sequences it knows may still be made wrong by a call or an assignment to
   an item of a name it knows nothing of, if that name reaches the object. So `Follows` asks of a state and a run that the objects can be
   split (`Apart`): what the untracked names are bound to, and all it holds, is in a set `out`, no function in `out` works on a
   tracked name, and the sequences the state knows are lists outside `out` that hold no other object and whose other
   names are alias pairs. `Untouched` says what evaluating an expression apart from some names leaves as it was; each kind of statement then has
   a lemma (`AssignFollows`, `UnpackFollows`, `ExtendFollows`, `DeleteFollows`, `FreshFollows`, ...), joined in `SimpleFollows`. A statement
   that names nothing tracked is `BesideFollows`. `Closed` is needed where a value moves between names: tracked and untracked names never
   share an object.
   `Covers` lifts this from one state and run to the sets of both, through suites (`SimpleSuiteCovered`), the clauses of an `if`
   (`IfCovered`), the prefixes of a `try` body (`TryBodyCovered`), its handlers and its `finally` (`TryCovered`). The hard case is an exception
   inside an `if` of a `try` body, whose prefixes `evaluate_static_all_try_body` does not keep: it is covered because the body
   is refused if the `if` may change a tracked sequence, and otherwise its statements only make a state say less (`SimpleStill`).
   The second half of `Covering` is `QuietRuns`: until the program mentions `__all__`, no run binds it, and it is apart as the
   tracked names are, so that no call through other names reaches it.
3. `RunsAreDescribed` (`EveryRunDescribed`) and `ExportsAreComplete` (`ExportsComplete`) follow, both with the premise `AllFollowed`, which
   excludes statements of the five forms of `Overlooked` and no others; TLC evaluates that the menu of the run satisfies it.

A suite is a fold of the community modules, whose definition is a recursive function on sets; `FoldExists` and `FoldSteps` turn
it into a function of the length of the prefix, and `Steps` carries a fact from one prefix to the next. They stand in for an
induction theorem, and each fold of the model is instantiated once (`SimpleSuiteSteps`, `FlatSuiteSteps`, `TryBodySteps`, ...).

`FlowNarrowingProofs` proves, under `NamesAssumption`, `BlocksAssumption` (what is assigned to a name is of its types), `TypesAssumption`,
`JoinsHold` and `GuardsTell`, for any names, types, tests, menu of blocks and length of functions:

1. `FunctionsAreStructured`: `Spec => []Structured`. The sites are in the order of their lines (`Ordered`); each `if` has its suites one
   after the other (`LaidOut`), and a line between theirs is in one of its clauses (`Scoped`); the open ifs are those of
   `suites`, each in the clause of the one before (`Nested`). This is what lets `flow.rs` decide by comparing lines. `TypeCorrect` follows.
2. `RunsHaveHistories`: `Spec => []Lived`. `NarrowingIsSafe` is not inductive: the types of the names and what they rest on are computed anew at each line
   from all the sites, and what was true of a run at an earlier line says nothing unless the run is known to have been there. So every run has a history: the clauses it took,
   of each `if` the first or others and not both, nor none if there is an `else`, and the values of the names at every line, each following
   from the line before it by what stands there (`Happens`). Runs that wait at an open `if` are in none of its clauses so
   far, and those done with a clause in one before the last (`Waits`, `IsDone`). That the lines before stay as they were when a
   site is added is `OldHappens`, and that one more line makes one more step, `Extends`.
3. `NarrowingSafe` (`NarrowingIsSafe`) is then about one state and one history, by induction over its lines: the type of a name at a line
   is made of types at earlier lines (`TypesUnfold`, and `RestingUnfold` for what it rests on: the two functions over lines have
   the values that their recursion says). A name that no passed line sets keeps its value (`Persists`), and `Reassigned` overlooks no such line
   (`NotReassigned`); so what an enclosing guard, an assert or an `if` with a suite that surely returns told of the value still holds
   (`BranchTaken`, `AfterReturnTaken`, `FactsAreSound`), a local has what its last assignment gave it (`LocalSinceDeleted`) or one of the
   two that are joined (`LocalJoined`), and narrowing by true facts keeps the value in the type (`NarrowedHolds`).

The two functions over lines and the fold over facts are finite, so the induction is over a set of numbers (`Steps`).

Left to TLC: liveness (`Terminates`, `DiagnosticsSettle`, `RequestsAnswered`, `SettlesAfterEdits`), which the prover's
backends do not do under fairness; `ExportsPossible`, the other direction of `ExportsComplete`, which is a fact about the menu and not about all programs: a branch that always
raises after it binds `__all__` would still add its names; `NarrowingIsTight`, the other direction of `NarrowingIsSafe`, which is
about the unions and tests of the menu; that `Guards` satisfies `GuardsTell`, and everything about the relation of types: they are
recursions over types, written with recursive operators, and what a recursion computes for every
input needs an induction the provers cannot instantiate.

## 5. Not modelled, and plan

Not modelled at all: the translation itself (parsing, binding, graph, lowering, stub text), inference of
expressions and calls, effects, the rest of the API comparison, archives and reports, configuration parsing, the Python launcher, the
editor extension. They are pure or plain I/O; the models take from them what is named in section 2.

Left for later, in order:

1. `LspReferences`: which documents' symbol and reference indexes `rebuild_document_indexes`
   refreshes, against an index built from scratch. References through an instance are resolved
   against the state of before the update, so an unaffected document may keep the member resolution of another module's earlier text.
2. `LspSession`: `LspServer` composed with a workspace whose updates may fail, and notifications
   that carry several file changes (`change_watched_files` returns at the first error).
3. `SupportIndexCache`: the process-wide cache, the prewarm thread and invalidation.
4. `ConcurrentCommands`: two pipelines on one cache directory.
5. Loops, `try` and `match` in `FlowNarrowing`; the bounded effect inference of `effects.rs` against its
   fixpoint; the application of content changes in UTF-16 positions.
