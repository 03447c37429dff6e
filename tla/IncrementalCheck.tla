-------------------------- MODULE IncrementalCheck --------------------------
(***************************************************************************)
(* What the language server and the build pipeline share: the summaries,   *)
(* diff and affected-module plan of typepython_incremental, and what a     *)
(* recheck of typepython_checking depends on.                              *)
(*                                                                         *)
(* A workspace is a function from module keys to texts.  A text is a       *)
(* record of the import targets, the surface its public summary holds,     *)
(* what other modules see of it besides (hidden), and what is its own: the *)
(* body, whether it parses, what is wrong with it.                         *)
(*                                                                         *)
(* Of a class the summary holds the bases and, per member, name, kind and  *)
(* annotation, in a sorted order.  Hidden are the signatures of methods,   *)
(* whether a member is final, abstract, deprecated or an override, and the *)
(* defaults and the order of fields: the checks and the stubs of other     *)
(* modules read them from the graph.                                       *)
(***************************************************************************)
EXTENDS DependencyIndex

ImportTargets(workspace) == [module \in DOMAIN workspace |-> workspace[module].imports]

Index(workspace) == IndexOf(ImportTargets(workspace))

\* semantic_public_summary and its shape fingerprints: the exports and the imports
\* of one module, from that module's text alone.  Neither a body nor what is hidden
\* is a part of it.
Summary(text) == [surface |-> text.surface, imports |-> text.imports]

\* Mutant of ReusedSummaries: the summaries of removed modules stay.
ReusedSummariesOfAll(workspace, previous, rebuild) ==
    [module \in DOMAIN workspace \cup DOMAIN previous |->
        IF module \in DOMAIN workspace /\ (module \in rebuild \/ module \notin DOMAIN previous)
        THEN Summary(workspace[module])
        ELSE previous[module]]

\* semantic_incremental_state_with_reused_summaries: only the modules to
\* rebuild, and those with no previous summary, are summarised anew.
ReusedSummaries(workspace, previous, rebuild) ==
    [module \in DOMAIN workspace |->
        IF module \in rebuild \/ module \notin DOMAIN previous
        THEN Summary(workspace[module])
        ELSE previous[module]]

Summaries(workspace) == ReusedSummaries(workspace, << >>, {})

\* diff and snapshot_diff_modules: added, removed or changed.
DiffModules(previous, current) ==
    {module \in DOMAIN previous \cup DOMAIN current :
        \/ module \notin DOMAIN previous \cap DOMAIN current
        \/ previous[module] # current[module]}

\* What can be reached from the seeds: the smallest set that holds them and that
\* no step leaves.
Closure(seeds, next) ==
    {member \in DOMAIN next :
        \A set \in SUBSET DOMAIN next :
            seeds \subseteq set /\ (\A from \in set : next[from] \subseteq set) => member \in set}

\* affected_modules, as the loop of AffectedModules computes it.
Affected(previous_index, current_index, direct_changes, summary_changed_modules) ==
    LET importers == [module \in DOMAIN previous_index \cup DOMAIN current_index |->
                        ReverseImporters(previous_index, current_index, module)]
    IN  direct_changes
            \cup (summary_changed_modules \cap DOMAIN current_index)
            \cup UNION {importers[module] : module \in Closure(summary_changed_modules, importers)}

Reached(workspace, module) ==
    LET index == Index(workspace) IN Closure(index[module], index)

\* What checking a module reads: its own text and, of every module it can reach
\* through imports, the summary and what is hidden from it.
CheckOf(workspace, module) ==
    [text |-> workspace[module],
     seen |-> [other \in Reached(workspace, module) |-> Summary(workspace[other])],
     hidden |-> [other \in Reached(workspace, module) |-> workspace[other].hidden]]

\* check_modules_with_binding_metadata over the whole workspace.
CheckAll(workspace) == [module \in DOMAIN workspace |-> CheckOf(workspace, module)]

\* The part of what a result was read from that a plan knows of: all but the hidden.
AsSummarized(result) == [text |-> result.text, seen |-> result.seen]
=============================================================================
