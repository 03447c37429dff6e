-------------------------- MODULE AffectedModules --------------------------
(***************************************************************************)
(* affected_modules of crates/typepython_incremental: the worklist that    *)
(* plans which modules an incremental update rechecks.                     *)
(*                                                                         *)
(* The VecDeque is a set here, so a module is taken from it in any order;  *)
(* one step is one turn of the while loop with its inner for loop.         *)
(***************************************************************************)
EXTENDS IncrementalCheck

CONSTANTS
    Modules,      \* every module key
    Workspaces    \* the workspaces an update may start from or end in

ASSUME WorkspacesAssumption ==
    \A workspace \in Workspaces :
        \E keys \in SUBSET Modules : workspace \in [keys -> SUBSET Seq(STRING)]

VARIABLES
    previous,                 \* the workspace of the previous analysis
    current,                  \* the workspace of this one
    previous_index,
    current_index,
    direct_changes,
    summary_changed_modules,
    affected,
    queue,
    visited,
    pc                        \* "start", "loop" or "done"

inputs ==
    <<previous, current, previous_index, current_index, direct_changes, summary_changed_modules>>
vars == <<inputs, affected, queue, visited, pc>>

Importers(module) == ReverseImporters(previous_index, current_index, module)

\* diff: modules added, removed, and those whose summary fingerprint differs.
\* The imports are part of a summary, so a module that changed its imports
\* changed its summary.
Differs(module) == previous[module] # current[module]
Added == DOMAIN current \ DOMAIN previous
Removed == DOMAIN previous \ DOMAIN current
Kept == DOMAIN previous \cap DOMAIN current

Init ==
    /\ previous \in Workspaces \cup {NoWorkspace}
    /\ current \in Workspaces
    /\ previous_index = IndexOf(previous)
    /\ current_index = IndexOf(current)
    /\ direct_changes \in SUBSET (DOMAIN previous \cup DOMAIN current)
    /\ \E changed \in SUBSET Kept :
        /\ {module \in Kept : Differs(module)} \subseteq changed
        /\ summary_changed_modules = Added \cup Removed \cup changed
    /\ affected = {}
    /\ queue = {}
    /\ visited = {}
    /\ pc = "start"

\* Mutant of Start: modules that are gone are to be rechecked too.
StartWithRemoved ==
    /\ pc = "start"
    /\ affected' = direct_changes \cup summary_changed_modules
    /\ queue' = summary_changed_modules
    /\ visited' = summary_changed_modules
    /\ pc' = "loop"
    /\ UNCHANGED inputs

Start ==
    /\ pc = "start"
    /\ affected' = direct_changes \cup (summary_changed_modules \cap DOMAIN current_index)
    /\ queue' = summary_changed_modules
    /\ visited' = summary_changed_modules
    /\ pc' = "loop"
    /\ UNCHANGED inputs

\* Mutant of Visit: importers are not queued.
VisitDirectImporters(module) ==
    /\ pc = "loop"
    /\ module \in queue
    /\ queue' = queue \ {module}
    /\ visited' = visited \cup Importers(module)
    /\ affected' = affected \cup Importers(module)
    /\ UNCHANGED <<inputs, pc>>

\* Mutant of Visit: importers are queued whether visited or not.
VisitAgain(module) ==
    /\ pc = "loop"
    /\ module \in queue
    /\ queue' = (queue \ {module}) \cup Importers(module)
    /\ visited' = visited \cup Importers(module)
    /\ affected' = affected \cup Importers(module)
    /\ UNCHANGED <<inputs, pc>>

Visit(module) ==
    /\ pc = "loop"
    /\ module \in queue
    /\ queue' = (queue \ {module}) \cup (Importers(module) \ visited)
    /\ visited' = visited \cup Importers(module)
    /\ affected' = affected \cup Importers(module)
    /\ UNCHANGED <<inputs, pc>>

Finish ==
    /\ pc = "loop"
    /\ queue = {}
    /\ pc' = "done"
    /\ UNCHANGED <<inputs, affected, queue, visited>>

Next == Start \/ (\E module \in Modules : Visit(module)) \/ Finish

Spec == Init /\ [][Next]_vars /\ WF_vars(Next)
-----------------------------------------------------------------------------
TypeOK ==
    /\ previous \in Workspaces \cup {NoWorkspace}
    /\ current \in Workspaces
    /\ previous_index \in [DOMAIN previous -> SUBSET DOMAIN previous]
    /\ current_index \in [DOMAIN current -> SUBSET DOMAIN current]
    /\ {direct_changes, summary_changed_modules, affected, queue, visited} \subseteq SUBSET Modules
    /\ pc \in {"start", "loop", "done"}

Rule == INSTANCE InvalidationRule WITH
    planned <- pc = "done",
    plan <- IF pc = "done" THEN affected ELSE {}

\* The loop of affected_modules implements the invalidation rule: the plan it
\* returns leaves out nothing the rule requires.
ImplementsRule == Rule!Spec

\* The loop ends, on import cycles too: a module enters the queue only on the
\* visit that first adds it to visited.
Terminates == <>(pc = "done")

\* The plan is no larger than it has to be: it is what the modules that use it
\* take it for, the direct changes, the changed summaries still there, and
\* whatever imports its way to one (the visited check keeps the loop to these).
PlanIsExact ==
    pc = "done" =>
        affected = Affected(previous_index, current_index, direct_changes, summary_changed_modules)

\* A module the plan leaves out resolves every import as it did before, and to
\* modules whose summaries are unchanged: its cached diagnostics were computed
\* from the same inputs a recheck would read.  This is where a module added or
\* removed under a package an import already resolves to would bite.
LeftOutInputsUnchanged ==
    pc = "done" =>
        \A module \in DOMAIN current \ affected :
            /\ module \in DOMAIN previous
            /\ current_index[module] = previous_index[module]
            /\ current_index[module] \cap summary_changed_modules = {}
=============================================================================
