-------------------------- MODULE InvalidationRule --------------------------
(***************************************************************************)
(* What an affected-module plan promises: one step that yields the set of  *)
(* modules to recheck.  It may hold more than it has to; it never leaves   *)
(* out a directly changed module, a module of the new workspace whose      *)
(* public summary changed, or a direct or transitive importer of a changed *)
(* summary, through the imports of either workspace.                       *)
(***************************************************************************)
EXTENDS DependencyIndex
CONSTANT Modules
VARIABLES previous_index, current_index, direct_changes, summary_changed_modules,
          planned,    \* has the plan been made?
          plan        \* the modules to recheck

inputs == <<previous_index, current_index, direct_changes, summary_changed_modules>>
vars == <<inputs, planned, plan>>

Importers(module) == ReverseImporters(previous_index, current_index, module)

\* A set no import leaves: with a module it holds every importer of it.
ClosedUnderImporters(set) == \A module \in set : Importers(module) \subseteq set

\* The smallest closed set that holds the changed summaries.
Invalidated ==
    {module \in Modules :
        \A set \in SUBSET Modules :
            summary_changed_modules \subseteq set /\ ClosedUnderImporters(set) => module \in set}

Required == direct_changes \cup (Invalidated \cap DOMAIN current_index)

Init == ~planned /\ plan = {}

MakePlan ==
    /\ ~planned
    /\ planned' = TRUE
    /\ plan' \in SUBSET Modules
    /\ Required \subseteq plan'
    /\ UNCHANGED inputs

Spec == Init /\ [][MakePlan]_vars
=============================================================================
