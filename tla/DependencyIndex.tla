-------------------------- MODULE DependencyIndex --------------------------
(***************************************************************************)
(* The module dependency index of crates/typepython_incremental.           *)
(*                                                                         *)
(* A module key ("app.models") is the sequence of its dotted segments.  A  *)
(* workspace is a function from the module keys it holds to the import     *)
(* targets each module names; a target may name a module, or a symbol in   *)
(* one ("app.models.User"), or nothing the workspace holds.                *)
(***************************************************************************)
EXTENDS Naturals, Sequences

\* No previous index: what affected_modules is given on a first analysis.
NoWorkspace == [module \in {} |-> {}]

Prefixes(target) == {SubSeq(target, 1, length) : length \in 1 .. Len(target)}

\* resolve_import_module_key: the target itself when it is a module, else its
\* closest enclosing package that is one.
ResolvesTo(target, keys, key) ==
    /\ key \in keys \cap Prefixes(target)
    /\ \A other \in keys \cap Prefixes(target) : Len(other) <= Len(key)

\* Mutant of Imports: the targets are not resolved.
ImportsUnresolved(workspace, module) == workspace[module]

Imports(workspace, module) ==
    {key \in DOMAIN workspace :
        \E target \in workspace[module] : ResolvesTo(target, DOMAIN workspace, key)}

\* dependency_index: imports_by_module (reverse_imports is its inverse).
IndexOf(workspace) == [module \in DOMAIN workspace |-> Imports(workspace, module)]

ImportersIn(index, module) == {importer \in DOMAIN index : module \in index[importer]}

\* Mutant of ReverseImporters: the previous index is left out.
ReverseImportersNow(previous, current, module) == ImportersIn(current, module)

\* reverse_importers: who imports the module now, or did before the update.
ReverseImporters(previous, current, module) ==
    ImportersIn(current, module) \cup ImportersIn(previous, module)
=============================================================================
