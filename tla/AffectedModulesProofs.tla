----------------------- MODULE AffectedModulesProofs -----------------------
(***************************************************************************)
(* Proofs about the worklist of affected_modules, for any set of module    *)
(* keys, any imports and any number of modules: its variables keep their   *)
(* types, and the plan it returns obeys the invalidation rule.             *)
(***************************************************************************)
EXTENDS AffectedModules, IncrementalCheckProofs

\* Whatever has left the queue has had its importers recorded, so when the
\* queue is empty the visited modules are closed under importers.
LoopInv ==
    /\ pc # "start" =>
        /\ direct_changes \subseteq affected
        /\ summary_changed_modules \subseteq visited
        /\ queue \subseteq visited
        /\ visited \cap DOMAIN current_index \subseteq affected
        /\ \A module \in visited \ queue :
            Importers(module) \subseteq visited \cap affected
    /\ pc = "done" => queue = {}

\* The keys of a workspace are modules.
LEMMA WorkspaceKeys ==
    ASSUME NEW workspace \in Workspaces \cup {NoWorkspace}
    PROVE  DOMAIN workspace \subseteq Modules
<1>1. CASE workspace \in Workspaces
    <2>1. PICK keys \in SUBSET Modules : workspace \in [keys -> SUBSET Seq(STRING)]
        BY <1>1, WorkspacesAssumption
    <2>2. QED  BY <2>1
<1>2. CASE workspace = NoWorkspace
    BY <1>2 DEF NoWorkspace
<1>3. QED  BY <1>1, <1>2

\* dependency_index maps every module of a workspace to modules of it.
LEMMA IndexType ==
    ASSUME NEW workspace
    PROVE  IndexOf(workspace) \in [DOMAIN workspace -> SUBSET DOMAIN workspace]
BY DEF IndexOf, Imports

\* Who imports a module, before or after the update, is itself a module.
LEMMA ImportersAreModules ==
    ASSUME TypeOK, NEW module
    PROVE  Importers(module) \subseteq Modules
<1>1. DOMAIN previous_index = DOMAIN previous /\ DOMAIN current_index = DOMAIN current
    BY DEF TypeOK
<1>2. DOMAIN previous \subseteq Modules /\ DOMAIN current \subseteq Modules
    BY WorkspaceKeys DEF TypeOK
<1>3. QED  BY <1>1, <1>2 DEF Importers, ReverseImporters, ImportersIn
-----------------------------------------------------------------------------
LEMMA InitType == Init => TypeOK
<1> SUFFICES ASSUME Init PROVE TypeOK
    OBVIOUS
<1>1. previous_index \in [DOMAIN previous -> SUBSET DOMAIN previous]
    BY IndexType DEF Init
<1>2. current_index \in [DOMAIN current -> SUBSET DOMAIN current]
    BY IndexType DEF Init
<1>3. DOMAIN previous \subseteq Modules /\ DOMAIN current \subseteq Modules
    BY WorkspaceKeys DEF Init
<1>4. direct_changes \subseteq Modules
    BY <1>3 DEF Init
<1>5. summary_changed_modules \subseteq Modules
    BY <1>3 DEF Init, Added, Removed, Kept
<1>6. QED  BY <1>1, <1>2, <1>4, <1>5 DEF Init, TypeOK

LEMMA StepType == TypeOK /\ [Next]_vars => TypeOK'
<1> SUFFICES ASSUME TypeOK, [Next]_vars PROVE TypeOK'
    OBVIOUS
<1>1. CASE Start
    BY <1>1 DEF Start, TypeOK, inputs
<1>2. ASSUME NEW module \in Modules, Visit(module) PROVE TypeOK'
    <2>1. Importers(module) \subseteq Modules
        BY ImportersAreModules
    <2>2. QED  BY <1>2, <2>1 DEF Visit, TypeOK, inputs
<1>3. CASE Finish
    BY <1>3 DEF Finish, TypeOK, inputs
<1>4. CASE UNCHANGED vars
    BY <1>4 DEF vars, inputs, TypeOK
<1>5. QED  BY <1>1, <1>2, <1>3, <1>4 DEF Next

\* The type invariant holds in every state of every update.
THEOREM TypeCorrect == Spec => []TypeOK
BY InitType, StepType, PTL DEF Spec
-----------------------------------------------------------------------------
LEMMA InitLoop == Init => LoopInv
BY DEF Init, LoopInv

LEMMA StepLoop == TypeOK /\ LoopInv /\ [Next]_vars => LoopInv'
<1> SUFFICES ASSUME TypeOK, LoopInv, [Next]_vars PROVE LoopInv'
    OBVIOUS
<1>1. CASE Start
    BY <1>1 DEF Start, LoopInv, inputs
<1>2. ASSUME NEW module \in Modules, Visit(module) PROVE LoopInv'
    <2>1. \A other : Importers(other)' = Importers(other)
        BY <1>2 DEF Visit, inputs, Importers, ReverseImporters, ImportersIn
    <2>2. (direct_changes \subseteq affected)'
        BY <1>2 DEF Visit, inputs, LoopInv
    <2>3. (summary_changed_modules \subseteq visited)'
        BY <1>2 DEF Visit, inputs, LoopInv
    <2>4. (queue \subseteq visited)'
        BY <1>2 DEF Visit, LoopInv
    <2>5. (visited \cap DOMAIN current_index \subseteq affected)'
        BY <1>2 DEF Visit, inputs, LoopInv
    <2>6. ASSUME NEW other \in visited' \ queue'
          PROVE  Importers(other) \subseteq visited' \cap affected'
        <3>1. CASE other = module
            BY <1>2, <3>1 DEF Visit
        <3>2. CASE other # module
            <4>1. other \in visited \ queue
                BY <1>2, <2>6, <3>2 DEF Visit
            <4>2. QED  BY <1>2, <4>1 DEF Visit, LoopInv
        <3>3. QED  BY <3>1, <3>2
    <2>7. QED  BY <1>2, <2>1, <2>2, <2>3, <2>4, <2>5, <2>6 DEF Visit, LoopInv
<1>3. CASE Finish
    BY <1>3 DEF Finish, LoopInv, inputs, Importers, ReverseImporters, ImportersIn
<1>4. CASE UNCHANGED vars
    BY <1>4 DEF vars, inputs, LoopInv, Importers, ReverseImporters, ImportersIn
<1>5. QED  BY <1>1, <1>2, <1>3, <1>4 DEF Next

\* At every turn of the loop, what left the queue has had its importers added
\* to the visited and the affected modules.
THEOREM LoopInvariant == Spec => []LoopInv
<1>1. TypeOK /\ LoopInv /\ [Next]_vars => (TypeOK /\ LoopInv)'
    BY StepType, StepLoop
<1>2. Init => TypeOK /\ LoopInv
    BY InitType, InitLoop
<1>3. QED  BY <1>1, <1>2, PTL DEF Spec
-----------------------------------------------------------------------------
\* With an empty queue the plan holds all the rule requires: the visited
\* modules are one of the closed sets Invalidated is the intersection of.
LEMMA PlanHoldsRequired ==
    ASSUME TypeOK, LoopInv, pc # "start", queue = {}
    PROVE  Rule!Required \subseteq affected
<1>1. visited \in SUBSET Modules
    BY DEF TypeOK
<1>2. summary_changed_modules \subseteq visited
    BY DEF LoopInv
<1>3. Rule!ClosedUnderImporters(visited)
    <2>1. \A module : Rule!Importers(module) = Importers(module)
        BY DEF Rule!Importers, Rule!ReverseImporters, Rule!ImportersIn,
               Importers, ReverseImporters, ImportersIn
    <2>2. QED  BY <2>1 DEF LoopInv, Rule!ClosedUnderImporters
<1>4. Rule!Invalidated \subseteq visited
    BY <1>1, <1>2, <1>3 DEF Rule!Invalidated
<1>5. Rule!Invalidated \cap DOMAIN current_index \subseteq affected
    BY <1>4 DEF LoopInv
<1>6. QED  BY <1>5 DEF LoopInv, Rule!Required

LEMMA InitRule == Init => Rule!Init
BY DEF Init, Rule!Init

LEMMA StepRule == TypeOK /\ LoopInv /\ [Next]_vars => [Rule!MakePlan]_(Rule!vars)
<1> SUFFICES ASSUME TypeOK, LoopInv, [Next]_vars
             PROVE  [Rule!MakePlan]_(Rule!vars)
    OBVIOUS
<1> USE DEF Rule!vars, Rule!inputs, inputs
<1>1. CASE Start
    BY <1>1 DEF Start
<1>2. ASSUME NEW module \in Modules, Visit(module) PROVE UNCHANGED Rule!vars
    BY <1>2 DEF Visit
<1>3. CASE Finish
    <2>1. Rule!Required \subseteq affected
        BY <1>3, PlanHoldsRequired DEF Finish
    <2>2. affected \in SUBSET Modules
        BY DEF TypeOK
    <2>3. QED  BY <1>3, <2>1, <2>2 DEF Finish, Rule!MakePlan
<1>4. CASE UNCHANGED vars
    BY <1>4 DEF vars
<1>5. QED  BY <1>1, <1>2, <1>3, <1>4 DEF Next

\* Every execution of the loop is one of the invalidation rule: it plans once,
\* and the plan leaves out no direct change, no changed summary and no direct
\* or transitive importer of one (affected_modules).
THEOREM LoopImplementsRule == Spec => ImplementsRule
<1>1. Init => Rule!Init
    BY InitRule
<1>2. TypeOK /\ LoopInv /\ [Next]_vars => [Rule!MakePlan]_(Rule!vars)
    BY StepRule
<1>3. QED
    BY <1>1, <1>2, TypeCorrect, LoopInvariant, PTL DEF Spec, ImplementsRule, Rule!Spec
-----------------------------------------------------------------------------
\* What an update starts from: the two indices are of the two workspaces, and
\* whatever differs between them changed its summary.
InputsInv ==
    /\ previous_index = IndexOf(previous)
    /\ current_index = IndexOf(current)
    /\ Added \cup Removed \subseteq summary_changed_modules
    /\ summary_changed_modules \subseteq DOMAIN previous \cup DOMAIN current
    /\ \A module \in Kept : Differs(module) => module \in summary_changed_modules

LEMMA InitInputs == Init => InputsInv
BY DEF Init, InputsInv, Added, Removed, Kept

LEMMA StepInputs == InputsInv /\ [Next]_vars => InputsInv'
<1> SUFFICES ASSUME InputsInv, [Next]_vars PROVE InputsInv'
    OBVIOUS
<1>1. UNCHANGED inputs
    BY DEF Next, Start, Visit, Finish, vars, inputs
<1>2. QED
    BY <1>1 DEF InputsInv, inputs, Added, Removed, Kept, Differs

\* The import targets of a workspace are sequences of segments.
LEMMA TargetType ==
    ASSUME NEW workspace \in Workspaces \cup {NoWorkspace},
           NEW module \in DOMAIN workspace, NEW target \in workspace[module]
    PROVE  target \in Seq(STRING)
<1>1. workspace \in Workspaces
    BY DEF NoWorkspace
<1>2. PICK keys \in SUBSET Modules : workspace \in [keys -> SUBSET Seq(STRING)]
    BY <1>1, WorkspacesAssumption
<1>3. QED  BY <1>2

\* A module the finished plan leaves out imports no module whose summary
\* changed, before or after the update.
LEMMA LeftOutImports ==
    ASSUME TypeOK, LoopInv, pc = "done",
           NEW module \in DOMAIN current \ affected
    PROVE  /\ module \notin summary_changed_modules
           /\ current_index[module] \cap summary_changed_modules = {}
           /\ module \in DOMAIN previous =>
                previous_index[module] \cap summary_changed_modules = {}
<1>1. DOMAIN current_index = DOMAIN current /\ DOMAIN previous_index = DOMAIN previous
    BY DEF TypeOK
<1>2. module \notin summary_changed_modules
    BY <1>1 DEF LoopInv
<1>3. ASSUME NEW changed \in summary_changed_modules PROVE module \notin Importers(changed)
    BY <1>3 DEF LoopInv
<1>4. QED
    BY <1>1, <1>2, <1>3 DEF Importers, ReverseImporters, ImportersIn

LEMMA PlanLeavesInputs ==
    ASSUME TypeOK, LoopInv, InputsInv
    PROVE  LeftOutInputsUnchanged
<1> SUFFICES ASSUME pc = "done", NEW module \in DOMAIN current \ affected
             PROVE  /\ module \in DOMAIN previous
                    /\ current_index[module] = previous_index[module]
                    /\ current_index[module] \cap summary_changed_modules = {}
    BY DEF LeftOutInputsUnchanged
<1>1. module \in DOMAIN previous
    BY LeftOutImports DEF InputsInv, Added
<1>2. previous[module] = current[module]
    BY <1>1, LeftOutImports DEF InputsInv, Kept, Differs
<1>3. \A key \in DOMAIN current \ summary_changed_modules : key \in DOMAIN previous
    BY DEF InputsInv, Added
<1>4. \A key \in DOMAIN previous \ summary_changed_modules : key \in DOMAIN current
    BY DEF InputsInv, Removed
<1>5. /\ current_index[module] = Imports(current, module)
      /\ previous_index[module] = Imports(previous, module)
    BY <1>1 DEF InputsInv, IndexOf
<1>6. current[module] \subseteq Seq(STRING)
    BY TargetType DEF TypeOK
<1>7. /\ Imports(current, module) \subseteq DOMAIN previous
      /\ Imports(previous, module) \subseteq DOMAIN current
    <2>1. Imports(current, module) \subseteq DOMAIN current \ summary_changed_modules
        BY <1>5, LeftOutImports DEF Imports
    <2>2. Imports(previous, module) \subseteq DOMAIN previous \ summary_changed_modules
        BY <1>1, <1>5, LeftOutImports DEF Imports
    <2>3. QED  BY <1>3, <1>4, <2>1, <2>2
<1>8. Imports(current, module) = Imports(previous, module)
    BY <1>1, <1>2, <1>6, <1>7, SameImports
<1>9. QED  BY <1>1, <1>5, <1>8, LeftOutImports

\* When the plan is made, a module it leaves out has the imports it had, each
\* resolved to the module it was, and none of them changed its summary: what a
\* recheck of it would read is what its cached diagnostics were computed from.
THEOREM LeftOutModulesAreUntouched == Spec => []LeftOutInputsUnchanged
<1>1. Spec => []InputsInv
    BY InitInputs, StepInputs, PTL DEF Spec
<1>2. TypeOK /\ LoopInv /\ InputsInv => LeftOutInputsUnchanged
    BY PlanLeavesInputs
<1>3. QED  BY <1>1, <1>2, TypeCorrect, LoopInvariant, PTL
-----------------------------------------------------------------------------
\* What can be reached from the changed summaries through importers.
importers == [module \in DOMAIN previous_index \cup DOMAIN current_index |-> Importers(module)]
Reachable == Closure(summary_changed_modules, importers)

\* The loop goes nowhere else.
NoMoreThanReachable ==
    pc # "start" =>
        /\ visited \subseteq Reachable
        /\ affected \subseteq Affected(previous_index, current_index, direct_changes, summary_changed_modules)

LEMMA ReachableFacts ==
    ASSUME TypeOK, InputsInv
    PROVE  /\ DOMAIN importers = DOMAIN previous \cup DOMAIN current
           /\ \A module \in DOMAIN importers : importers[module] = Importers(module)
           /\ Reachable \subseteq DOMAIN importers
           /\ summary_changed_modules \subseteq Reachable
           /\ \A module \in Reachable : Importers(module) \subseteq Reachable
           /\ Affected(previous_index, current_index, direct_changes, summary_changed_modules)
                = direct_changes \cup (summary_changed_modules \cap DOMAIN current_index)
                    \cup UNION {importers[module] : module \in Reachable}
<1>1. DOMAIN importers = DOMAIN previous \cup DOMAIN current
    BY DEF importers, TypeOK
<1>2. \A module \in DOMAIN importers : importers[module] = Importers(module)
    BY DEF importers
<1>3. \A module : Importers(module) \subseteq DOMAIN importers
    BY DEF importers, Importers, ReverseImporters, ImportersIn
<1>4. summary_changed_modules \subseteq DOMAIN importers
    BY <1>1 DEF InputsInv
<1>5. /\ Reachable \subseteq DOMAIN importers
      /\ summary_changed_modules \subseteq Reachable
      /\ \A module \in Reachable : importers[module] \subseteq Reachable
    BY <1>2, <1>3, <1>4, ClosureIsClosed DEF Reachable
<1>6. QED
    BY <1>1, <1>2, <1>5 DEF Affected, Reachable, importers, Importers

LEMMA StepReachable ==
    ASSUME TypeOK, InputsInv, LoopInv, NoMoreThanReachable, [Next]_vars
    PROVE  NoMoreThanReachable'
<1>1. UNCHANGED inputs
    BY DEF Next, Start, Visit, Finish, vars, inputs
<1>2. /\ Reachable' = Reachable
      /\ Affected(previous_index, current_index, direct_changes, summary_changed_modules)'
            = Affected(previous_index, current_index, direct_changes, summary_changed_modules)
    BY <1>1 DEF inputs, Reachable, importers, Importers
<1>3. CASE Start
    BY <1>2, <1>3, ReachableFacts DEF Start, NoMoreThanReachable
<1>4. ASSUME NEW module \in Modules, Visit(module) PROVE NoMoreThanReachable'
    <2>1. module \in Reachable
        BY <1>4 DEF Visit, LoopInv, NoMoreThanReachable
    <2>2. importers[module] = Importers(module)
        BY <2>1, ReachableFacts
    <2>3. Importers(module) \subseteq
            Affected(previous_index, current_index, direct_changes, summary_changed_modules)
        BY <2>1, <2>2, ReachableFacts
    <2>4. QED  BY <1>2, <1>4, <2>1, <2>3, ReachableFacts DEF Visit, NoMoreThanReachable
<1>5. CASE Finish
    BY <1>2, <1>5 DEF Finish, NoMoreThanReachable
<1>6. CASE UNCHANGED vars
    BY <1>2, <1>6 DEF vars, NoMoreThanReachable
<1>7. QED  BY <1>3, <1>4, <1>5, <1>6 DEF Next

LEMMA DoneIsExact ==
    ASSUME TypeOK, InputsInv, LoopInv, NoMoreThanReachable
    PROVE  PlanIsExact
<1> SUFFICES ASSUME pc = "done"
             PROVE  Affected(previous_index, current_index, direct_changes, summary_changed_modules)
                        \subseteq affected
    BY DEF PlanIsExact, NoMoreThanReachable
<1>1. visited \subseteq DOMAIN importers
    BY ReachableFacts DEF NoMoreThanReachable
<1>2. \A module \in visited : importers[module] \subseteq visited \cap affected
    BY <1>1, ReachableFacts DEF LoopInv
<1>3. Reachable \subseteq visited
    BY <1>1, <1>2, ClosureIsLeast DEF LoopInv, Reachable
<1>4. QED  BY <1>2, <1>3, ReachableFacts DEF LoopInv

\* The plan of affected_modules is the direct changes, the changed summaries still
\* there and whatever reaches a changed summary through importers: no module less
\* and none more, on import cycles of any length.
THEOREM LoopPlansExactly == Spec => []PlanIsExact
<1>1. Init => NoMoreThanReachable
    BY DEF Init, NoMoreThanReachable
<1>2. TypeOK /\ InputsInv /\ LoopInv /\ NoMoreThanReachable => PlanIsExact
    BY DoneIsExact
<1>3. TypeOK /\ InputsInv /\ LoopInv /\ NoMoreThanReachable /\ [Next]_vars => NoMoreThanReachable'
    BY StepReachable
<1>4. Spec => []InputsInv
    BY InitInputs, StepInputs, PTL DEF Spec
<1>5. QED
    BY <1>1, <1>2, <1>3, <1>4, TypeCorrect, LoopInvariant, PTL DEF Spec
=============================================================================
