------------------------------- MODULE Guards -------------------------------
(***************************************************************************)
(* What a guard says of a type: the conditions of type_system/flow.rs of   *)
(* crates/typepython_checking, and what a test may really answer.          *)
(***************************************************************************)
EXTENDS TypeValues

CONSTANT
    Predicates         \* callee |-> the type its declaration returns

Options == [strict_nulls |-> TRUE, taint |-> FALSE]
Depth == 1
Nothing == InstanceOf("nothing")

\* Holds for the types of a check.
HeldBy(type) == Holds(type, Options, Depth)
Matching(expected, actual) == Matches(expected, actual, Context(Options))
-----------------------------------------------------------------------------
(* A guard's effect on a type. *)

IsNoneName(type) == StripAnnotated(type) = NoneType
LiteralOf(name) == GenericOf("Literal", <<Named(name)>>)
True == LiteralOf("True")
False == LiteralOf("False")

Kept(type, Keep(_)) == SelectSeq(Branches(type), Keep)
Instance(branch, types) == \E type \in Range(types) : Matching(type, branch)

\* narrow_to_instance_semantic_types
NarrowToInstance(base, types) ==
    IF IsUnion(base) /\ Kept(base, LAMBDA branch : Instance(branch, types)) # << >>
    THEN JoinOf(Kept(base, LAMBDA branch : Instance(branch, types)))
    ELSE JoinOf(types)

\* What is left of a union, unless that is nothing.
RemoveBranches(base, Gone(_)) ==
    IF IsUnion(base) /\ Kept(base, LAMBDA branch : ~Gone(branch)) # << >>
    THEN JoinOf(Kept(base, LAMBDA branch : ~Gone(branch)))
    ELSE base

RemoveInstance(base, types) == RemoveBranches(base, LAMBDA branch : Instance(branch, types))
RemoveNone(base) == RemoveBranches(base, IsNoneName)

\* semantic_is_definitely_truthy_branch
DefinitelyTruthy(branch) ==
    /\ branch # False
    /\ ~(/\ StripAnnotated(branch).kind = "name"
         /\ StripAnnotated(branch).head \in {"None", "bool", "bytes", "str", "int", "float", "complex",
                                             "list", "dict", "set", "tuple"})

\* apply_truthy_semantic_narrowing
Truthy(base, branch_true) ==
    IF base \in {True, False} THEN IF branch_true THEN True ELSE False
    ELSE IF /\ IsUnion(base)
            /\ \E branch \in Range(Branches(base)) : IsNoneName(branch)
            /\ \A branch \in Range(Branches(base)) : IsNoneName(branch) \/ DefinitelyTruthy(branch)
    THEN IF branch_true THEN RemoveNone(base) ELSE NoneType
    ELSE base

\* apply_predicate_guard_semantic_with_context
Predicate(base, callee, branch_true) ==
    CASE branch_true -> NarrowToInstance(base, <<Predicates[callee].args[1]>>)
      [] ~branch_true /\ Predicates[callee].head = "TypeIs" ->
            RemoveInstance(base, <<Predicates[callee].args[1]>>)
      [] OTHER -> base

RECURSIVE Apply(_, _, _, _)
Through(base, name, parts, branch_true) ==
    FoldLeft(LAMBDA type, part : Apply(type, name, part, branch_true), base, parts)

\* One part has the outcome, after those before it had the other.
Joined(base, name, parts, outcome) ==
    JoinOf([i \in DOMAIN parts |->
        Apply(Through(base, name, SubSeq(parts, 1, i - 1), ~outcome), name, parts[i], outcome)])

\* apply_guard_condition_semantic_with_context
Apply(base, name, guard, branch_true) ==
    CASE guard.kind = "none" /\ guard.name = name ->
            IF branch_true # guard.negated THEN NoneType ELSE RemoveNone(base)
      [] guard.kind = "isinstance" /\ guard.name = name ->
            IF branch_true THEN NarrowToInstance(base, guard.types) ELSE RemoveInstance(base, guard.types)
      [] guard.kind = "call" /\ guard.name = name -> Predicate(base, guard.callee, branch_true)
      [] guard.kind = "truthy" /\ guard.name = name -> Truthy(base, branch_true)
      [] guard.kind = "not" -> Apply(base, name, guard.parts[1], ~branch_true)
      [] guard.kind \in {"and", "or"} ->
            IF branch_true = (guard.kind = "and")
            THEN Through(base, name, guard.parts, branch_true)
            ELSE Joined(base, name, guard.parts, branch_true)
      [] OTHER -> base
-----------------------------------------------------------------------------
(* What a test may answer. *)

\* Of what is neither None nor a bool only instances of classes are known to be true.
TruthOf(value) ==
    CASE value = InstanceOf("True") -> {TRUE}
      [] value \in {InstanceOf("False"), InstanceOf("None")} -> {FALSE}
      [] value.kind = "instance" /\ value.of.head \in DOMAIN Classes -> {TRUE}
      [] OTHER -> BOOLEAN

\* A TypeIs answers for its type; a TypeGuard may say no to any value.
AnswersOf(callee, value) ==
    {outcome \in BOOLEAN :
        IF value \in HeldBy(Predicates[callee].args[1])
        THEN outcome \/ Predicates[callee].head = "TypeGuard"
        ELSE ~outcome}

RECURSIVE MayBe(_, _, _)
\* May the test have the outcome?  A name that is not bound raises.
MayBe(run, guard, outcome) ==
    CASE guard.kind = "unknown" -> TRUE
      [] guard.kind \in {"none", "isinstance", "call", "truthy"} /\ run[guard.name] = Nothing -> FALSE
      [] guard.kind = "none" -> outcome = ((run[guard.name] = InstanceOf("None")) # guard.negated)
      [] guard.kind = "isinstance" ->
            outcome = (\E type \in Range(guard.types) : run[guard.name] \in HeldBy(type))
      [] guard.kind = "call" -> outcome \in AnswersOf(guard.callee, run[guard.name])
      [] guard.kind = "truthy" -> outcome \in TruthOf(run[guard.name])
      [] guard.kind = "not" -> MayBe(run, guard.parts[1], ~outcome)
      [] guard.kind \in {"and", "or"} ->
            IF outcome = (guard.kind = "and")
            THEN \A part \in Range(guard.parts) : MayBe(run, part, outcome)
            ELSE \E i \in DOMAIN guard.parts :
                    /\ MayBe(run, guard.parts[i], outcome)
                    /\ \A j \in 1..(i - 1) : MayBe(run, guard.parts[j], ~outcome)
      [] OTHER -> FALSE
-----------------------------------------------------------------------------
(* What a guard leaves of a type, exactly. *)

\* Does the test ask of a value only whether it is of some of these members?
RECURSIVE IsWhole(_, _, _)
IsWhole(guard, name, members) ==
    CASE guard.kind = "none" -> guard.name = name /\ NoneType \in members
      [] guard.kind = "isinstance" -> Range(guard.types) \subseteq members
      [] guard.kind = "call" ->
            Predicates[guard.callee].head = "TypeIs" /\ Predicates[guard.callee].args[1] \in members
      [] guard.kind = "truthy" -> FALSE
      [] guard.kind = "unknown" -> TRUE
      [] OTHER -> \A part \in Range(guard.parts) : IsWhole(part, name, members)
TellsMembers(guard, name, type) == IsWhole(guard, name, Range(Branches(type)))

\* Does the outcome leave several members, whatever was known before?  What an
\* assert or a return says so undoes the guards around a later line, which the
\* checker applies first.
RECURSIVE LeavesMembers(_, _)
LeavesMembers(guard, outcome) ==
    CASE guard.kind = "isinstance" -> outcome /\ Len(guard.types) > 1
      [] guard.kind = "not" -> LeavesMembers(guard.parts[1], ~outcome)
      [] guard.kind \in {"and", "or"} ->
            \/ outcome # (guard.kind = "and")
            \/ \E part \in Range(guard.parts) : LeavesMembers(part, outcome)
      [] OTHER -> FALSE
=============================================================================
