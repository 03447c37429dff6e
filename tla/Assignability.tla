---------------------------- MODULE Assignability ----------------------------
(***************************************************************************)
(* Assignability of one type to another: type_system/assignability.rs of   *)
(* crates/typepython_checking, with the member comparison of               *)
(* declarations.rs that interfaces rest on.                                *)
(*                                                                         *)
(* One module's declarations are in scope.  A comparison answers "yes",    *)
(* "no" or "loops": each generic argument, base and member is compared by  *)
(* a call that starts with an empty visiting set, so ctx.open holds the    *)
(* calls in progress that started so; one that starts again never returns. *)
(***************************************************************************)
EXTENDS SemanticTypes, FiniteSets, SequencesExt

CONSTANTS
    DeclaredClasses,      \* name |-> [interface, bases, members]
    DeclaredAliases,      \* name |-> [parameters, body]
    DeclaredNewTypes,     \* name |-> base
    DeclaredEnums         \* member |-> the enum it belongs to

\* As definitions, which TLC evaluates once.
Classes == DeclaredClasses
Aliases == DeclaredAliases
NewTypes == DeclaredNewTypes
EnumOwners == DeclaredEnums

Unannotated == Named("")

EveryOf(answers) ==
    LET stops == {i \in DOMAIN answers : answers[i] # "yes"}
    IN  IF stops = {} THEN "yes" ELSE answers[Min(stops)]

SomeOf(answers) ==
    LET stops == {i \in DOMAIN answers : answers[i] # "no"}
    IN  IF stops = {} THEN "no" ELSE answers[Min(stops)]

\* Where every question is asked before the answers are looked at.
SomeOfAll(answers) == IF "loops" \in Range(answers) THEN "loops" ELSE SomeOf(answers)

Answer(condition) == IF condition THEN "yes" ELSE "no"

\* The options, with the visiting set and the open calls of a comparison.
Context(options) ==
    [strict_nulls |-> options.strict_nulls, taint |-> options.taint, visiting |-> {}, open |-> {}]

Normalized(type, ctx) ==
    IF ctx.taint THEN StripAnnotated(type) ELSE EraseTaint(StripAnnotated(type))
-----------------------------------------------------------------------------
(* Type aliases *)

HasAlias(type) ==
    /\ type.kind \in {"name", "generic"}
    /\ type.head \in DOMAIN Aliases
    /\ Len(type.args) >= Len(Aliases[type.head].parameters)

AliasBody(type) ==
    LET alias == Aliases[type.head]
        position(parameter) == CHOOSE i \in DOMAIN alias.parameters : alias.parameters[i] = parameter
    IN  Substitute(alias.body,
            [parameter \in Range(alias.parameters) |-> type.args[position(parameter)]])

\* The code begins each alias with an empty seen set: aliases that are each other's
\* body are expanded without end there, and are in no menu.
RECURSIVE ExpandedAliases(_, _)
ExpandedAliases(type, seen) ==
    IF type \in seen \/ ~HasAlias(type) THEN type
    ELSE ExpandedAliases(AliasBody(type), seen \cup {type})

Expansion(type) == ExpandedAliases(type, {})
Expands(type) == Expansion(type) # type

RECURSIVE Mentions(_, _, _)
Mentions(type, target, seen) ==
    LET stripped == StripAnnotated(type)
    IN  /\ stripped.kind \in {"name", "generic", "union"}
        /\ \/ stripped.kind # "union" /\ stripped.head = target
           \/ \E i \in DOMAIN stripped.args : Mentions(stripped.args[i], target, seen)
           \/ /\ stripped.head \in DOMAIN Aliases \ seen
              /\ Mentions(Aliases[stripped.head].body, target, seen \cup {stripped.head})

\* recursive_type_alias_head_semantic
IsRecursiveAlias(type) ==
    LET stripped == StripAnnotated(type)
    IN  /\ stripped.kind \in {"name", "generic"}
        /\ stripped.head \in DOMAIN Aliases
        /\ Mentions(Aliases[stripped.head].body, stripped.head, {stripped.head})
-----------------------------------------------------------------------------
(* Matching: what invariant positions ask for, in both directions *)

OwnerIs(expected, actual) ==
    /\ actual.kind = "generic" /\ actual.head = "Literal" /\ Len(actual.args) = 1
    /\ actual.args[1].head \in DOMAIN EnumOwners
    /\ expected = Named(EnumOwners[actual.args[1].head])

ShapeArgs(type) == IF type.head = "tuple" THEN ExpandedTupleArgs(type.args) ELSE type.args

RECURSIVE Matches(_, _, _)

\* A generic's arguments, one by one.
ArgumentsMatch(expected_args, actual_args, ctx) ==
    /\ Len(expected_args) = Len(actual_args)
    /\ \A i \in DOMAIN expected_args : Matches(expected_args[i], actual_args[i], ctx)

BranchMatches(branches, type, ctx) == \E branch \in Range(branches) : Matches(branch, type, ctx)

\* Of two unions each branch has a counterpart.
UnionsMatch(expected, actual, ctx) ==
    /\ \A type \in Range(actual) : BranchMatches(expected, type, ctx)
    /\ \A type \in Range(expected) : \E other \in Range(actual) : Matches(type, other, ctx)

StructureMatches(expected, actual, ctx) ==
    IF Expands(expected) THEN Matches(Expansion(expected), actual, ctx)
    ELSE IF Expands(actual) THEN Matches(expected, Expansion(actual), ctx)
    ELSE IF IsUnion(expected) /\ IsUnion(actual) THEN UnionsMatch(Branches(expected), Branches(actual), ctx)
    ELSE IF IsUnion(expected) THEN BranchMatches(Branches(expected), actual, ctx)
    ELSE \/ OwnerIs(expected, actual)
         \/ /\ expected.kind = "generic" /\ actual.kind = "generic"
            /\ expected.head = actual.head
            /\ ArgumentsMatch(ShapeArgs(expected), ShapeArgs(actual), ctx)

NormalizedMatches(expected, actual, ctx) ==
    \/ expected = actual
    \/ AnyType \in {expected, actual}
    \/ <<expected, actual>> \in ctx.visiting
    \/ StructureMatches(expected, actual, [ctx EXCEPT !.visiting = @ \cup {<<expected, actual>>}])

Matches(expected, actual, ctx) ==
    NormalizedMatches(Normalized(expected, ctx), Normalized(actual, ctx), ctx)

MatchesBothWays(expected, actual, ctx) ==
    LET fresh == [ctx EXCEPT !.visiting = {}]
    IN  Matches(expected, actual, fresh) /\ Matches(actual, expected, fresh)
-----------------------------------------------------------------------------
(* Interfaces *)

RECURSIVE IsInterfaceLike(_, _)
IsInterfaceLike(class, seen) ==
    \/ Classes[class].interface
    \/ /\ class \notin seen
       /\ \E i \in DOMAIN Classes[class].bases :
            /\ Classes[class].bases[i].kind = "name"
            /\ Classes[class].bases[i].head \in DOMAIN Classes
            /\ IsInterfaceLike(Classes[class].bases[i].head, seen \cup {class})

IsClass(type) == type.kind = "name" /\ type.head \in DOMAIN Classes
DeclaredBases(class) ==
    LET declared == SelectSeq(Classes[class].bases, IsClass)
    IN  [i \in DOMAIN declared |-> declared[i].head]

\* collect_interface_members: the first declaration of a name counts, the
\* interface's own before those of the interfaces it extends.
RECURSIVE InterfaceMembers(_, _)
InterfaceMembers(class, seen) ==
    IF class \in seen THEN << >>
    ELSE LET bases == SelectSeq(DeclaredBases(class), LAMBDA base : IsInterfaceLike(base, {}))
         IN  FoldLeft(LAMBDA members, base : members @@ InterfaceMembers(base, seen \cup {class}),
                      Classes[class].members, bases)

\* The first of the answers that names a member.
FirstFound(answers) ==
    LET found == {i \in DOMAIN answers : answers[i] # {}}
    IN  IF found = {} THEN {} ELSE answers[Min(found)]

\* find_apparent_member_declaration: a member of one of these kinds, declared
\* here or inherited from a base that is no interface; {} when there is none.
RECURSIVE ApparentMember(_, _, _, _)
InheritedMember(bases, name, kinds, seen) ==
    FirstFound([i \in DOMAIN bases |-> ApparentMember(bases[i], name, kinds, seen)])

ApparentMember(class, name, kinds, seen) ==
    IF class \in seen THEN {}
    ELSE IF name \in DOMAIN Classes[class].members /\ Classes[class].members[name].kind \in kinds
    THEN {Classes[class].members[name]}
    ELSE InheritedMember(SelectSeq(DeclaredBases(class), LAMBDA base : ~IsInterfaceLike(base, {})),
                         name, kinds, seen \cup {class})

SameSignature(member, required) ==
    /\ member.kind = required.kind /\ member.shape = required.shape
    /\ member.params = required.params /\ member.result = required.result

ResultOf(member) == Substitute(member.result, [self \in {"Self"} |-> Named(member.owner)])
-----------------------------------------------------------------------------
(* The relation *)

RECURSIVE Assignable(_, _, _)

CallStarted(call, expected, actual, ctx) ==
    IF call \in ctx.open THEN "loops"
    ELSE Assignable(expected, actual, [ctx EXCEPT !.visiting = {}, !.open = @ \cup {call}])

\* A call with a visiting set of its own.
Started(expected, actual, ctx) ==
    CallStarted(<<Normalized(expected, ctx), Normalized(actual, ctx)>>, expected, actual, ctx)

\* Mutant of InvariantMatches: invariant positions ask for the same type.
InvariantMatchesExactly(expected, actual, ctx) ==
    Answer(Normalized(expected, ctx) = Normalized(actual, ctx))

\* invariant_matches
InvariantMatches(expected, actual, ctx) ==
    IF MatchesBothWays(expected, actual, ctx) THEN "yes"
    ELSE IF IsRecursiveAlias(expected) THEN Started(expected, actual, ctx)
    ELSE "no"

\* An unannotated side fits anything.
Fits(expected, actual, ctx) ==
    IF Unannotated \in {expected, actual} THEN "yes" ELSE Started(expected, actual, ctx)

\* methods_are_compatible_for_override: a parameter must have the name and the
\* modifiers of the required one (shape) and take its type, the result be one
\* of the required type.
OverrideCompatible(member, required, ctx) ==
    IF SameSignature(member, required) THEN "yes"
    ELSE IF member.kind # required.kind \/ Len(member.params) # Len(required.params) THEN "no"
    ELSE EveryOf(
        [i \in DOMAIN member.params |->
            IF member.shape[i] # required.shape[i] THEN "no"
            ELSE Fits(member.params[i], required.params[i], ctx)]
        \o <<Fits(ResultOf(required), ResultOf(member), ctx)>>)

FoundSatisfies(callable, value, required, ctx) ==
    IF required.kind # "value" /\ callable # {}
    THEN OverrideCompatible(CHOOSE member \in callable : TRUE, required, ctx)
    ELSE IF required.kind # "method" /\ value # {}
    THEN Fits(required.result, (CHOOSE member \in value : TRUE).result, ctx)
    ELSE "no"

MembersSatisfy(class, names, required, ctx) ==
    EveryOf([i \in DOMAIN names |->
        FoundSatisfies(ApparentMember(class, names[i], {"method", "property"}, {}),
                       ApparentMember(class, names[i], {"value"}, {}), required[names[i]], ctx)])

\* protocol_assignable
ProtocolAssignable(expected, actual, ctx) ==
    IF ~IsClass(expected) \/ ~IsClass(actual) \/ ~IsInterfaceLike(expected.head, {}) THEN "no"
    ELSE MembersSatisfy(actual.head, SetToSeq(DOMAIN InterfaceMembers(expected.head, {})),
                        InterfaceMembers(expected.head, {}), ctx)

\* nominal_subclass_assignable
NominalAssignable(expected, actual, ctx) ==
    IF ~IsClass(actual) THEN "no"
    ELSE LET bases == Classes[actual.head].bases
         IN  SomeOf([i \in DOMAIN bases |->
                IF bases[i] = expected THEN "yes" ELSE Started(expected, bases[i], ctx)])

\* Mutant of Variances: a list is read like a Sequence.
VariancesOfReaders(head, arity) ==
    IF head \in {"Sequence", "list", "tuple"} THEN [i \in 1..arity |-> "covariant"]
    ELSE [i \in 1..arity |-> "invariant"]

\* variances_for_generic_head
Variances(head, arity) ==
    CASE head \in {"Sequence", "Iterable", "Iterator", "Reversible", "Collection", "AbstractSet",
                   "frozenset", "tuple", "type"} -> [i \in 1..arity |-> "covariant"]
      [] head = "Mapping" /\ arity = 2 -> <<"invariant", "covariant">>
      [] head = "Generator" /\ arity = 3 -> <<"covariant", "contravariant", "covariant">>
      [] OTHER -> [i \in 1..arity |-> "invariant"]

SameHeadAssignable(head, expected_args, actual_args, ctx) ==
    EveryOf([i \in DOMAIN expected_args |->
        CASE Variances(head, Len(expected_args))[i] = "invariant" ->
                InvariantMatches(expected_args[i], actual_args[i], ctx)
          [] Variances(head, Len(expected_args))[i] = "covariant" ->
                Started(expected_args[i], actual_args[i], ctx)
          [] OTHER -> Started(actual_args[i], expected_args[i], ctx)])

\* What a Sequence sees of a list's or a tuple's elements.
ElementOf(actual) ==
    IF actual.head = "tuple"
    THEN IF IsVariadic(actual.args) THEN actual.args[1] ELSE JoinOf(actual.args)
    ELSE IF actual.args = << >> THEN Dynamic ELSE actual.args[1]

IsView(expected, actual) ==
    \/ expected.head = "Sequence" /\ actual.head \in {"list", "tuple"} /\ expected.args # << >>
    \/ /\ expected.head = "Mapping" /\ actual.head = "dict"
       /\ Len(expected.args) = 2 /\ Len(actual.args) = 2

\* Mutant of ViewAssignable: what is only read through the view is invariant too.
ViewAssignableExactly(expected, actual, ctx) ==
    IF expected.head = "Sequence"
    THEN InvariantMatches(expected.args[1], ElementOf(actual), ctx)
    ELSE EveryOf([i \in {1, 2} |-> InvariantMatches(expected.args[i], actual.args[i], ctx)])

\* A list or a tuple as a Sequence, a dict as a Mapping.
ViewAssignable(expected, actual, ctx) ==
    IF expected.head = "Sequence"
    THEN Started(expected.args[1], ElementOf(actual), ctx)
    ELSE EveryOf(<<InvariantMatches(expected.args[1], actual.args[1], ctx),
                   Started(expected.args[2], actual.args[2], ctx)>>)

\* assignable_semantic_generic_bridge; "none" leaves the pair to the others.
GenericBridge(expected, actual, ctx) ==
    IF expected.kind # "generic" \/ actual.kind # "generic" THEN "none"
    ELSE IF expected.head = actual.head /\ Len(ShapeArgs(expected)) = Len(ShapeArgs(actual))
    THEN SameHeadAssignable(expected.head, ShapeArgs(expected), ShapeArgs(actual), ctx)
    ELSE IF expected.head = "tuple" /\ actual.head = "tuple" THEN "no"
    ELSE IF IsView(expected, actual) THEN ViewAssignable(expected, actual, ctx)
    ELSE "none"

\* callable_semantic_annotation_assignable: the result first, then the
\* parameters the other way round; forms that differ do not compare.
CallableAssignable(expected, actual, ctx) ==
    LET result == Started(Result(expected), Result(actual), ctx)
    IN  IF result # "yes" THEN result
        ELSE IF "ellipsis" \in {expected.head, actual.head} THEN "yes"
        ELSE IF expected.head # actual.head \/ Len(expected.args) # Len(actual.args) THEN "no"
        ELSE EveryOf([i \in DOMAIN Params(expected) |->
                Started(Params(actual)[i], Params(expected)[i], ctx)])

IsTainted(type) == type.kind = "generic" /\ type.head = "Tainted" /\ Len(type.args) = 2

\* taint_qualified_assignability
TaintAssignable(expected, actual, ctx) ==
    IF ~IsTainted(expected) \/ ~IsTainted(actual) THEN "no"
    ELSE EveryOf(<<InvariantMatches(expected.args[2], actual.args[2], ctx),
                   Started(expected.args[1], actual.args[1], ctx)>>)

RECURSIVE AcceptsImplicitNone(_)
AcceptsImplicitNone(type) ==
    LET stripped == StripAnnotated(type)
    IN  IF IsUnion(stripped)
        THEN \E i \in DOMAIN Branches(stripped) : AcceptsImplicitNone(Branches(stripped)[i])
        ELSE /\ stripped \notin {Never, NoneType}
             /\ ~(stripped.kind = "generic" /\ stripped.head = "Literal")

\* What needs no look at the structure of the two types.
TopAssignable(expected, actual) ==
    \/ expected = actual
    \/ actual = Unknown /\ expected \in {Dynamic, Object}
    \/ actual # Unknown /\ (expected \in {Object, AnyType, Unknown, Dynamic} \/ actual \in {AnyType, Dynamic})

\* Mutant of DeclaredAssignable: the bridge's answer counts even when it gives none.
DeclaredAssignableBridged(expected, actual, ctx) ==
    IF "yes" \in {ProtocolAssignable(expected, actual, ctx), NominalAssignable(expected, actual, ctx)}
    THEN "yes"
    ELSE GenericBridge(expected, actual, ctx)

\* The base of a NewType, and what is left to matching.
Unbridged(expected, actual, ctx) ==
    IF actual.kind = "name" /\ actual.head \in DOMAIN NewTypes
    THEN Assignable(expected, NewTypes[actual.head], ctx)
    ELSE Answer(actual # Unknown /\ Matches(expected, actual, [ctx EXCEPT !.visiting = {}]))

BridgedOrElse(answer, expected, actual, ctx) ==
    IF answer # "none" THEN answer ELSE Unbridged(expected, actual, ctx)

\* Names and generics: an enum's member, an interface or a base; failing that
\* the arguments, or else the rest.
DeclaredAssignable(expected, actual, ctx) ==
    SomeOf(<<SomeOfAll(<<Answer(OwnerIs(expected, actual)),
                         ProtocolAssignable(expected, actual, ctx),
                         NominalAssignable(expected, actual, ctx)>>),
             BridgedOrElse(GenericBridge(expected, actual, ctx), expected, actual, ctx)>>)

\* Mutant of UnionAssignable: one branch of a union is enough on either side.
UnionAssignableInPart(expected, actual, ctx) ==
    SomeOf([j \in DOMAIN Branches(actual) |->
        SomeOf([i \in DOMAIN Branches(expected) |->
            Assignable(Branches(expected)[i], Branches(actual)[j], ctx)])])

\* Every branch of the actual union goes into one of the expected.
UnionAssignable(expected, actual, ctx) ==
    EveryOf([j \in DOMAIN Branches(actual) |->
        SomeOf([i \in DOMAIN Branches(expected) |->
            Assignable(Branches(expected)[i], Branches(actual)[j], ctx)])])

StructureAssignable(expected, actual, ctx) ==
    IF Expands(expected) THEN Assignable(Expansion(expected), actual, ctx)
    ELSE IF Expands(actual) THEN Assignable(expected, Expansion(actual), ctx)
    ELSE IF IsUnion(expected) /\ IsUnion(actual) THEN UnionAssignable(expected, actual, ctx)
    ELSE IF IsUnion(expected)
    THEN SomeOf([i \in DOMAIN Branches(expected) |-> Assignable(Branches(expected)[i], actual, ctx)])
    ELSE IF IsUnion(actual)
    THEN EveryOf([j \in DOMAIN Branches(actual) |-> Assignable(expected, Branches(actual)[j], ctx)])
    ELSE IF expected.kind = "callable" /\ actual.kind = "callable"
    THEN CallableAssignable(expected, actual, ctx)
    ELSE DeclaredAssignable(expected, actual, ctx)

NormalizedAssignable(expected, actual, ctx) ==
    IF TopAssignable(expected, actual) THEN "yes"
    ELSE IF actual = Unknown /\ expected = AnyType THEN "no"
    ELSE IF ~ctx.strict_nulls /\ actual = NoneType /\ AcceptsImplicitNone(expected) THEN "yes"
    ELSE IF ctx.taint /\ (IsTainted(expected) \/ IsTainted(actual))
    THEN TaintAssignable(expected, actual, ctx)
    ELSE IF <<expected, actual>> \in ctx.visiting THEN "yes"
    ELSE StructureAssignable(expected, actual,
            [ctx EXCEPT !.visiting = @ \cup {<<expected, actual>>}])

\* direct_semantic_type_is_assignable
Assignable(expected, actual, ctx) ==
    NormalizedAssignable(Normalized(expected, ctx), Normalized(actual, ctx), ctx)

\* semantic_type_is_assignable_with_options
IsAssignable(expected, actual, options) == Started(expected, actual, Context(options))
==============================================================================
