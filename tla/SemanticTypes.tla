---------------------------- MODULE SemanticTypes ----------------------------
(***************************************************************************)
(* Types as the checker compares them: type_core.rs of                     *)
(* crates/typepython_checking.  A type is a tree; an enum member is the    *)
(* name its literal holds.                                                 *)
(***************************************************************************)
EXTENDS Naturals, Sequences, Functions

\* kind is "name", "generic", "callable", "union", "annotated" or "unpack".  The
\* head of a callable is the form of its parameters, and its last argument is
\* what it returns.
SemanticType(kind, head, args) == [kind |-> kind, head |-> head, args |-> args]

Named(name) == SemanticType("name", name, << >>)
GenericOf(head, args) == SemanticType("generic", head, args)
UnionOf(branches) == SemanticType("union", "Union", branches)
CallableOf(form, params, result) == SemanticType("callable", form, Append(params, result))
AnnotatedAs(type) == SemanticType("annotated", "Annotated", <<type>>)
Unpacked(type) == SemanticType("unpack", "Unpack", <<type>>)

AnyType == Named("Any")
Dynamic == Named("dynamic")
Unknown == Named("unknown")
Object == Named("object")
NoneType == Named("None")
Never == Named("Never")
Ellipsis == Named("...")

RECURSIVE StripAnnotated(_)
StripAnnotated(type) ==
    IF type.kind = "annotated" THEN StripAnnotated(type.args[1]) ELSE type

IsOptional(type) == type.kind = "generic" /\ type.head = "Optional" /\ Len(type.args) = 1

IsUnion(type) == StripAnnotated(type).kind = "union" \/ IsOptional(StripAnnotated(type))

Branches(type) ==
    LET stripped == StripAnnotated(type)
    IN  IF IsOptional(stripped) THEN Append(stripped.args, NoneType) ELSE stripped.args

Params(callable) == SubSeq(callable.args, 1, Len(callable.args) - 1)
Result(callable) == callable.args[Len(callable.args)]

IsVariadic(args) == Len(args) = 2 /\ args[2] = Ellipsis

\* The elements of a fixed tuple that is unpacked in another's arguments.
Spread(arg) ==
    LET inner == StripAnnotated(StripAnnotated(arg).args[1])
    IN  IF /\ StripAnnotated(arg).kind = "unpack"
           /\ inner.kind = "generic" /\ inner.head = "tuple"
           /\ ~IsVariadic(inner.args)
        THEN inner.args
        ELSE <<arg>>

RECURSIVE ExpandedTupleArgs(_)
ExpandedTupleArgs(args) ==
    IF args = << >> THEN << >> ELSE Spread(Head(args)) \o ExpandedTupleArgs(Tail(args))

\* One branch per candidate, those of a union each on its own, without repeats.
RECURSIVE JoinedBranches(_)
JoinedBranches(candidates) ==
    IF candidates = << >> THEN << >>
    ELSE LET last == candidates[Len(candidates)]
             before == JoinedBranches(SubSeq(candidates, 1, Len(candidates) - 1))
             added == IF IsUnion(last) THEN Branches(last) ELSE <<last>>
         IN  before \o SelectSeq(added, LAMBDA branch : branch \notin Range(before))

JoinOf(candidates) ==
    LET branches == JoinedBranches(candidates)
    IN  IF Len(branches) = 1 THEN branches[1] ELSE UnionOf(branches)

RECURSIVE Substitute(_, _)
Substitute(type, substitutions) ==
    LET args == [i \in DOMAIN type.args |-> Substitute(type.args[i], substitutions)]
    IN  IF type.kind = "name" /\ type.head \in DOMAIN substitutions
        THEN substitutions[type.head]
        ELSE IF type.kind = "union" THEN JoinOf(args)
        ELSE [type EXCEPT !.args = args]

\* Tainted[T, context] is T.
RECURSIVE EraseTaint(_)
EraseTaint(type) ==
    IF type.kind = "generic" /\ type.head = "Tainted" /\ Len(type.args) = 2
    THEN EraseTaint(type.args[1])
    ELSE [type EXCEPT !.args = [i \in DOMAIN type.args |-> EraseTaint(type.args[i])]]
==============================================================================
