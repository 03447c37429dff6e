---------------------------- MODULE TypeRelation ----------------------------
(***************************************************************************)
(* The checker's answers about every pair of types of a menu, under every  *)
(* setting that changes them.                                              *)
(***************************************************************************)
EXTENDS TypeValues

CONSTANTS
    Menu,         \* the types that are compared
    Depth         \* how deep the values of containers and interfaces are told apart

VARIABLES wanted, given, setting, answer

vars == <<wanted, given, setting, answer>>

Options == [strict_nulls : BOOLEAN, taint : BOOLEAN]

Init ==
    /\ wanted \in Menu
    /\ given \in Menu
    /\ setting \in Options
    /\ answer = "pending"

Compare ==
    /\ answer = "pending"
    /\ answer' = IsAssignable(wanted, given, setting)
    /\ UNCHANGED <<wanted, given, setting>>

Next == Compare

Spec == Init /\ [][Next]_vars
-----------------------------------------------------------------------------
RECURSIVE Parts(_)
Parts(type) == {type} \cup UNION {Parts(type.args[i]) : i \in DOMAIN type.args}

\* A type that takes part in no gradual comparison.
IsStatic(type) ==
    Parts(type) \cap {AnyType, Dynamic} = {} /\ \A part \in Parts(type) : part.head # "ellipsis"

StaticMenu == {type \in Menu : IsStatic(type)}

TypeOK ==
    /\ {wanted, given} \subseteq Menu
    /\ setting \in Options
    /\ answer \in {"pending", "yes", "no", "loops"}

\* language-spec-v1.md, 14.1 and 14.2: what is assignable is safe.  Between
\* static types, a value of the one is a value of the other, whatever the mix of
\* unions, aliases, interfaces, containers, callables, taint and null settings.
AssignableIsSafe ==
    (answer = "yes" /\ IsStatic(wanted) /\ IsStatic(given)) =>
        Holds(given, setting, Depth) \subseteq Holds(wanted, setting, Depth)

\* Two assignments in a row allow no less than one: for static types, what goes
\* into a type that goes into a third goes into the third.
AssignableChains ==
    (answer = "yes" /\ IsStatic(wanted) /\ IsStatic(given)) =>
        \A wider \in StaticMenu :
            IsAssignable(wider, wanted, setting) = "yes" => IsAssignable(wider, given, setting) = "yes"

\* language-spec-v1.md:1824-1825: a union goes where all its members go, and takes
\* what one of its members takes.
UnionsAreBounds ==
    answer # "pending" =>
        /\ IsUnion(given) =>
             (answer = "yes") = (\A i \in DOMAIN Branches(given) :
                                    IsAssignable(wanted, Branches(given)[i], setting) = "yes")
        /\ IsUnion(wanted) =>
             ((\E i \in DOMAIN Branches(wanted) :
                    IsAssignable(Branches(wanted)[i], given, setting) = "yes") => answer = "yes")

Loosened(type) == Substitute(type, [name \in {"int"} |-> AnyType])

\* Writing Any for a name in one of two types that go together keeps them
\* together: less precise annotations give no new error.
AnyLoosens ==
    (answer = "yes" /\ Unknown \notin Parts(wanted) \cup Parts(given)) =>
        \A pair \in {<<Loosened(wanted), given>>, <<wanted, Loosened(given)>>} :
            IsAssignable(pair[1], pair[2], setting) = "yes"

\* language-spec-v1.md:690: "the checker assumes the relationship holds for recursive
\* occurrences", so a comparison comes to an end.
ComparisonEnds == answer # "loops"
=============================================================================
