------------------------------ MODULE TypeValues ------------------------------
(***************************************************************************)
(* What a type promises: the run-time values it stands for.  The reference *)
(* that Assignability is held against.                                     *)
(*                                                                         *)
(* A value is an instance of a class, a tainted one, a tuple, a container  *)
(* with what it was made to hold (what may be put into it, and found       *)
(* there), or a function from Arguments.  An interface and a container are *)
(* told by what their members and elements may be, one level less deep.    *)
(***************************************************************************)
EXTENDS Assignability

CONSTANTS
    AllValues,    \* the values
    Arguments     \* what functions are tried on, in order

Universe == AllValues
\* Functions are told from other values only where they stand on their own.
Plain == {value \in Universe : value.kind # "function"}

Value(kind, of, parts) == [kind |-> kind, of |-> of, parts |-> parts]
InstanceOf(name) == Value("instance", Named(name), << >>)
TaintedBy(context, value) == Value("tainted", context, <<value>>)
TupleValue(parts) == Value("tuple", Named("tuple"), parts)
ContainerOf(type) == Value("container", type, << >>)
Function(results) == Value("function", Named("function"), results)
Error == InstanceOf("an error")

BasesOf(name) ==
    CASE name \in DOMAIN Classes -> {base.head : base \in Range(Classes[name].bases)}
      [] name \in DOMAIN NewTypes -> {NewTypes[name].head}
      [] name \in DOMAIN EnumOwners -> {EnumOwners[name]}
      [] OTHER -> {}

RECURSIVE Ancestors(_)
Ancestors(name) == {name} \cup UNION {Ancestors(base) : base \in BasesOf(name)}

\* The member an instance of the class shows under this name, or none.
RECURSIVE MemberOf(_, _)
MemberOf(class, name) ==
    IF class \notin DOMAIN Classes \/ Classes[class].interface THEN {}
    ELSE IF name \in DOMAIN Classes[class].members THEN {Classes[class].members[name]}
    ELSE UNION {MemberOf(base, name) : base \in BasesOf(class)}

RECURSIVE Required(_)
Required(interface) ==
    UNION {{<<name, Classes[class].members[name]>> : name \in DOMAIN Classes[class].members} :
              class \in Ancestors(interface)}

RECURSIVE Has(_, _, _, _)
Holds(type, options, depth) == {value \in Universe : Has(type, value, options, depth)}

Within(narrow, wide, options, depth) ==
    \A value \in Plain : Has(narrow, value, options, depth) => Has(wide, value, options, depth)

\* A member that can stand where the required one is used.
Serves(member, required, options, depth) ==
    /\ (member.kind = "method") = (required.kind = "method")
    /\ Len(member.params) = Len(required.params)
    /\ \A i \in DOMAIN member.params : Within(required.params[i], member.params[i], options, depth)
    /\ Within(ResultOf(member), ResultOf(required), options, depth)

HasName(name, value, options, depth) ==
    /\ value.kind = "instance"
    /\ \/ name \in Ancestors(value.of.head)
       \/ /\ name \in DOMAIN Classes
          /\ Classes[name].interface
          /\ depth > 0 => \A required \in Required(name) :
                \E member \in MemberOf(value.of.head, required[1]) :
                    Serves(member, required[2], options, depth - 1)

ElementsWithin(container, index, type, options, depth) ==
    depth > 0 => Within(container.of.args[index], type, options, depth - 1)
ElementsAre(container, index, type, options, depth) ==
    /\ ElementsWithin(container, index, type, options, depth)
    /\ depth > 0 => Within(type, container.of.args[index], options, depth - 1)

\* Where a container may be written to, its elements are exactly the type's.
HasGeneric(type, value, options, depth) ==
    LET made == value.kind = "container" /\ value.of.head = type.head
        args == ExpandedTupleArgs(type.args)
    IN  CASE type.head = "tuple" ->
                /\ value.kind = "tuple"
                /\ IsVariadic(args) \/ Len(value.parts) = Len(args)
                /\ \A i \in DOMAIN value.parts :
                      Has(IF IsVariadic(args) THEN args[1] ELSE args[i], value.parts[i], options, depth)
          [] type.head = "Sequence" ->
                \/ /\ value.kind = "container" /\ value.of.head = "list"
                   /\ ElementsWithin(value, 1, type.args[1], options, depth)
                \/ /\ value.kind = "tuple"
                   /\ \A part \in Range(value.parts) : Has(type.args[1], part, options, depth)
          [] type.head = "Mapping" ->
                /\ value.kind = "container" /\ value.of.head = "dict"
                /\ ElementsAre(value, 1, type.args[1], options, depth)
                /\ ElementsWithin(value, 2, type.args[2], options, depth)
          [] type.head = "Literal" -> value = InstanceOf(type.args[1].head)
          [] OTHER -> made /\ \A i \in DOMAIN type.args : ElementsAre(value, i, type.args[i], options, depth)

Has(type, value, options, depth) ==
    LET stripped == IF options.taint THEN StripAnnotated(type) ELSE EraseTaint(StripAnnotated(type))
    IN  \/ stripped \in {Object, Unknown}
        \/ /\ ~options.strict_nulls
           /\ value = InstanceOf("None") /\ AcceptsImplicitNone(Expansion(stripped))
        \/ CASE HasAlias(stripped) -> Has(AliasBody(stripped), value, options, depth)
             [] IsUnion(stripped) ->
                    \E i \in DOMAIN Branches(stripped) : Has(Branches(stripped)[i], value, options, depth)
             [] IsTainted(stripped) ->
                    /\ value.kind = "tainted" /\ value.of = stripped.args[2]
                    /\ Has(stripped.args[1], value.parts[1], options, depth)
             [] stripped.kind = "callable" ->
                    /\ value.kind = "function"
                    /\ Len(Params(stripped)) = 1
                    /\ \A i \in DOMAIN Arguments :
                          Has(Params(stripped)[1], Arguments[i], options, depth) =>
                              /\ value.parts[i] # Error
                              /\ Has(Result(stripped), value.parts[i], options, depth)
             [] stripped.kind = "name" -> HasName(stripped.head, value, options, depth)
             [] OTHER -> HasGeneric(stripped, value, options, depth)
==============================================================================
