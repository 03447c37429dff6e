--------------------------- MODULE MCFlowNarrowing ---------------------------
(***************************************************************************)
(* Functions of a parameter and a local, of a few blocks, with the guards  *)
(* of module Guards.                                                       *)
(***************************************************************************)
EXTENDS FlowNarrowing, Guards

CONSTANT Local

IntType == Named("int")
Bool == Named("bool")
Animal == Named("Animal")
Dog == Named("Dog")
ListOfInt == GenericOf("list", <<IntType>>)

MCLocals == {Local}
MCClasses == "Animal" :> [interface |-> FALSE, bases |-> << >>, members |-> << >>]
             @@ "Dog" :> [interface |-> FALSE, bases |-> <<Animal>>, members |-> << >>]
MCAliases == "Maybe" :> [parameters |-> << >>, body |-> UnionOf(<<IntType, NoneType>>)]
\* A literal is an instance of its class.
MCNewTypes == "True" :> Bool @@ "False" :> Bool
MCEnumOwners == << >>
MCUniverse == {InstanceOf(name) : name \in {"int", "str", "None", "Animal", "Dog", "True", "False"}}
                  \cup {ContainerOf(ListOfInt)}
MCArguments == << >>

MCPredicates == "is_int" :> GenericOf("TypeIs", <<IntType>>)
                @@ "is_dog" :> GenericOf("TypeGuard", <<Dog>>)

Test(kind, name) == [kind |-> kind, name |-> name]
IsNone(name) == [kind |-> "none", name |-> name, negated |-> FALSE]
IsNotNone(name) == [kind |-> "none", name |-> name, negated |-> TRUE]
IsInstance(types) == [kind |-> "isinstance", name |-> Parameter, types |-> types]
Call(callee) == [kind |-> "call", name |-> Parameter, callee |-> callee]
Of(kind, parts) == [kind |-> kind, parts |-> parts]
Unknowable == [kind |-> "unknown"]

If(test) == [op |-> "if", test |-> test]
Elif(test) == [op |-> "elif", test |-> test]
Else == [op |-> "else"]
End == [op |-> "end"]
Asserting(test) == [op |-> "assert", test |-> test]
Return == [op |-> "return"]
Pass == [op |-> "pass"]
Assign(name, value) == [op |-> "assign", name |-> name, value |-> value]
Augment == [op |-> "augment"]
Delete(name) == [op |-> "delete", name |-> name]

Asked ==
    {IsNone(Parameter), IsInstance(<<IntType>>), IsInstance(<<Dog, IntType>>), Test("truthy", Parameter),
     Call("is_int"), Call("is_dog"), Of("not", <<IsNone(Parameter)>>),
     Of("and", <<IsNotNone(Parameter), Of("not", <<IsInstance(<<IntType>>)>>)>>),
     Of("or", <<IsNone(Parameter), Call("is_int")>>),
     Of("not", <<Of("or", <<IsNone(Parameter), Test("truthy", Parameter)>>)>>)}

MCBlocks ==
    {<<Asserting(test)>> : test \in Asked}
    \cup {<<If(test), Return, End>> : test \in Asked}
    \cup {<<If(test), Pass, Else, Return, End>> : test \in Asked}
    \cup {<<If(test), Assign(Local, Parameter), Else, Assign(Local, Dog), End>> : test \in Asked}
    \cup {<<If(test), If(IsNotNone(Parameter)), Pass, Else, Pass, End, Pass, End>> : test \in Asked}
    \cup {<<If(IsNone(Parameter)), Assign(Parameter, IntType), End>>,
          <<If(Unknowable), Assign(Local, IntType), End>>,
          <<If(IsNone(Parameter)), Return, Elif(Unknowable), Pass, Else, Augment, End>>,
          <<If(IsNone(Parameter)), Assign(Local, Parameter), Elif(Unknowable), Assign(Local, Dog),
            Else, Assign(Local, IntType), End>>,
          <<If(IsNone(Parameter)), Pass, Elif(Unknowable), Return, Else, Return, End>>,
          <<If(IsNone(Parameter)), Pass, Elif(Unknowable), Return, End>>,
          <<Assign(Local, Parameter), If(IsNone(Local)), Return, End>>,
          <<Assign(Local, Parameter)>>, <<Assign(Local, NoneType)>>, <<Assign(Parameter, Local)>>,
          <<Assign(Parameter, NoneType)>>, <<Augment>>, <<Delete(Local)>>, <<Delete(Parameter)>>}

MCDeclaredTypes ==
    {UnionOf(<<IntType, NoneType>>), GenericOf("Optional", <<Dog>>), UnionOf(<<IntType, Dog, NoneType>>),
     UnionOf(<<Animal, NoneType>>), Animal, UnionOf(<<True, NoneType>>)}

\* What the tests make of these types, one after the other.
RECURSIVE NarrowedFrom(_)
NarrowedFrom(types) ==
    LET more == types \cup {Apply(type, Parameter, test, outcome) :
                               type \in types, test \in Asked, outcome \in BOOLEAN}
    IN  IF more = types THEN types ELSE NarrowedFrom(more)

\* A local has the parameter's types, those it is assigned, and unions of their
\* members in any order.
MCTypes(declaration, name) ==
    LET types == NarrowedFrom({declaration})
        leaves == {IntType, NoneType, Dog}
                      \cup UNION {IF IsUnion(type) THEN Range(Branches(type)) ELSE {type} : type \in types}
        Orders(n) == {branches \in [1..n -> leaves] : Cardinality(Range(branches)) = n}
    IN  IF name = Parameter THEN types
        ELSE types \cup leaves \cup UNION {{UnionOf(order) : order \in Orders(n)} : n \in 2..Cardinality(leaves)}

\* HeldBy and Apply, of each type once.
MCHeld == [type \in UNION {MCTypes(declaration, Local) : declaration \in MCDeclaredTypes} |-> HeldBy(type)]
MCValuesOf(type) == LET held == MCHeld IN held[type]

MCNarrowed ==
    [type \in DOMAIN MCHeld |-> [name \in Variables |->
        [test \in Tests |-> [outcome \in BOOLEAN |-> Apply(type, name, test, outcome)]]]]
MCNarrow(type, name, test, outcome) == LET narrowed == MCNarrowed IN narrowed[type][name][test][outcome]
=============================================================================
