--------------------------- MODULE MCTypeRelation ---------------------------
(***************************************************************************)
(* A handful of classes, interfaces and aliases, and the types over them   *)
(* down to an argument of an argument.                                     *)
(***************************************************************************)
EXTENDS TypeRelation

IntType == Named("int")
StrType == Named("str")
Animal == Named("Animal")
Dog == Named("Dog")

Member(owner, kind, shape, params, result) ==
    [owner |-> owner, kind |-> kind, shape |-> shape, params |-> params, result |-> result]
Method(owner, params, result) == Member(owner, "method", [i \in DOMAIN params |-> "other"], params, result)
Attribute(owner, type) == Member(owner, "value", << >>, << >>, type)
Property(owner, type) == Member(owner, "property", << >>, << >>, type)
Class(bases, members) == [interface |-> FALSE, bases |-> bases, members |-> members]
Interface(bases, members) == [interface |-> TRUE, bases |-> bases, members |-> members]
NoMembers == << >>

MCClasses ==
    ("Animal" :> Class(<< >>, "name" :> Attribute("Animal", StrType)
                               @@ "meet" :> Method("Animal", <<Dog>>, Animal)
                               @@ "copy" :> Method("Animal", << >>, Named("Self"))))
    @@ ("Dog" :> Class(<<Animal>>, "meet" :> Method("Dog", <<Animal>>, Dog)
                                    @@ "tag" :> Attribute("Dog", IntType)))
    @@ ("Robot" :> Class(<< >>, "name" :> Property("Robot", StrType)
                                 @@ "meet" :> Method("Robot", <<Object>>, UnionOf(<<Animal, NoneType>>))
                                 @@ "tag" :> Property("Robot", StrType)))
    @@ ("Named" :> Interface(<< >>, "name" :> Property("Named", UnionOf(<<StrType, NoneType>>))))
    @@ ("Tagged" :> Interface(<<Named("Named")>>, "tag" :> Attribute("Tagged", IntType)))
    @@ ("Meets" :> Interface(<< >>, "meet" :> Method("Meets", <<Dog>>, Animal)))
    @@ ("Copies" :> Interface(<< >>, "copy" :> Method("Copies", << >>, Object)))
    @@ ("Deputy" :> Class(<<Named("Named")>>, "name" :> Attribute("Deputy", StrType)))
    @@ ("Shape" :> Interface(<< >>, "scaled" :> Method("Shape", << >>, Named("Shape"))))
    @@ ("Disc" :> Class(<< >>, "scaled" :> Method("Disc", << >>, Named("Disc"))))

MCAliases ==
    ("Tree" :> [parameters |-> << >>, body |-> UnionOf(<<IntType, GenericOf("Sequence", <<Named("Tree")>>)>>)])
    @@ ("Pair" :> [parameters |-> <<"T">>, body |-> GenericOf("tuple", <<Named("T"), Named("T")>>)])

MCNewTypes == "UserId" :> IntType
MCEnumOwners == "Color.RED" :> "Color" @@ "Color.BLUE" :> "Color"

Red == GenericOf("Literal", <<Named("Color.RED")>>)
Seq1(type) == GenericOf("Sequence", <<type>>)
List(type) == GenericOf("list", <<type>>)
Tuple(types) == GenericOf("tuple", types)
Dict(key, type) == GenericOf("dict", <<key, type>>)
Mapping(key, type) == GenericOf("Mapping", <<key, type>>)
Fn(param, result) == CallableOf("list", <<param>>, result)
Tainted(type) == GenericOf("Tainted", <<type, Named("html")>>)
Optional(type) == GenericOf("Optional", <<type>>)

Names ==
    {IntType, StrType, NoneType, Object, Unknown, AnyType, Dynamic, Never, Animal, Dog}
    \cup {Named(name) : name \in {"Robot", "Named", "Tagged", "Meets", "Copies", "UserId", "Color", "Tree"}}
Small == {IntType, Dog, Animal, Object, UnionOf(<<IntType, StrType>>), UnionOf(<<Animal, NoneType>>)}

MCMenu ==
    Names
    \cup {Red, Optional(IntType), UnionOf(<<IntType, StrType>>), UnionOf(<<StrType, IntType, NoneType>>), UnionOf(<<Red, Animal>>),
          AnnotatedAs(StrType), Tainted(StrType), Tainted(UnionOf(<<StrType, IntType>>)),
          GenericOf("Pair", <<IntType>>), GenericOf("Pair", <<Optional(IntType)>>)}
    \cup {List(type) : type \in Small \cup {Unknown, AnyType, Tainted(StrType), Seq1(IntType), List(IntType), AnnotatedAs(IntType)}}
    \cup {Seq1(type) : type \in Small \cup {Seq1(Animal), List(Animal), Named("Tree"), Named("Named")}}
    \cup {Fn(param, result) : param \in Small, result \in {Dog, Animal, IntType, UnionOf(<<IntType, StrType>>)}}
    \cup {CallableOf("ellipsis", << >>, IntType), CallableOf("list", << >>, IntType)}
    \cup {Tuple(types) : types \in {<<IntType>>, <<IntType, StrType>>, <<IntType, Dog>>, <<Animal, Ellipsis>>, <<Dog, Ellipsis>>,
                                    <<IntType, UnionOf(<<IntType, StrType>>)>>, <<IntType, Unpacked(Tuple(<<Dog>>))>>}}
    \cup {Dict(StrType, type) : type \in {IntType, UnionOf(<<IntType, StrType>>), Animal}}
    \cup {Mapping(StrType, type) : type \in {IntType, UnionOf(<<IntType, StrType>>), Object}}

\* What the relation gets wrong, each with its counterpart in the menu: a class
\* that extends an interface is taken for one, a list of a recursive alias is
\* not invariant, a union in an invariant place is told by its widest and
\* narrowest branches, the "..." of a tuple is an object, a union
\* of a tainted type takes no tainted value.
Counts(key, type) == Dict(UnionOf(key), UnionOf(type))
Overlooked ==
    {Named("Deputy"), List(Named("Tree")), Tuple(<<Dog, Object>>), Optional(Tainted(StrType)),
     List(UnionOf(<<Counts(<<IntType, StrType>>, <<IntType, StrType>>), Dict(IntType, IntType)>>)),
     List(UnionOf(<<Counts(<<IntType, StrType>>, <<IntType, StrType>>),
                    Dict(IntType, UnionOf(<<IntType, StrType>>)), Dict(IntType, IntType)>>))}
MCMenuOverlooked == MCMenu \cup Overlooked

\* An interface whose method returns it, and a class that has that method.
MCMenuRecursive == {Named("Shape"), Named("Disc")}

MCArguments == <<InstanceOf("int"), InstanceOf("str"), InstanceOf("Dog"), InstanceOf("None")>>

Instances ==
    {InstanceOf(name) : name \in
        {"int", "str", "None", "Animal", "Dog", "Robot", "Deputy", "UserId", "Color.RED", "Color.BLUE"}}
MCUniverse ==
    Instances
    \cup {TaintedBy(Named("html"), InstanceOf(name)) : name \in {"int", "str"}}
    \cup {TupleValue(<<first, second>>) : first, second \in {InstanceOf(name) : name \in {"int", "str", "Dog"}}}
    \cup {TupleValue(parts) : parts \in {<< >>, <<InstanceOf("int")>>, <<TupleValue(<<InstanceOf("int")>>)>>}}
    \cup {ContainerOf(type) : type \in {type \in MCMenu \cup Overlooked : type.head \in {"list", "dict"}}}
    \cup {ContainerOf(Dict(IntType, UnionOf(<<IntType, StrType>>)))}
    \cup {Function(<<r, s, t, u>>) : r \in {InstanceOf("int"), Error}, s \in {InstanceOf("int"), InstanceOf("str")},
             t \in {InstanceOf("Dog"), InstanceOf("Animal"), InstanceOf("int"), Error},
             u \in {InstanceOf("Dog"), Error}}
=============================================================================
