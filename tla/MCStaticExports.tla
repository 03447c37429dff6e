-------------------------- MODULE MCStaticExports --------------------------
(***************************************************************************)
(* Programs over __all__, one or two other sequences and a function.       *)
(***************************************************************************)
EXTENDS StaticExports
CONSTANTS x, y

Exp(kind, names, parts) == [kind |-> kind, names |-> names, parts |-> parts]
Other == Exp("other", << >>, << >>)
Name(n) == Exp("name", <<n>>, << >>)
Display(parts) == Exp("seq", SelectSeq(parts, LAMBDA p : p \in Names), parts)
Pair(m, n) == Exp("pair", <<m, n>>, << >>)
Call(f, arguments) == Exp("call", <<f>> \o arguments, << >>)

Stmt(op, names, value) == [op |-> op, names |-> names, value |-> value]
Assign(names, value) == Stmt("assign", names, value)
Def(n, effects, defaults) ==
    [op |-> "def", names |-> <<n>>, value |-> Other, effects |-> effects, defaults |-> defaults]
IfOf(clauses) == [op |-> "if", names |-> << >>, value |-> Other, clauses |-> clauses]
On(test, value, body) == [test |-> test, value |-> value, body |-> body]
TryOf(body, handlers, orelse, finalbody) ==
    [op |-> "try", names |-> << >>, value |-> Other,
     body |-> body, handlers |-> handlers, orelse |-> orelse, finalbody |-> finalbody]
Except(names, body) == [names |-> names, body |-> body]

Simples ==
    {Assign(<<n>>, Display(<<s>>)) : n \in {All, "A"}, s \in {x, y}}
    \cup {Assign(<<All>>, Display(<<"A", y>>)), Assign(<<All, "A">>, Display(<<x>>)),
          Assign(<<"B">>, Pair("A", All)), Assign(<<"A">>, Call("f", <<All>>)),
          Assign(<<All>>, Other)}
    \cup {Assign(<<p[1]>>, Name(p[2])) : p \in {<<All, "A">>, <<All, "B">>, <<"B", All>>, <<"B", "A">>}}
    \cup {Stmt("unpack", <<All, "A">>, Pair("A", All))}
    \cup {Stmt(op, <<n>>, Display(<<y>>)) : op \in {"aug", "append"}, n \in {All, "A", "B"}}
    \cup {Stmt("extend", <<All>>, Name("A")), Stmt("append", <<"B">>, Name(All))}
    \cup {Stmt("method", <<n>>, Other) : n \in {All, "A"}}
    \cup {Stmt("call", << >>, Call("f", arguments)) : arguments \in {<< >>, <<"A">>, <<"B">>}}
    \cup {Stmt(op, <<n>>, Other) : op \in {"import", "delete"}, n \in {All, "A"}}
    \cup {Stmt("import", <<"f">>, Other), Stmt("declare", <<"A">>, Other)}
    \cup {Def("f", effects, {}) : effects \in {{}, {All}, {"A"}}}
    \cup {Stmt(op, <<n>>, Other) : op \in {"item", "delitem"}, n \in {"A", "B"}}
    \cup {Stmt("item", <<"B">>, Name(All))}

Add(n, s) == Stmt("aug", <<n>>, Display(<<s>>))
Set(n, s) == Assign(<<n>>, Display(<<s>>))

Compounds ==
    {IfOf(<<On("unknown", Other, <<Add(All, y)>>)>>),
     IfOf(<<On("unknown", Other, <<Set("A", x)>>), On("else", Other, <<Set("A", y)>>)>>),
     IfOf(<<On("false", Other, <<Set(All, x)>>), On("unknown", Other, <<Set(All, y)>>)>>),
     IfOf(<<On("true", Other, <<Set(All, x)>>), On("else", Other, <<Stmt("delete", <<All>>, Other)>>)>>),
     IfOf(<<On("call", Call("f", <<"A">>), <<Assign(<<"B">>, Name("A"))>>)>>),
     TryOf(<<Set("A", x), Add("A", y)>>, <<Except(<< >>, <<Set(All, x)>>)>>,
           <<Assign(<<All>>, Name("A"))>>, << >>),
     TryOf(<<Stmt("call", << >>, Call("f", << >>)), Set("A", y)>>,
           <<Except(<<"A">>, << >>), Except(<< >>, <<Set("A", x)>>)>>, << >>, <<Add(All, y)>>),
     TryOf(<<IfOf(<<On("unknown", Other, <<Set("A", y)>>)>>)>>,
           <<Except(<< >>, <<Stmt("declare", <<"B">>, Other)>>)>>, << >>, << >>),
     TryOf(<<Set(All, y), IfOf(<<On("unknown", Other, <<Stmt("import", <<"f">>, Other)>>)>>)>>,
           << >>, << >>, <<Add(All, x)>>)}

MCMenu == Simples \cup Compounds

\* What the analysis looks past: an import inside a with-statement, x[0][0] = "...",
\* a default argument, an assignment of a name to itself, and += of what another
\* name holds (A then holds __all__, and is not tracked).
Overlooked ==
    {Stmt("withimport", <<All>>, Other), Stmt("nested", <<"B">>, Other),
     Def("f", {}, {All}), Assign(<<All>>, Name(All)), Stmt("aug", <<"A">>, Name("B"))}
MCMenuOverlooked == MCMenu \cup Overlooked

ASSUME MenuFollowed == \A st \in MCMenu : Followed(st)
ASSUME OverlookedAreNot == \A st \in Overlooked : ~Followed(st)
=============================================================================
