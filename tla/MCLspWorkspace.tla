--------------------------- MODULE MCLspWorkspace ---------------------------
(***************************************************************************)
(* Two spellings of the module p.q, its package p, and a client c that     *)
(* imports p.q.x; p.q may import the support module s.t. and has an edit   *)
(* that its summary does not show.                                         *)
(***************************************************************************)
EXTENDS LspWorkspace

P == <<"p">>
PQ == <<"p", "q">>
C == <<"c">>
ST == <<"s", "t">>

Text(imports, surface, hidden, body) ==
    [imports |-> imports, surface |-> surface, hidden |-> hidden, body |-> body, parses |-> TRUE]
Broken == [imports |-> {}, surface |-> 1, hidden |-> 1, body |-> 1, parses |-> FALSE]

MCModuleOf == [path \in {"p.tpy", "p/q.tpy", "p/q.py", "c.tpy"} |->
    CASE path = "p.tpy" -> P
      [] path = "c.tpy" -> C
      [] OTHER -> PQ]

MCTextsOf == [path \in DOMAIN MCModuleOf |->
    CASE path = "p.tpy" -> {Text({}, 1, 1, 1), Text({}, 2, 1, 1)}
      [] path = "p/q.tpy" -> {Text({}, 1, 1, 1), Text({}, 1, 2, 1), Text({ST}, 1, 1, 1), Broken}
      [] path = "p/q.py" -> {Text({}, 1, 1, 2)}
      [] path = "c.tpy" -> {Text({<<"p", "q", "x">>}, 1, 1, 1)}]

MCSupportModules == {ST}
MCSupportTexts == [module \in MCSupportModules |-> {Text({}, 1, 1, 1), Text({}, 2, 1, 1)}]
=============================================================================
