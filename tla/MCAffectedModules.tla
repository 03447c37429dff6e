------------------------- MODULE MCAffectedModules -------------------------
(***************************************************************************)
(* A package p that may hold a submodule p.q, a client c that imports      *)
(* p.q.x (a module, a symbol of p.q, or of p), and d that imports c; p may *)
(* import d, which closes a cycle.  p and p.q come and go.                 *)
(***************************************************************************)
EXTENDS AffectedModules

P == <<"p">>
PQ == <<"p", "q">>
C == <<"c">>
D == <<"d">>

MCModules == {P, PQ, C, D}

ImportChoices(module) ==
    CASE module = P -> {{}, {D}}
      [] module = PQ -> {{}}
      [] module = C -> {{}, {<<"p", "q", "x">>}}
      [] module = D -> {{C}}

MCWorkspaces ==
    UNION {{workspace \in [keys -> UNION {ImportChoices(m) : m \in keys}] :
                \A module \in keys : workspace[module] \in ImportChoices(module)} :
           keys \in {{C, D}, {C, D, P}, {C, D, PQ}, {C, D, P, PQ}}}
=============================================================================
