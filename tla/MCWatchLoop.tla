---------------------------- MODULE MCWatchLoop ----------------------------
(***************************************************************************)
(* Two source roots; the configuration names the first or both, and may    *)
(* have its cache under the first.                                         *)
(***************************************************************************)
EXTENDS WatchLoop
CONSTANTS src, generated
MCSettings ==
    {[src |-> {src}, written |-> {}], [src |-> {src, generated}, written |-> {}],
     [src |-> {src}, written |-> {src}]}
=============================================================================
