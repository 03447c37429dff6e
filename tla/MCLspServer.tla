---------------------------- MODULE MCLspServer ----------------------------
(***************************************************************************)
(* Instances of the language server: a project file a and a document b     *)
(* outside the project.                                                    *)
(***************************************************************************)
EXTENDS LspServer
CONSTANTS a, b
=============================================================================
