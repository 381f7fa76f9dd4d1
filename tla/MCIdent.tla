------------------------------ MODULE MCIdent ------------------------------
(***************************************************************************)
(* Instances of Ident for TLC.                                             *)
(***************************************************************************)
EXTENDS Ident
=============================================================================
