------------------------------- MODULE MCView -------------------------------
(***************************************************************************)
(* Module View for model checking, with the programs of MCSdb.             *)
(***************************************************************************)
EXTENDS View, MCSdb
=============================================================================
