----------------------------- MODULE MCSamples -----------------------------
(***************************************************************************)
(* Module Samples for model checking, with the signals of MCLibMini.       *)
(***************************************************************************)
EXTENDS Samples, MCLibMini
=============================================================================
