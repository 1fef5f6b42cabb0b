------------------------------ MODULE MCLogger ------------------------------
(***************************************************************************)
(* Bounds for model checking Launcher.                                     *)
(***************************************************************************)
EXTENDS Launcher
=============================================================================
