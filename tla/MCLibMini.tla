----------------------------- MODULE MCLibMini -----------------------------
(***************************************************************************)
(* Bounds for model checking LibMini.                                      *)
(***************************************************************************)
EXTENDS LibMini

\* SIGINT and SIGALRM
TwoSignals == {2, 14}

\* SIGALRM alone
OneSignal == {14}
=============================================================================
