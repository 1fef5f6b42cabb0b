------------------------------- MODULE MCSdb -------------------------------
(***************************************************************************)
(* Programs and bounds for model checking Sdb.                             *)
(***************************************************************************)
EXTENDS SdbProps, TLC

\* Loop: 1, then 3, which branches back to 1 or on to 5, which calls exit; Forward:
\* 1, then 3, which calls exit or goes on to 5; Branch: 1 branches to 3 or 5, 3 goes on
\* to 5, which calls exit or goes on to 7, which may repeat itself
TwoByteInsns == {1, 3, 5}
TwoByteSize  == [i \in TwoByteInsns |-> 2]
LoopSucc     == 1 :> {3} @@ 3 :> {1, 5} @@ 5 :> {Exit}
ForwardSucc  == 1 :> {3} @@ 3 :> {5, Exit} @@ 5 :> {Exit}
BranchInsns  == {1, 3, 5, 7}
BranchSize   == [i \in BranchInsns |-> 2]
BranchSucc   == 1 :> {3, 5} @@ 3 :> {5} @@ 5 :> {7, Exit} @@ 7 :> {7, Exit}
EightBytes   == [a \in 1..8 |-> a]
SixBytes     == [a \in 1..6 |-> a]
=============================================================================
