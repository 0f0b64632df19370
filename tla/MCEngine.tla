------------------------------ MODULE MCEngine ------------------------------
(* Small instances of Engine for TLC.                                      *)
EXTENDS Engine, TLC

CONSTANTS a1, a2, r1, r2, c1

Ranking == a1 :> 1 @@ a2 :> 0
Alone == a1 :> 0
AllSameConv == [r \in Requests |-> c1]
TwoRequests == Permutations(Requests)
=============================================================================
