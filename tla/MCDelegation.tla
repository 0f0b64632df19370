---------------------------- MODULE MCDelegation ----------------------------
(* Delegation on an instance TLC enumerates: three runs, three calls and    *)
(* one result that quotes a run. Call ids are only compared.                *)
EXTENDS Delegation

CONSTANTS c1, c2, c3
SameIds == Permutations(CallIds)
=============================================================================
