------------------------------ MODULE Lineage -------------------------------
(***************************************************************************)
(* What the daemon owes one sign-in (internal/engine refresh.go,           *)
(* internal/store UpdateAccount), with no requests, locks or files: each   *)
(* refresh token is exchanged at most once, only while it is the newest,   *)
(* and what the exchange returns is what the daemon holds next.            *)
(***************************************************************************)
EXTENDS Naturals

VARIABLES
    live,      \* the generation the upstream honours, 0 once it is revoked
    copy,      \* the generation the daemon holds
    answer     \* the one an exchange is bringing back, or 0

vars == <<live, copy, answer>>

Init == live = 1 /\ copy = 1 /\ answer = 0

Exchange ==
    /\ answer = 0 /\ copy = live
    /\ live' = live + 1 /\ answer' = live + 1
    /\ UNCHANGED copy

Adopt ==
    /\ answer > 0
    /\ copy' = answer /\ answer' = 0
    /\ UNCHANGED live

Revoke ==
    /\ live > 0 /\ live' = 0
    /\ UNCHANGED <<copy, answer>>

Next == Exchange \/ Adopt \/ Revoke

Spec == Init /\ [][Next]_vars
=============================================================================
