----------------------------- MODULE MCHandoff ------------------------------
(* Small instances of Handoff for TLC.                                     *)
EXTENDS Handoff, TLC

CONSTANTS s1, s2, b1

OneLane == [c \in Clients |-> "anthropic"]
TwoLanes == [c \in Clients |-> IF c = s1 THEN "openai" ELSE "anthropic"]
=============================================================================
