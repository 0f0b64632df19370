------------------------------ MODULE Exchange ------------------------------
(***************************************************************************)
(* What a client of the proxy is promised, whatever happens upstream: one  *)
(* status line, then the body of at most one upstream answer, in order and *)
(* from its first piece, then the end.                                     *)
(***************************************************************************)
EXTENDS Integers

CONSTANTS
    Attempts,  \* the upstream answers one request may meet
    Lines      \* the status lines it may get

VARIABLES
    line,      \* the status line sent; "none" before it is
    source,    \* the answer the body comes from; 0 before its first piece
    delivered, \* pieces of it the client has
    over       \* the exchange has ended

vars == <<line, source, delivered, over>>

Init == line = "none" /\ source = 0 /\ delivered = 0 /\ ~over

Begin == /\ ~over /\ line = "none"
         /\ line' \in Lines /\ over' \in BOOLEAN
         /\ UNCHANGED <<source, delivered>>

Deliver == /\ ~over /\ line # "none"
           /\ source' \in Attempts /\ source \in {0, source'}
           /\ delivered' = delivered + 1
           /\ over' \in BOOLEAN /\ UNCHANGED line

End == ~over /\ over' = TRUE /\ UNCHANGED <<line, source, delivered>>

Next == Begin \/ Deliver \/ End
Spec == Init /\ [][Next]_vars
=============================================================================
