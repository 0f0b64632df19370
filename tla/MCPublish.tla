----------------------------- MODULE MCPublish -----------------------------
(* Publish with two transfers of sessions with two delegated runs.          *)
EXTENDS Publish

CONSTANTS t1, t2
=============================================================================
