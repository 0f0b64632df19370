---------------------------- MODULE MCHealthFile ----------------------------
(* Small instances of HealthFile for TLC.                                  *)
EXTENDS HealthFile, TLC
=============================================================================
