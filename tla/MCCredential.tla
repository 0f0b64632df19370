---------------------------- MODULE MCCredential ----------------------------
(* Small instances of Credential for TLC.                                  *)
EXTENDS Credential, TLC

AnyCaller == Permutations(Callers)
=============================================================================
