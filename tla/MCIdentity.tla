----------------------------- MODULE MCIdentity -----------------------------
(* Instances of Identity for TLC.                                          *)
EXTENDS Identity, TLC

Symmetric == Permutations(Callers)
=============================================================================
