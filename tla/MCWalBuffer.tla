---------------------------- MODULE MCWalBuffer ----------------------------
(* Instances of WalBuffer for TLC.                                         *)
EXTENDS WalBuffer, TLC

(* Batches and writers are interchangeable: nothing in WalBuffer orders    *)
(* them.                                                                   *)
Symmetric == Permutations(Batches) \cup Permutations(Writers)
=============================================================================
