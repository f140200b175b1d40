--------------------------- MODULE MCPoolMessages ---------------------------
(***************************************************************************)
(* Instances of PoolMessages, with the lease protocol that its pool         *)
(* implements, for TLC.                                                     *)
(***************************************************************************)
EXTENDS PoolMessages, PoolLease, TLC

Symmetry == Permutations(Runs)
=============================================================================
