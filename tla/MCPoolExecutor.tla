--------------------------- MODULE MCPoolExecutor ---------------------------
(***************************************************************************)
(* Instances of PoolExecutor for TLC.                                       *)
(***************************************************************************)
EXTENDS PoolExecutor, TLC

Symmetry == Permutations(Runs)
=============================================================================
