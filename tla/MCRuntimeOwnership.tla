------------------------- MODULE MCRuntimeOwnership -------------------------
(* RuntimeOwnership on a small instance: the daemons are alike, and so are *)
(* the epochs a repair may draw.                                           *)
EXTENDS RuntimeOwnership, TLC

Symmetry == Permutations(Daemons) \cup Permutations(Epochs)
=============================================================================
