--------------------------- MODULE MCPromptHold ---------------------------
(***************************************************************************)
(* TLC instances of PromptHold.                                            *)
(***************************************************************************)
EXTENDS PromptHold, TLC

Symmetry == Permutations(Requests) \cup Permutations(DeliveryKeys)
              \cup Permutations(Credentials)
=============================================================================
