------------------------------- MODULE MCTinyCnd -------------------------------
(* TinyCnd on threads that can be exchanged for one another. *)
EXTENDS TinyCnd, TLC

ClientSymmetry == Permutations(Client)

================================================================================
