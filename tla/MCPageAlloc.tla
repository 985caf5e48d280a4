----------------------------- MODULE MCPageAlloc -----------------------------
(* PageAlloc on a small instance.  Tasks are interchangeable model values.   *)
EXTENDS PageAlloc, TLC

TaskSymmetry == Permutations(Task) \cup Permutations(Cpu)
==============================================================================
