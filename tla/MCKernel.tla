------------------------------ MODULE MCKernel ------------------------------
(* Kernel on a few interchangeable kernel pages.                            *)
EXTENDS Kernel, TLC

PageSymmetry == Permutations(Page)

\* Two states are one when they differ in the content of free pages, which
\* kern_fork and kern_pipe clear before use, or once a fault has stopped them.
LiveView ==
  IF fault # "none" THEN <<fault>>
  ELSE <<kind, [p \in Page |-> IF kind[p] = "task" THEN task[p] ELSE ClearedTask],
         chan, ready, asleep, running, thread, event>>
==============================================================================
