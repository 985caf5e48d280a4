--------------------------- MODULE MCKernelPromises ---------------------------
(***************************************************************************)
(* What the kernel asserts of tasks and channels, and the size of its      *)
(* arrays.  Each of the three faults stops the machine, so it is started   *)
(* again after each, and `broken' remembers.                               *)
(***************************************************************************)
EXTENDS Kernel

VARIABLE broken   \* history: the faults that stopped the starts before this one

PromisesInit == Init /\ broken = {}

\* All memory is lost; Init' says that this is where the kernel begins.
StartAgain ==
  /\ fault \notin broken \cup {"none"}
  /\ broken' = broken \cup {fault}
  /\ running' \in Page
  /\ kind' = [p \in Page |-> IF p = running' THEN "task" ELSE "free"]
  /\ task' = [p \in Page |-> ClearedTask]
  /\ chan' = [p \in Page |-> ClearedChan]
  /\ ready' = running' /\ asleep' = None
  /\ thread' = [p \in Page |-> IF p = running' THEN "runs" ELSE "none"]
  /\ event' = FALSE
  /\ fault' = "none"
  /\ Init'

PromisesNext == (Next /\ UNCHANGED broken) \/ StartAgain

PromisesSpec == PromisesInit /\ [][PromisesNext]_<<vars, broken>>

(***************************************************************************)
(* A task that is closed is valid (win32.c:167), who is sent a page is on  *)
(* the sender's core (alloc.c:127), and a send end is in tx[32]            *)
(* (kernel.h:107): weaker than each, one of the three is so at every start *)
(* up to now.  Does not hold: see FreedOnce, ReceiverHasCore, InsideArrays.*)
(***************************************************************************)
SomeKernelPromiseKept ==
  \/ "valid" \notin broken /\ FreedOnce
  \/ "core" \notin broken /\ ReceiverHasCore
  \/ "bounds" \notin broken /\ InsideArrays

===============================================================================
