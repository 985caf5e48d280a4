----------------------------- MODULE MCArmPromises -----------------------------
(***************************************************************************)
(* The descriptor pool and the system call side by side, in one behaviour: *)
(* what the comments of the ARM assembly say of them and it does not do.   *)
(***************************************************************************)
EXTENDS ArmPool, SvcDispatch

VARIABLE linked   \* history: what was released became the head of the free list

PromisesInit == Init /\ SvcInit /\ linked = TRUE

PromisesNext ==
  \/ Next /\ linked' = (linked /\ ReleaseLinks) /\ UNCHANGED svcVars
  \/ SvcNext /\ UNCHANGED <<vars, linked>>

PromisesSpec == PromisesInit /\ [][PromisesNext]_<<vars, svcVars, linked>>

(***************************************************************************)
(* release_global is to "release a list of resources to a global free      *)
(* list" (release-global.S:7), and a call is to "return" (exception.S:46): *)
(* weaker than each, one of the two is always so.  Does not hold: see      *)
(* StoreHead and Handle.                                                   *)
(***************************************************************************)
SomeArmPromiseKept == linked \/ ReturnsToCaller

================================================================================
