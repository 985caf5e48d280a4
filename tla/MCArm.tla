--------------------------------- MODULE MCArm ---------------------------------
(***************************************************************************)
(* One model for the two parts of the ARM assembly, the descriptor pool    *)
(* and the system call.  They share no state (the handlers of the call are *)
(* not part of SvcDispatch), so a behaviour is one of either.              *)
(***************************************************************************)
EXTENDS ArmPool, SvcDispatch

VARIABLE part   \* the one that runs

armVars == <<part, vars, svcVars>>

ArmInit == part \in {"pool", "svc"} /\ Init /\ SvcInit

ArmNext ==
  \/ part = "pool" /\ Next /\ UNCHANGED <<part, svcVars>>
  \/ part = "svc" /\ SvcNext /\ UNCHANGED <<part, vars>>

\* SvcSpec has no fairness.
ArmSpec == ArmInit /\ [][ArmNext]_armVars /\ PoolFairness

-----------------------------------------------------------------------------
(* Properties                                                              *)

(***************************************************************************)
(* Every pointer and register of the pool is NULL or a descriptor of the   *)
(* pool, its end included; and a call is at a label of the tree in a mode  *)
(* that goes with it, with a number in r7 only in svc mode.                *)
(***************************************************************************)
ArmTypeOK == TypeOK /\ SvcTypeOK

================================================================================
