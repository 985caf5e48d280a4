------------------------------ MODULE SvcDispatch ------------------------------
(***************************************************************************)
(* A system call on ARM: from the svc instruction of needle.h through the  *)
(* tree of comparisons in svc_exception (arm/exception.S) to a handler and *)
(* back.  One step per label.  The handlers are C functions: they return   *)
(* behind the bl that called them and leave r7 as it was.                  *)
(***************************************************************************)
EXTENDS Integers, Sequences

CONSTANTS
  Number,  \* what r0 may hold at the svc instruction, as an unsigned word
  Value    \* what else a register may hold

ASSUME SvcConstants == Number \subseteq Nat

VARIABLES
  svcPc,   \* the label the core has come to, "user" in the program
  mode,    \* "usr" or "svc"
  r7,      \* SYSNO between push and pop, the program's own register outside
  saved,   \* what was pushed
  lr,      \* the lr of svc mode: where the exception return goes
  served,  \* history: what the last call was answered with
  own      \* history: r7 at the svc instruction

svcVars == <<svcPc, mode, r7, saved, lr, served, own>>

-----------------------------------------------------------------------------
\* The system calls in the order of their numbers.
NdlSvc == <<"svc_alloc_page", "svc_release_page", "svc_send", "svc_recv", "tick",
            "svc_create_channel", "svc_close_channel", "svc_create_task",
            "svc_start_task", "svc_transfer", "svc_dispatch">>

Promised(n) == IF n < Len(NdlSvc) THEN NdlSvc[n + 1] ELSE "NDL_ENOSVC"

\* cmp SYSNO, #k at a label, and where it goes on from there: beq, bhs, or on
\* to the next line.  A label with no beq goes the same way for both.
Test(k, eq, hs, lo) == [k |-> k, eq |-> eq, hs |-> hs, lo |-> lo]

Tree ==
  [sys_0_up |-> Test(6, "sys_6_up", "sys_6_up", "sys_0_5"),
   sys_0_5  |-> Test(3, "sys_3_5", "sys_3_5", "sys_0_2"),
   sys_0_2  |-> Test(1, "sys_1", "sys_2", "sys_0"),
   sys_3_5  |-> Test(4, "sys_4", "sys_5", "sys_3"),
   sys_6_up |-> Test(9, "sys_9_up", "sys_9_up", "sys_6_8"),
   sys_6_8  |-> Test(7, "sys_7", "sys_8", "sys_6"),
   sys_9_up |-> Test(10, "sys_10", "sys_11_up", "sys_9")]

\* Where a label t sends number n.  TakeHigher has bhi where the code has bhs.
TakeHigher(t, n) ==
  IF n > t.k THEN t.hs ELSE IF n = t.k /\ t.eq # t.hs THEN t.eq ELSE t.lo
Take(t, n) == IF n = t.k THEN t.eq ELSE IF n > t.k THEN t.hs ELSE t.lo

\* The labels that call a handler with bl.
Bl ==
  [sys_0 |-> "svc_alloc_page", sys_1 |-> "svc_release_page", sys_2 |-> "svc_send",
   sys_3 |-> "svc_recv", sys_5 |-> "svc_create_channel", sys_6 |-> "svc_close_channel",
   sys_7 |-> "svc_create_task", sys_8 |-> "svc_start_task", sys_9 |-> "svc_transfer",
   sys_10 |-> "svc_dispatch"]

\* The labels that answer without a call.
Direct == [sys_4 |-> "tick", sys_11_up |-> "NDL_ENOSVC"]

Label == DOMAIN Tree \cup DOMAIN Bl \cup DOMAIN Direct \cup {"user", "sys_ret"}

SvcInit ==
  /\ svcPc = "user" /\ mode = "usr" /\ lr = "user" /\ served = "nothing"
  /\ r7 \in Value /\ saved = r7 /\ own = r7

\* svc #0; push {r7}; mov r7, r0
Svc(n) ==
  /\ svcPc = "user"
  /\ svcPc' = "sys_0_up"
  /\ mode' = "svc"
  /\ lr' = "user"
  /\ saved' = r7 /\ own' = r7
  /\ r7' = n
  /\ UNCHANGED served

Branch ==
  /\ svcPc \in DOMAIN Tree
  /\ svcPc' = Take(Tree[svcPc], r7)
  /\ UNCHANGED <<mode, r7, saved, lr, served, own>>

\* bl handler: lr is overwritten with the address behind it, a b sys_ret.
Handle ==
  /\ svcPc \in DOMAIN Bl
  /\ served' = Bl[svcPc]
  /\ lr' = "sys_ret"
  /\ svcPc' = "sys_ret"
  /\ UNCHANGED <<mode, r7, saved, own>>

Answer ==
  /\ svcPc \in DOMAIN Direct
  /\ served' = Direct[svcPc]
  /\ svcPc' = "sys_ret"
  /\ UNCHANGED <<mode, r7, saved, lr, own>>

\* pop {r7} gives the caller its register back.
NotPopped == r7   \* a mistaken Popped
Popped == saved

\* pop {r7}; subs pc, lr, #0, which leaves svc mode.
Return ==
  /\ svcPc = "sys_ret" /\ mode = "svc"
  /\ r7' = Popped
  /\ mode' = "usr"
  /\ svcPc' = lr
  /\ UNCHANGED <<saved, lr, served, own>>

\* The same two instructions once more, in user mode.  The registers of svc mode
\* are banked: r7 comes from the program's stack, and the program goes where its
\* own lr points.
Stray ==
  /\ svcPc = "sys_ret" /\ mode = "usr"
  /\ r7' \in Value
  /\ svcPc' = "user"
  /\ UNCHANGED <<mode, saved, lr, served, own>>

SvcNext == (\E n \in Number : Svc(n)) \/ Branch \/ Handle \/ Answer \/ Return \/ Stray

SvcSpec == SvcInit /\ [][SvcNext]_svcVars

-----------------------------------------------------------------------------
(* Properties                                                              *)

SvcTypeOK ==
  /\ svcPc \in Label
  /\ mode \in {"usr", "svc"}
  /\ svcPc = "user" => mode = "usr"
  /\ svcPc \notin {"user", "sys_ret"} => mode = "svc"
  /\ saved \in Value /\ own \in Value
  /\ r7 \in IF mode = "usr" THEN Value ELSE Nat
  /\ lr \in {"user", "sys_ret"}
  /\ served \in {"nothing", "NDL_ENOSVC"} \cup {NdlSvc[i] : i \in DOMAIN NdlSvc}

(***************************************************************************)
(* The tree of unsigned comparisons ends at the call that needle.h gives   *)
(* the number to, and refuses every other number.                          *)
(***************************************************************************)
RightHandler == svcPc = "sys_ret" /\ mode = "svc" => served = Promised(r7)

(***************************************************************************)
(* Whatever path a call takes through the tree, the exception return gives *)
(* the program the r7 that it had at the svc instruction.                  *)
(***************************************************************************)
CallerKeepsR7 == [][mode = "svc" /\ mode' = "usr" => r7' = own]_svcVars

(***************************************************************************)
(* "return - r0" (exception.S:46): a call returns to who made it.  Does    *)
(* not hold: see Handle.  (r0 is not the problem, lr is.)                  *)
(***************************************************************************)
ReturnsToCaller == mode = "usr" => svcPc = "user"

==============================================================================
