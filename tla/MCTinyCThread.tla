----------------------------- MODULE MCTinyCThread -----------------------------
(***************************************************************************)
(* One model for three parts of kernel/tinycthread.c: call_once, threads   *)
(* with their storage, and times.  They share no state, so a behaviour is  *)
(* one of any of them.                                                     *)
(***************************************************************************)
EXTENDS TinyOnce, TinyThread, TinyTime

VARIABLE part   \* the one that runs

tinyVars == <<part, onceVars, threadVars, timeVars>>

TinyInit ==
  /\ part \in {"once", "thread", "time"}
  /\ OnceInit /\ ThreadInit /\ TimeInit
  /\ part # "time" => clock = 0

TinyNext ==
  \/ part = "once" /\ OnceNext /\ UNCHANGED <<part, threadVars, timeVars>>
  \/ part = "thread" /\ ThreadNext /\ UNCHANGED <<part, onceVars, timeVars>>
  \/ part = "time" /\ TimeNext /\ UNCHANGED <<part, onceVars, threadVars>>

\* TimeSpec has no fairness.
TinySpec == TinyInit /\ [][TinyNext]_tinyVars /\ OnceFairness /\ ThreadFairness

(***************************************************************************)
(* Every counter, flag and pointer stays in its type, with three facts     *)
(* that are more than that: the start information of a thread is there     *)
(* from thrd_create until the thread or its failed creator frees it, once; *)
(* what platform calls are given fits a DWORD; and the nanoseconds that    *)
(* thrd_sleep stores are less than a second, and not negative.             *)
(***************************************************************************)
TinyTypeOK == OnceTypeOK /\ ThreadTypeOK /\ TimeTypeOK

==============================================================================
