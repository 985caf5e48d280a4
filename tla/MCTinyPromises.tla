---------------------------- MODULE MCTinyPromises ----------------------------
(***************************************************************************)
(* What kernel/tinycthread.h says of times, and of threads and their keys, *)
(* in a program that makes timed calls and is started again for each crash *)
(* of a thread.  `broken' counts what was broken, in the order of Promises.*)
(***************************************************************************)
EXTENDS TinyThread, TinyTime, Sequences

VARIABLE broken   \* history: how many of the promises were broken so far

Promises ==
  <<WaitNotEarly, LockNotEarly, RemainingIsLeft, DeletedNotRead, NullNotCalled, DtorsCalled>>

PromisesInit == ThreadInit /\ TimeInit /\ broken = 0

\* The next of them is broken: all starts from where the Inits have it.
StartAgain ==
  /\ ~Promises[broken + 1]
  /\ broken' = broken + 1
  /\ clock' = 0 /\ timeCall' = "none"
  /\ since' = 0 /\ goal' = 0 /\ waitMs' = 0 /\ remaining' = Timespec(0)
  /\ childAt' = [c \in Child |-> "none"] /\ info' = childAt'
  /\ keys' = [k \in Key |-> FALSE] /\ meddled' = FALSE
  /\ slot' = [c \in Child |-> [k \in Key |-> NoNode]]
  /\ head' = [c \in Child |-> NoNode] /\ tail' = head' /\ visit' = head'
  /\ node' = [n \in Node |-> Freed]
  /\ made' = [c \in Child |-> 0] /\ round' = made'
  /\ again' = [c \in Child |-> FALSE]
  /\ marks' = [c \in Child |-> {}]
  /\ TimeInit' /\ ThreadInit'

\* Three promises are about times, and three about threads.
PromisesNext ==
  \/ broken < 3 /\ TimeNext /\ UNCHANGED <<threadVars, broken>>
  \/ broken \in 3 .. 5 /\ ThreadNext /\ UNCHANGED <<timeVars, broken>>
  \/ broken < 6 /\ StartAgain

PromisesSpec == PromisesInit /\ [][PromisesNext]_<<timeVars, threadVars, broken>>

(***************************************************************************)
(* cnd_timedwait blocks "until after the specified time" (309-310), and    *)
(* mtx_timedlock until it "was reached" (229), thrd_sleep stores the time  *)
(* that remains (388), tss_delete frees what nothing uses (431), a         *)
(* destructor "can be NULL" (419) and "will definitely be called" (422):   *)
(* weaker than each, one of the six is so at every start up to now.  Does  *)
(* not hold: each is broken at a start of its own.                         *)
(***************************************************************************)
SomeTinyPromiseKept == broken < Len(Promises)

===============================================================================
