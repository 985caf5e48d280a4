------------------------------- MODULE TinyOnce -------------------------------
(***************************************************************************)
(* call_once of kernel/tinycthread.c for Windows: threads that call it on  *)
(* one flag, a step for each access to the flag's status and lock.  The    *)
(* callback does not call call_once on the same flag.                      *)
(***************************************************************************)
EXTENDS Integers

CONSTANTS
  Caller,  \* the threads that call call_once
  NoOne    \* no thread

ASSUME TinyOnceConstants == NoOne \notin Caller

VARIABLES
  status,    \* flag->status
  lockReady, \* flag->lock has been initialised
  lockOwner, \* the thread inside flag->lock
  onceAt,    \* where each thread is
  calls,     \* history: how often func was called
  done       \* history: func has returned

onceVars == <<status, lockReady, lockOwner, onceAt, calls, done>>

OnceLabel == {"before", "while", "switch", "try", "init", "enter", "ready", "func", "end",
              "leave", "waitEnter", "waitLeave", "after"}

OnceTypeOK ==
  /\ status \in 0 .. 3
  /\ lockReady \in BOOLEAN
  /\ lockOwner \in Caller \cup {NoOne}
  /\ onceAt \in [Caller -> OnceLabel]
  /\ calls \in Nat
  /\ done \in BOOLEAN

\* ONCE_FLAG_INIT
OnceInit ==
  /\ status = 0
  /\ lockReady = FALSE
  /\ lockOwner = NoOne
  /\ onceAt = [t \in Caller |-> "before"]
  /\ calls = 0
  /\ done = FALSE

-----------------------------------------------------------------------------
OnceGo(t, from, to) == onceAt[t] = from /\ onceAt' = [onceAt EXCEPT ![t] = to]

lock == <<lockReady, lockOwner>>
func == <<calls, done>>

OnceCall(t) == OnceGo(t, "before", "while") /\ UNCHANGED <<status, lock, func>>

FinishedLate == status > 1   \* a mistaken Finished
Finished == status = 3

\* The test of the loop, one read of the status; the switch is another.
Loop(t) ==
  /\ OnceGo(t, "while", IF Finished THEN "after" ELSE "switch")
  /\ UNCHANGED <<status, lock, func>>

Case == [s \in 0 .. 3 |-> IF s = 0 THEN "try" ELSE IF s = 2 THEN "waitEnter" ELSE "while"]

Switch(t) ==
  /\ OnceGo(t, "switch", Case[status])
  /\ UNCHANGED <<status, lock, func>>

\* InterlockedCompareExchange(&flag->status, 1, 0)
UncheckedExchange == status < 3   \* a mistaken Exchanged
Exchanged == status = 0

Try(t) ==
  /\ IF Exchanged
       THEN OnceGo(t, "try", "init") /\ status' = 1
       ELSE OnceGo(t, "try", "while") /\ UNCHANGED status
  /\ UNCHANGED <<lock, func>>

InitLock(t) ==
  /\ OnceGo(t, "init", "enter")
  /\ lockReady' = TRUE
  /\ UNCHANGED <<status, lockOwner, func>>

EnterLock(t) ==
  /\ \/ OnceGo(t, "enter", "ready")
     \/ OnceGo(t, "waitEnter", "waitLeave")
  /\ lockOwner = NoOne
  /\ lockOwner' = t
  /\ UNCHANGED <<status, lockReady, func>>

\* flag->status = 2, and the callback begins.
Ready(t) ==
  /\ OnceGo(t, "ready", "func")
  /\ status' = 2
  /\ calls' = calls + 1
  /\ UNCHANGED <<lock, done>>

FuncReturns(t) ==
  /\ OnceGo(t, "func", "end")
  /\ done' = TRUE
  /\ UNCHANGED <<status, lock, calls>>

NotFinished == 2        \* a mistaken Finish
Finish == 3

End(t) ==
  /\ OnceGo(t, "end", "leave")
  /\ status' = Finish
  /\ UNCHANGED <<lock, func>>

LeaveLock(t) ==
  /\ \/ OnceGo(t, "leave", "after")
     \/ OnceGo(t, "waitLeave", "while")
  /\ lockOwner' = NoOne
  /\ UNCHANGED <<status, lockReady, func>>

-----------------------------------------------------------------------------
OnceStep(t) ==
  \/ Loop(t) \/ Switch(t) \/ Try(t) \/ InitLock(t) \/ EnterLock(t)
  \/ Ready(t) \/ FuncReturns(t) \/ End(t) \/ LeaveLock(t)

OnceNext == \E t \in Caller : OnceCall(t) \/ OnceStep(t)

\* A thread inside call_once runs on, and so does the callback.
OnceFairness == \A t \in Caller : WF_onceVars(OnceStep(t))
OnceSpec == OnceInit /\ [][OnceNext]_onceVars /\ OnceFairness

-----------------------------------------------------------------------------
(* Properties                                                              *)

(***************************************************************************)
(* Whoever comes when, the callback is called once, by one thread, and no  *)
(* call returns before it has returned.                                    *)
(***************************************************************************)
ExactlyOnce ==
  /\ calls <= 1
  /\ \A t \in Caller : onceAt[t] = "after" => done

(***************************************************************************)
(* The spin on the status keeps every thread off the lock until it is      *)
(* initialised, by one thread and before any is inside.                    *)
(***************************************************************************)
LockUsedReady ==
  /\ \A t \in Caller : onceAt[t] \in {"enter", "waitEnter", "ready", "leave", "waitLeave"} => lockReady
  /\ \A t \in Caller : onceAt[t] = "init" => lockOwner = NoOne /\ ~lockReady
  /\ \A t \in Caller : onceAt[t] \in {"ready", "func", "end", "leave", "waitLeave"} <=> lockOwner = t

(***************************************************************************)
(* Every call returns: threads that come during the callback queue at the  *)
(* lock, go round once more and find it done.  A thread calls call_once on *)
(* the flag once, so in the end none is inside.                            *)
(***************************************************************************)
CallsReturn == <>[](\A t \in Caller : onceAt[t] \in {"before", "after"})

==============================================================================
