-------------------------------- MODULE TinyCnd --------------------------------
(***************************************************************************)
(* A mutex and a condition variable of kernel/tinycthread.c, as built for  *)
(* Windows: one step per call of the platform, so that threads interleave  *)
(* as they do there.                                                       *)
(*                                                                         *)
(* The platform's part: a CRITICAL_SECTION and a mutex object are both an  *)
(* owner and a count.  SetEvent of event ONE (auto-reset) lets one thread  *)
(* that is blocked go, or leaves the event set when none is; of event ALL  *)
(* (manual-reset) lets all go and leaves it set.  A thread that comes to   *)
(* its wait when an event is set does not block.  None of these calls      *)
(* fails on valid handles.  What mWaitersCountLock guards is one access    *)
(* each time, so it is part of the step.                                   *)
(*                                                                         *)
(* The program's part: a thread unlocks, or waits with, a mutex it has.    *)
(* It may well lock one it has, which "will block forever" (tinycthread.h, *)
(* line 216) if the mutex is not recursive.                                *)
(*                                                                         *)
(* The wake-ups that signals and broadcasts promise are history variables. *)
(* A signal is for "one of the threads that are blocked [...] at the time  *)
(* of the call" (tinycthread.h, line 276), a broadcast for all of them     *)
(* (286).  A thread is blocked from when it has given its mutex up, which  *)
(* is atomic with blocking (296); the time of the call is when its event   *)
(* is set, or when it decides to set none.  Who is promised a signal and   *)
(* sleeps on is promised the next one, too: so it is enough to count, for  *)
(* each sleeper, the unkept promises it is one of.                         *)
(***************************************************************************)
EXTENDS Integers, FiniteSets

CONSTANTS
  Client,      \* the threads that use the mutex and the condition variable
  Nobody,      \* no thread
  MaxDepth,    \* bound: how often the platform's lock is taken
  MaxExpired   \* bound: timed waits that run out

ASSUME TinyCndConstants ==
  /\ IsFiniteSet(Client)
  /\ Nobody \notin Client
  /\ MaxDepth \in Nat /\ MaxExpired \in Nat

VARIABLES
  recursive, timed,    \* mRecursive, mTimed
  alreadyLocked,       \* mAlreadyLocked
  owner, depth,        \* the critical section or mutex object
  waiters,             \* mWaitersCount
  eventOne, eventAll,  \* mEvents
  cndAt,               \* where each thread is: "idle" outside the library
  byAll,               \* the thread was let go by event ALL
  held,                \* history: locks each thread was told it has
  expired,             \* history: timed waits that have run out
  leaked,              \* history: trylocks undone on the wrong kind of lock
  due,                 \* history: unkept signals each thread is one of
  dueAll,              \* history: the threads an unkept broadcast is for
  merged,              \* history: event ONE was set again with a signal due
  stolen,              \* history: event ONE went to a thread with none due
  late                 \* history: event ALL was set, about to be reset

mutex == <<recursive, timed, alreadyLocked, owner, depth>>
cond  == <<waiters, eventOne, eventAll>>
promises == <<due, dueAll, merged, stolen, late>>
hist  == <<expired, leaked, promises>>
cndVars == <<mutex, cond, byAll, hist, cndAt, held>>

CndLabel ==
  {"idle", "enter", "relock", "mark", "tried", "leave",             \* the mutex
   "unlock", "leaveToWait", "wait", "blocked", "count", "reset",  \* cnd_wait
   "setOne", "setAll"}                                     \* signal, broadcast

CndTypeOK ==
  /\ recursive \in BOOLEAN /\ timed \in BOOLEAN /\ alreadyLocked \in BOOLEAN
  /\ owner \in Client \cup {Nobody}
  /\ depth \in 0 .. MaxDepth
  /\ waiters \in 0 .. Cardinality(Client) + MaxExpired
  /\ eventOne \in BOOLEAN /\ eventAll \in BOOLEAN
  /\ cndAt \in [Client -> CndLabel]
  /\ byAll \in [Client -> BOOLEAN]
  /\ held \in [Client -> 0 .. MaxDepth]
  /\ expired \in 0 .. MaxExpired
  /\ leaked \in 0 .. MaxDepth
  /\ due \in [Client -> 0 .. Cardinality(Client)]
  /\ dueAll \subseteq Client
  /\ merged \in BOOLEAN /\ stolen \in BOOLEAN /\ late \in BOOLEAN

\* mtx_init, of any type.
MtxInit ==
  /\ recursive \in BOOLEAN /\ timed \in BOOLEAN
  /\ alreadyLocked = FALSE
  /\ owner = Nobody /\ depth = 0

CondInit == waiters = 0 /\ eventOne = FALSE /\ eventAll = FALSE

CndInit ==
  /\ MtxInit /\ CondInit
  /\ cndAt = [t \in Client |-> "idle"]
  /\ byAll = [t \in Client |-> FALSE]
  /\ held = [t \in Client |-> 0]
  /\ expired = 0 /\ leaked = 0
  /\ due = [t \in Client |-> 0] /\ dueAll = {}
  /\ merged = FALSE /\ stolen = FALSE /\ late = FALSE

-----------------------------------------------------------------------------
CndIs(t, label)   == cndAt[t] = label
CndGoto(t, label) == cndAt' = [cndAt EXCEPT ![t] = label]

\* The platform's lock.
Available(t) == owner \in {Nobody, t} /\ depth < MaxDepth
TakeLock(t)  == owner' = t /\ depth' = depth + 1
DropLock ==
  /\ depth' = depth - 1
  /\ owner' = IF depth = 1 THEN Nobody ELSE owner

\* The threads that a call finds blocked.
Sleepers == {t \in Client : cndAt[t] \in {"wait", "blocked"}}
SomeDue == \E u \in Client : due[u] > 0

\* One more signal is for them; as many can be kept as there are sleepers.
Promised(d) == [u \in Client |-> IF u \in Sleepers /\ d[u] < Cardinality(Sleepers)
                                THEN d[u] + 1 ELSE d[u]]

\* A signal lets t go: that keeps the oldest promise that t is one of.
Kept(d, t) == [u \in Client |-> IF u = t THEN 0
                               ELSE IF d[t] > 0 /\ d[u] >= d[t] THEN d[u] - 1 ELSE d[u]]

\* t finds event ONE set.
Take(t) ==
  /\ due' = Kept(due, t)
  /\ dueAll' = dueAll \ {t}
  /\ stolen' = (stolen \/ (SomeDue /\ due[t] = 0))

\* t goes on, by event ALL or a timeout.
GoOn(t) ==
  /\ due' = [due EXCEPT ![t] = 0]
  /\ dueAll' = dueAll \ {t}
  /\ UNCHANGED stolen

-----------------------------------------------------------------------------
(* The mutex                                                               *)

\* mtx_lock, and mtx_timedlock of a timed mutex.
Lock(t) ==
  /\ CndIs(t, "idle")
  /\ CndGoto(t, "enter")
  /\ UNCHANGED <<mutex, cond, byAll, hist, held>>

\* EnterCriticalSection, WaitForSingleObject; mtx_lock from a wait, too.
Enter(t) ==
  /\ CndIs(t, "enter") \/ CndIs(t, "relock")
  /\ Available(t)
  /\ TakeLock(t)
  /\ CndGoto(t, "mark")
  /\ UNCHANGED <<recursive, timed, alreadyLocked, cond, byAll, hist, held>>

\* WAIT_TIMEOUT of mtx_timedlock, which only a timed mutex can be given to.
LockTimesOut(t) ==
  /\ CndIs(t, "enter")
  /\ timed
  /\ owner \notin {Nobody, t}
  /\ CndGoto(t, "idle")
  /\ UNCHANGED <<mutex, cond, byAll, hist, held>>

FlagUnset == alreadyLocked   \* a mistaken FlagSet
FlagSet == ~recursive

\* The rest of mtx_lock; a lock of a mutex of one's own never gets past it.
Mark(t) ==
  /\ CndIs(t, "mark")
  /\ recursive \/ ~alreadyLocked
  /\ alreadyLocked' = FlagSet
  /\ held' = [held EXCEPT ![t] = @ + 1]
  /\ CndGoto(t, "idle")
  /\ UNCHANGED <<recursive, timed, owner, depth, cond, byAll, hist>>

\* mtx_trylock; thrd_busy at once is no step.
TryLock(t) ==
  /\ CndIs(t, "idle")
  /\ Available(t)
  /\ TakeLock(t)
  /\ CndGoto(t, "tried")
  /\ UNCHANGED <<recursive, timed, alreadyLocked, cond, byAll, hist, held>>

AlwaysTaken == FALSE   \* a mistaken OwnAlready
OwnAlready == ~recursive /\ alreadyLocked

\* LeaveCriticalSection, whatever the mutex.  On a timed one that call works on
\* what lies beside the handle in the union; the mutex object stays taken.
NotGivenBack == UNCHANGED <<owner, depth, leaked>>   \* a mistaken GiveBack
GiveBack == IF timed THEN leaked' = leaked + 1 /\ UNCHANGED <<owner, depth>>
                     ELSE DropLock /\ UNCHANGED leaked

TryUndone(t) ==
  /\ CndIs(t, "tried")
  /\ OwnAlready
  /\ GiveBack
  /\ CndGoto(t, "idle")
  /\ UNCHANGED <<recursive, timed, alreadyLocked, cond, byAll, expired, promises, held>>

TryKept(t) ==
  /\ CndIs(t, "tried")
  /\ ~OwnAlready
  /\ alreadyLocked' = FlagSet
  /\ held' = [held EXCEPT ![t] = @ + 1]
  /\ CndGoto(t, "idle")
  /\ UNCHANGED <<recursive, timed, owner, depth, cond, byAll, hist>>

\* mtx_unlock, called by the program or by cnd_wait.
Unlock(t) ==
  /\ \/ CndIs(t, "idle") /\ CndGoto(t, "leave")
     \/ CndIs(t, "unlock") /\ CndGoto(t, "leaveToWait")
  /\ held[t] > 0
  /\ alreadyLocked' = FALSE
  /\ held' = [held EXCEPT ![t] = @ - 1]
  /\ UNCHANGED <<recursive, timed, owner, depth, cond, byAll, hist>>

Leave(t) ==
  /\ \/ CndIs(t, "leave") /\ CndGoto(t, "idle")
     \/ CndIs(t, "leaveToWait") /\ CndGoto(t, "wait")
  /\ DropLock
  /\ UNCHANGED <<recursive, timed, alreadyLocked, cond, byAll, hist, held>>

-----------------------------------------------------------------------------
(* The condition variable                                                  *)

\* cnd_wait or cnd_timedwait with a mutex that the thread has once.
Wait(t) ==
  /\ CndIs(t, "idle")
  /\ held[t] = 1
  /\ waiters' = waiters + 1
  /\ CndGoto(t, "unlock")
  /\ UNCHANGED <<mutex, eventOne, eventAll, byAll, hist, held>>

\* WaitForMultipleObjects: event ONE comes first.
WaitForEvents(t) ==
  /\ CndIs(t, "wait")
  /\ IF eventOne \/ eventAll
       THEN /\ eventOne' = FALSE
            /\ byAll' = [byAll EXCEPT ![t] = ~eventOne]
            /\ IF eventOne THEN Take(t) ELSE GoOn(t)
            /\ CndGoto(t, "count")
       ELSE CndGoto(t, "blocked") /\ UNCHANGED <<eventOne, byAll, due, dueAll, stolen>>
  /\ UNCHANGED <<mutex, waiters, eventAll, expired, leaked, merged, late, held>>

\* WAIT_TIMEOUT of cnd_timedwait: the mutex is locked again, nothing else; the
\* waiter is not counted out.
WaitTimesOut(t) ==
  /\ CndIs(t, "blocked")
  /\ expired < MaxExpired
  /\ expired' = expired + 1
  /\ GoOn(t)
  /\ CndGoto(t, "relock")
  /\ UNCHANGED <<mutex, cond, byAll, leaked, merged, late, held>>

AnyOut(t) == byAll[t]   \* a mistaken LastOut
LastOut(t) == byAll[t] /\ waiters' = 0

CountKept == UNCHANGED waiters   \* a mistaken CountedOut
CountedOut == waiters' = waiters - 1

\* A waiter that was let go leaves, the last one by event ALL to reset it.
CountOut(t) ==
  /\ CndIs(t, "count")
  /\ CountedOut
  /\ CndGoto(t, IF LastOut(t) THEN "reset" ELSE "relock")
  /\ byAll' = [byAll EXCEPT ![t] = FALSE]
  /\ UNCHANGED <<mutex, eventOne, eventAll, hist, held>>

Reset(t) ==
  /\ CndIs(t, "reset")
  /\ eventAll' = FALSE
  /\ CndGoto(t, "relock")
  /\ UNCHANGED <<mutex, waiters, eventOne, byAll, hist, held>>

HasOthers == waiters > 1   \* a mistaken HasWaiters
HasWaiters == waiters > 0

\* cnd_signal and cnd_broadcast: without waiters they do nothing.
Signal(t) ==
  /\ CndIs(t, "idle")
  /\ IF HasWaiters THEN CndGoto(t, "setOne") /\ UNCHANGED due
                   ELSE due' = Promised(due) /\ UNCHANGED cndAt
  /\ UNCHANGED <<mutex, cond, byAll, expired, leaked, dueAll, merged, stolen, late, held>>

Broadcast(t) ==
  /\ CndIs(t, "idle")
  /\ IF HasWaiters THEN CndGoto(t, "setAll") /\ UNCHANGED dueAll
                   ELSE dueAll' = Sleepers /\ UNCHANGED cndAt
  /\ UNCHANGED <<mutex, cond, byAll, expired, leaked, due, merged, stolen, late, held>>

Blocked == {t \in Client : CndIs(t, "blocked")}

\* SetEvent of event ONE.
SetOne(t) ==
  /\ CndIs(t, "setOne")
  /\ IF Blocked = {}
       THEN /\ eventOne' = TRUE
            /\ due' = Promised(due)
            /\ merged' = (merged \/ (eventOne /\ SomeDue))
            /\ CndGoto(t, "idle")
            /\ UNCHANGED <<byAll, dueAll>>
       ELSE \E b \in Blocked :
              /\ cndAt' = [cndAt EXCEPT ![t] = "idle", ![b] = "count"]
              /\ byAll' = [byAll EXCEPT ![b] = FALSE]
              /\ due' = Kept(Promised(due), b)
              /\ dueAll' = dueAll \ {b}
              /\ UNCHANGED <<eventOne, merged>>
  /\ UNCHANGED <<mutex, waiters, eventAll, expired, leaked, stolen, late, held>>

\* SetEvent of event ALL.
SetAll(t) ==
  /\ CndIs(t, "setAll")
  /\ eventAll' = TRUE
  /\ cndAt' = [u \in Client |-> IF u = t THEN "idle"
                                ELSE IF u \in Blocked THEN "count" ELSE cndAt[u]]
  /\ byAll' = [u \in Client |-> byAll[u] \/ u \in Blocked]
  /\ due' = [u \in Client |-> IF u \in Blocked THEN 0 ELSE due[u]]
  /\ dueAll' = Sleepers \ Blocked
  /\ late' = (late \/ (dueAll' # {} /\ \E u \in Client : CndIs(u, "reset")))
  /\ UNCHANGED <<mutex, waiters, eventOne, expired, leaked, merged, stolen, held>>

-----------------------------------------------------------------------------
CndStep(t) ==
  \/ Lock(t) \/ Wait(t)
  \/ Enter(t) \/ LockTimesOut(t) \/ Mark(t)
  \/ TryLock(t) \/ TryUndone(t) \/ TryKept(t)
  \/ Unlock(t) \/ Leave(t)
  \/ WaitForEvents(t) \/ WaitTimesOut(t) \/ CountOut(t) \/ Reset(t)
  \/ Signal(t) \/ Broadcast(t) \/ SetOne(t) \/ SetAll(t)

CndNext == \E t \in Client : CndStep(t)
CndSpec == CndInit /\ [][CndNext]_cndVars

-----------------------------------------------------------------------------
(* Properties                                                              *)

\* The thread has taken the platform's lock and mtx_lock has not returned yet,
\* or has given the mutex up and the lock not yet.
Inside(t) == cndAt[t] \in {"mark", "tried", "leave", "leaveToWait"}

(***************************************************************************)
(* What threads were told and what the platform's lock counts agree, step  *)
(* by step of every call and after every wait: the lock belongs to the     *)
(* thread that has the mutex, as often as it has it, and to nobody when    *)
(* nobody does.  The one leak is a trylock by the owner of a timed mutex,  *)
(* which mtx_trylock gives back to the wrong kind of lock.                 *)
(***************************************************************************)
LockExact ==
  /\ \A t \in Client : held[t] > 0 \/ Inside(t) => owner = t
  /\ depth = IF owner = Nobody THEN 0
             ELSE held[owner] + leaked + (IF Inside(owner) THEN 1 ELSE 0)
  /\ owner # Nobody => depth > 0
  /\ leaked > 0 => timed /\ ~recursive

(***************************************************************************)
(* mAlreadyLocked, which mtx_unlock clears before it leaves the lock, says *)
(* exactly whether a thread has the mutex.  So the loop that "simulates    *)
(* deadlock" catches the thread that already has it and no other.          *)
(***************************************************************************)
FlagExact ==
  /\ alreadyLocked <=> ~recursive /\ \E t \in Client : held[t] > 0
  /\ \A t \in Client : CndIs(t, "mark") /\ alreadyLocked => held[t] > 0

(***************************************************************************)
(* Whatever the calls and their interleaving, timeouts included, a thread  *)
(* is told that it has the mutex only while no other has it.               *)
(***************************************************************************)
Abstract == INSTANCE AbstractMutex
IsMutex == Abstract!Spec

(***************************************************************************)
(* "If no threads are blocked on the condition variable at the time of the *)
(* call, the function does nothing" (tinycthread.h, lines 277 and 287): so *)
(* mWaitersCount, the "Count of the number of waiters" (256), has to count *)
(* the threads in a wait and no others.  Does not hold: a timed wait that  *)
(* runs out is never counted out, though the comment at the unlock says    *)
(* that it is.                                                             *)
(***************************************************************************)
InWait == {t \in Client : cndAt[t] \in {"unlock", "leaveToWait", "wait", "blocked", "count"}}
WaitersExact == waiters = Cardinality(InWait)

(***************************************************************************)
(* As long as no wait has run out the count is right at each step of every *)
(* thread, however many come, are let go and leave at the same time.       *)
(***************************************************************************)
ExactUntilTimeout == expired = 0 => WaitersExact

(***************************************************************************)
(* cnd_signal "unblocks one of the threads that are blocked on the given   *)
(* condition variable at the time of the call" (tinycthread.h, line 276):  *)
(* so when as many of those go on as there were signals, none of them      *)
(* still waits.  Does not hold: another that the signal did not find may   *)
(* take it.                                                                *)
(***************************************************************************)
SignalUnblocksOne == \A t \in Blocked : due[t] = 0

(***************************************************************************)
(* cnd_broadcast "unblocks all of the threads that are blocked" (286).     *)
(* Does not hold: the last waiter of the broadcast before resets its event *)
(* outside of every lock.                                                  *)
(***************************************************************************)
BroadcastUnblocksAll == Blocked \cap dueAll = {}

(***************************************************************************)
(* There are two ways to lose a signal: event ONE is set again before the  *)
(* thread that it is for has taken it, or it goes to one that began to     *)
(* wait later.  The count of waiters, timeouts and broadcasts lose none.   *)
(***************************************************************************)
SignalLostOnlyByRace == merged \/ stolen \/ SignalUnblocksOne

(***************************************************************************)
(* A broadcast is lost in one way: the last waiter that an earlier one let *)
(* go resets event ALL after it was set again.                             *)
(***************************************************************************)
BroadcastLostOnlyByReset == late \/ BroadcastUnblocksAll

(***************************************************************************)
(* A mutex that nobody has, and nobody is about to get or leave, is free:  *)
(* that is what mtx_unlock promises with thrd_success (tinycthread.h, line *)
(* 247).  Does not hold once mtx_trylock has leaked a lock, see GiveBack.  *)
(***************************************************************************)
UnlockFrees == (\A t \in Client : held[t] = 0 /\ ~Inside(t)) => owner = Nobody

(***************************************************************************)
(* Weaker than each of the four: at any time one of them holds.  Does not  *)
(* hold: a program can break them all.                                     *)
(***************************************************************************)
SomeCndPromiseKept ==
  WaitersExact \/ SignalUnblocksOne \/ BroadcastUnblocksAll \/ UnlockFrees

==============================================================================
