----------------------------- MODULE TinyCndProofs -----------------------------
(***************************************************************************)
(* Proofs about TinyCnd, for any number of threads and any bounds: what    *)
(* the mutex and the condition variable count is true, the mutex is one,   *)
(* and signals and broadcasts are lost in the ways named and in no other.  *)
(* CndIInv is the inductive invariant.                                     *)
(***************************************************************************)
EXTENDS TinyCnd, TLAPS, FiniteSetTheorems

-----------------------------------------------------------------------------
(* The inductive invariant.                                                *)

\* Between the calls the lock is counted right, a leak keeps it taken, and a
\* mutex that is not recursive is had once.
MutexExact ==
  /\ LockExact /\ FlagExact
  /\ owner = Nobody => leaked = 0
  /\ ~recursive => \A t \in Client : held[t] <= 1

\* While an event is set nobody is blocked, and nobody blocks.
EventsUnblock == eventOne \/ eventAll => Blocked = {}

\* The waiters counted are the threads in a wait and the waits that ran out.
WaitersCounted == waiters = Cardinality(InWait) + expired

\* A signal that is due is event ONE, unless there was a race.
SignalKept == merged \/ stolen \/ \A u \in Client : due[u] <= IF eventOne THEN 1 ELSE 0

\* A broadcast that is due is event ALL, which nobody is about to reset.
BroadcastKept ==
  late \/ dueAll = {} \/ (eventAll /\ \A u \in Client : cndAt[u] # "reset")

WaitExact ==
  WaitersCounted /\ EventsUnblock /\ SignalKept /\ dueAll \subseteq Sleepers /\ BroadcastKept

CndIInv == CndTypeOK /\ MutexExact /\ WaitExact

-----------------------------------------------------------------------------
(* Sets of threads.                                                        *)

\* There are finitely many threads.
LEMMA Counted ==
  ASSUME NEW S \in SUBSET Client
  PROVE  /\ IsFiniteSet(S) /\ Cardinality(S) \in Nat
         /\ Cardinality(S) <= Cardinality(Client) /\ Cardinality(Client) \in Nat
         /\ Cardinality(S) = 0 <=> S = {}
<1>1. IsFiniteSet(S) /\ Cardinality(S) <= Cardinality(Client)
      BY TinyCndConstants, FS_Subset
<1> QED
    BY <1>1, TinyCndConstants, FS_CardinalityType, FS_EmptySet

\* Two sets that differ in at most one thread.
LEMMA CountDiffers ==
  ASSUME NEW S \in SUBSET Client, NEW T \in SUBSET Client, NEW t \in Client,
         \A u \in Client : u # t => (u \in S <=> u \in T)
  PROVE  Cardinality(T) + (IF t \in S THEN 1 ELSE 0)
           = Cardinality(S) + (IF t \in T THEN 1 ELSE 0)
<1>1. S \ {t} = T \ {t}
      OBVIOUS
<1>2. /\ Cardinality(S \ {t}) = IF t \in S THEN Cardinality(S) - 1 ELSE Cardinality(S)
      /\ Cardinality(T \ {t}) = IF t \in T THEN Cardinality(T) - 1 ELSE Cardinality(T)
      BY Counted, FS_RemoveElement
<1>3. Cardinality(S) \in Nat /\ Cardinality(T) \in Nat
      BY Counted
<1>4. CASE t \in S
      BY <1>1, <1>2, <1>3, <1>4
<1>5. CASE t \notin S
      BY <1>1, <1>2, <1>3, <1>5
<1> QED
    BY <1>4, <1>5

\* A step moves one thread.
LEMMA Goes ==
  ASSUME CndTypeOK, NEW t \in Client, NEW to, CndGoto(t, to)
  PROVE  cndAt'[t] = to /\ \A u \in Client : u # t => cndAt'[u] = cndAt[u]
BY DEF CndTypeOK, CndGoto

-----------------------------------------------------------------------------
(* The mutex.                                                              *)

MutexType ==
  /\ owner \in Client \cup {Nobody}
  /\ depth \in 0 .. MaxDepth
  /\ held \in [Client -> 0 .. MaxDepth]
  /\ leaked \in 0 .. MaxDepth

MutexInv == MutexType /\ MutexExact

\* What is known of the mutex before a step.
LEMMA MutexFacts ==
  ASSUME CndIInv
  PROVE  /\ MutexInv /\ CndTypeOK
         /\ recursive \in BOOLEAN /\ timed \in BOOLEAN /\ alreadyLocked \in BOOLEAN
         /\ Nobody \notin Client /\ MaxDepth \in Nat
BY TinyCndConstants DEF CndIInv, CndTypeOK, MutexInv, MutexType

\* A step of the condition variable's leaves the mutex alone.
LEMMA MutexKept ==
  ASSUME MutexInv, UNCHANGED <<mutex, held, leaked>>,
         \A u \in Client : /\ Inside(u)' <=> Inside(u)
                           /\ cndAt'[u] = "mark" <=> cndAt[u] = "mark"
  PROVE  MutexInv'
<1>1. /\ recursive' = recursive /\ timed' = timed /\ alreadyLocked' = alreadyLocked
      /\ owner' = owner /\ depth' = depth /\ held' = held /\ leaked' = leaked
      BY DEF mutex
<1>2. LockExact'
      BY <1>1 DEF MutexInv, MutexType, MutexExact, LockExact
<1>3. FlagExact'
      BY <1>1 DEF MutexInv, MutexExact, FlagExact, CndIs
<1> QED
    BY <1>1, <1>2, <1>3 DEF MutexInv, MutexType, MutexExact

\* The platform's lock is taken.
LEMMA TakeMutex ==
  ASSUME CndIInv, NEW t \in Client, ~Inside(t), Available(t), TakeLock(t),
         NEW to \in {"mark", "tried"}, CndGoto(t, to),
         UNCHANGED <<recursive, timed, alreadyLocked, held, leaked>>
  PROVE  MutexInv'
<1> USE MutexFacts
<1>1. /\ cndAt'[t] = to /\ \A u \in Client : u # t => cndAt'[u] = cndAt[u]
      /\ owner \in {Nobody, t} /\ depth < MaxDepth /\ owner' = t /\ depth' = depth + 1
      BY Goes DEF Available, TakeLock
<1>2. /\ Inside(t)' /\ \A u \in Client : u # t => (Inside(u)' <=> Inside(u))
      BY <1>1 DEF Inside
<1>3. MutexType'
      BY <1>1 DEF MutexInv, MutexType
<1>4. \A u \in Client \ {t} : held[u] = 0 /\ ~Inside(u)
      BY <1>1 DEF MutexInv, MutexType, MutexExact, LockExact
<1>5. owner = Nobody => held[t] = 0 /\ leaked = 0 /\ depth = 0
      BY <1>1 DEF MutexInv, MutexType, MutexExact, LockExact
<1>6. LockExact'
      BY <1>1, <1>2, <1>4, <1>5 DEF MutexInv, MutexType, MutexExact, LockExact
<1>7. FlagExact'
      <2>1. alreadyLocked => held[t] > 0
            BY <1>4 DEF MutexInv, MutexType, MutexExact, FlagExact
      <2> QED
          BY <1>1, <2>1 DEF MutexInv, MutexExact, FlagExact, CndIs
<1> QED
    BY <1>1, <1>3, <1>6, <1>7 DEF MutexInv, MutexExact

\* The thread is told that it has the mutex.
LEMMA GetMutex ==
  ASSUME CndIInv, NEW t \in Client, cndAt[t] \in {"mark", "tried"},
         recursive \/ ~alreadyLocked, alreadyLocked' = FlagSet,
         held' = [held EXCEPT ![t] = @ + 1], CndGoto(t, "idle"),
         UNCHANGED <<recursive, timed, owner, depth, leaked>>
  PROVE  /\ MutexInv'
         /\ \A u \in Client \ {t} : held[u] = 0
         /\ recursive \/ held[t] = 0
<1> USE MutexFacts
<1>1. cndAt'[t] = "idle" /\ \A u \in Client : u # t => cndAt'[u] = cndAt[u]
      BY Goes
<1>2. Inside(t) /\ ~Inside(t)' /\ \A u \in Client : u # t => (Inside(u)' <=> Inside(u))
      BY <1>1 DEF Inside
<1>3. owner = t /\ depth = held[t] + leaked + 1 /\ t # Nobody
      BY <1>2 DEF MutexInv, MutexExact, LockExact
<1>4. \A u \in Client \ {t} : held[u] = 0 /\ ~Inside(u)
      BY <1>3 DEF MutexInv, MutexType, MutexExact, LockExact
<1>5. ~recursive => held[t] = 0
      BY <1>4 DEF MutexInv, MutexType, MutexExact, FlagExact
<1>6. held[t] + 1 \in 0 .. MaxDepth /\ held[t] \in Nat /\ leaked \in Nat
      BY <1>3 DEF MutexInv, MutexType
<1>7. /\ held' \in [Client -> 0 .. MaxDepth] /\ held'[t] = held[t] + 1
      /\ \A u \in Client \ {t} : held'[u] = 0
      BY <1>4, <1>6 DEF MutexInv, MutexType
<1>8. MutexType'
      BY <1>7 DEF MutexInv, MutexType
<1>9. LockExact'
      BY <1>2, <1>3, <1>4, <1>6, <1>7 DEF MutexInv, MutexExact, LockExact
<1>10. FlagExact'
      <2>1. alreadyLocked' <=> ~recursive
            BY DEF FlagSet
      <2>2. held'[t] > 0
            BY <1>6, <1>7
      <2>3. \A u \in Client : cndAt'[u] # "mark"
            BY <1>1, <1>4 DEF Inside
      <2> QED
          BY <2>1, <2>2, <2>3 DEF FlagExact, CndIs
<1>11. ~recursive => \A u \in Client : held'[u] <= 1
       BY <1>5, <1>6, <1>7
<1> QED
    BY <1>3, <1>4, <1>5, <1>8, <1>9, <1>10, <1>11 DEF MutexInv, MutexExact

\* mtx_trylock gives the lock back, or leaks it.
LEMMA UndoMutex ==
  ASSUME CndIInv, NEW t \in Client, TryUndone(t)
  PROVE  MutexInv'
<1> USE MutexFacts
<1>1. /\ cndAt[t] = "tried" /\ cndAt'[t] = "idle"
      /\ \A u \in Client : u # t => cndAt'[u] = cndAt[u]
      BY Goes DEF TryUndone, CndIs
<1>2. Inside(t) /\ ~Inside(t)' /\ \A u \in Client : u # t => (Inside(u)' <=> Inside(u))
      BY <1>1 DEF Inside
<1>3. owner = t /\ depth = held[t] + leaked + 1 /\ t # Nobody
      BY <1>2 DEF MutexInv, MutexExact, LockExact
<1>4. \A u \in Client \ {t} : held[u] = 0 /\ ~Inside(u)
      BY <1>3 DEF MutexInv, MutexType, MutexExact, LockExact
<1>5. ~recursive /\ alreadyLocked
      BY DEF TryUndone, OwnAlready
<1>6. held[t] > 0 /\ held[t] \in Nat /\ leaked \in Nat /\ held[t] <= MaxDepth
      BY <1>4, <1>5 DEF MutexInv, MutexType, MutexExact, FlagExact
<1>7. /\ recursive' = recursive /\ alreadyLocked' = alreadyLocked /\ held' = held /\ timed' = timed
      /\ owner' = owner
      /\ \/ timed /\ leaked' = leaked + 1 /\ depth' = depth
         \/ ~timed /\ leaked' = leaked /\ depth' = depth - 1
      <2>1. CASE timed
            BY <2>1 DEF TryUndone, GiveBack
      <2>2. CASE ~timed
            BY <1>3, <1>6, <2>2 DEF TryUndone, GiveBack, DropLock
      <2> QED
          BY <2>1, <2>2
<1>8. MutexType'
      BY <1>3, <1>6, <1>7 DEF MutexInv, MutexType
<1>9. LockExact'
      <2>1. leaked > 0 => timed
            BY DEF MutexInv, MutexExact, LockExact
      <2>2. depth' = held[t] + leaked' /\ depth' > 0
            BY <1>3, <1>6, <1>7
      <2>3. \A u \in Client : held'[u] > 0 \/ Inside(u)' => u = t
            BY <1>2, <1>4, <1>7
      <2>4. leaked' > 0 => timed' /\ ~recursive'
            BY <1>5, <1>7, <2>1
      <2> QED
          BY <1>2, <1>3, <1>7, <2>2, <2>3, <2>4 DEF LockExact
<1>10. FlagExact'
       <2>1. \A u \in Client : cndAt'[u] # "mark"
             BY <1>1, <1>4 DEF Inside
       <2> QED
           BY <1>7, <2>1 DEF MutexInv, MutexExact, FlagExact, CndIs
<1> QED
    BY <1>3, <1>7, <1>8, <1>9, <1>10 DEF MutexInv, MutexExact

\* mtx_unlock clears the flag before it leaves the lock.
LEMMA UnlockMutex ==
  ASSUME CndIInv, NEW t \in Client, Unlock(t)
  PROVE  MutexInv'
<1> USE MutexFacts
<1>1. /\ cndAt[t] \in {"idle", "unlock"} /\ cndAt'[t] \in {"leave", "leaveToWait"}
      /\ \A u \in Client : u # t => cndAt'[u] = cndAt[u]
      BY Goes DEF Unlock, CndIs
<1>2. ~Inside(t) /\ Inside(t)' /\ \A u \in Client : u # t => (Inside(u)' <=> Inside(u))
      BY <1>1 DEF Inside
<1>3. /\ held[t] > 0 /\ alreadyLocked' = FALSE /\ held' = [held EXCEPT ![t] = @ - 1]
      /\ UNCHANGED <<recursive, timed, owner, depth, leaked>>
      BY DEF Unlock, hist, promises
<1>4. owner = t /\ depth = held[t] + leaked /\ t # Nobody
      BY <1>2, <1>3 DEF MutexInv, MutexType, MutexExact, LockExact
<1>5. \A u \in Client \ {t} : held[u] = 0 /\ ~Inside(u)
      BY <1>4 DEF MutexInv, MutexType, MutexExact, LockExact
<1>6. held[t] \in Nat /\ leaked \in Nat /\ held[t] <= MaxDepth
      BY DEF MutexInv, MutexType
<1>7. /\ held' \in [Client -> 0 .. MaxDepth] /\ held'[t] = held[t] - 1
      /\ \A u \in Client \ {t} : held'[u] = 0
      BY <1>3, <1>5, <1>6 DEF MutexInv, MutexType
<1>8. MutexType'
      BY <1>3, <1>7 DEF MutexInv, MutexType
<1>9. LockExact'
      BY <1>2, <1>3, <1>4, <1>5, <1>6, <1>7 DEF MutexInv, MutexExact, LockExact
<1>10. ~recursive => \A u \in Client : held'[u] = 0
       <2>1. ~recursive => held[t] <= 1
             BY DEF MutexInv, MutexExact
       <2> QED
           BY <1>3, <1>6, <1>7, <2>1
<1>11. FlagExact'
       BY <1>3, <1>10 DEF FlagExact
<1> QED
    BY <1>3, <1>4, <1>8, <1>9, <1>10, <1>11 DEF MutexInv, MutexExact

\* LeaveCriticalSection, ReleaseMutex.
LEMMA LeaveMutex ==
  ASSUME CndIInv, NEW t \in Client, Leave(t)
  PROVE  MutexInv'
<1> USE MutexFacts
<1>1. /\ cndAt[t] \in {"leave", "leaveToWait"} /\ cndAt'[t] \in {"idle", "wait"}
      /\ \A u \in Client : u # t => cndAt'[u] = cndAt[u]
      BY Goes DEF Leave, CndIs
<1>2. Inside(t) /\ ~Inside(t)' /\ \A u \in Client : u # t => (Inside(u)' <=> Inside(u))
      BY <1>1 DEF Inside
<1>3. /\ depth' = depth - 1 /\ owner' = IF depth = 1 THEN Nobody ELSE owner
      /\ UNCHANGED <<recursive, timed, alreadyLocked, leaked, held>>
      BY DEF Leave, DropLock, hist, promises
<1>4. owner = t /\ depth = held[t] + leaked + 1 /\ t # Nobody
      BY <1>2 DEF MutexInv, MutexExact, LockExact
<1>5. \A u \in Client \ {t} : held[u] = 0 /\ ~Inside(u)
      BY <1>4 DEF MutexInv, MutexType, MutexExact, LockExact
<1>6. held[t] \in Nat /\ leaked \in Nat /\ depth \in 1 .. MaxDepth
      BY <1>4 DEF MutexInv, MutexType
<1>7. MutexType'
      BY <1>3, <1>6 DEF MutexInv, MutexType
<1>8. LockExact'
      <2>1. CASE depth = 1
            <3>1. held[t] = 0 /\ leaked = 0 /\ depth' = 0 /\ owner' = Nobody
                  BY <1>3, <1>4, <1>6, <2>1
            <3>2. \A u \in Client : ~(held'[u] > 0) /\ ~Inside(u)'
                  BY <1>2, <1>3, <1>5, <3>1
            <3> QED
                BY <1>3, <3>1, <3>2 DEF LockExact
      <2>2. CASE depth # 1
            BY <1>2, <1>3, <1>4, <1>5, <1>6, <2>2 DEF MutexInv, MutexExact, LockExact
      <2> QED
          BY <2>1, <2>2
<1>9. FlagExact'
      <2>1. \A u \in Client : cndAt'[u] # "mark"
            BY <1>1, <1>5 DEF Inside
      <2> QED
          BY <1>3, <2>1 DEF MutexInv, MutexExact, FlagExact, CndIs
<1>10. owner' = Nobody => leaked' = 0
       BY <1>3, <1>4, <1>6
<1> QED
    BY <1>3, <1>7, <1>8, <1>9, <1>10 DEF MutexInv, MutexExact

-----------------------------------------------------------------------------
(* The condition variable.                                                 *)

WaitType ==
  /\ waiters \in Nat /\ expired \in 0 .. MaxExpired
  /\ due \in [Client -> 0 .. Cardinality(Client)]
  /\ dueAll \subseteq Client

WaitInv == WaitType /\ WaitExact

\* What is known of the condition variable before a step.
LEMMA WaitFacts ==
  ASSUME CndIInv
  PROVE  WaitInv /\ CndTypeOK /\ MaxExpired \in Nat /\ Cardinality(Client) \in Nat
<1>1. CndTypeOK /\ Cardinality(Client) \in Nat /\ MaxExpired \in Nat
      BY Counted, TinyCndConstants DEF CndIInv
<1> QED
    BY <1>1 DEF CndIInv, CndTypeOK, WaitInv, WaitType

\* The sets of threads that the counts are about.
LEMMA Sets ==
  /\ InWait \in SUBSET Client /\ InWait' \in SUBSET Client
  /\ Sleepers \in SUBSET Client /\ Sleepers' \in SUBSET Client
  /\ Blocked \in SUBSET Client /\ Blocked' \in SUBSET Client
  /\ Blocked \subseteq Sleepers /\ Sleepers \subseteq InWait
BY DEF InWait, Sleepers, Blocked, CndIs

\* The sets that are counted are finite, before and after a step.
LEMMA Cards ==
  /\ Cardinality(InWait) \in Nat /\ Cardinality(InWait') \in Nat
  /\ Cardinality(Sleepers) \in Nat
BY Sets, Counted

\* A thread leaves the wait, or comes to it.
LEMMA InWaitDiffers ==
  ASSUME NEW t \in Client, \A u \in Client : u # t => cndAt'[u] = cndAt[u]
  PROVE  /\ t \in InWait /\ t \notin InWait' => Cardinality(InWait') = Cardinality(InWait) - 1
         /\ t \notin InWait /\ t \in InWait' => Cardinality(InWait') = Cardinality(InWait) + 1
<1>1. \A u \in Client : u # t => (u \in InWait <=> u \in InWait')
      BY DEF InWait
<1> QED
    BY <1>1, Sets, Cards, CountDiffers

-----------------------------------------------------------------------------
(* Promises.                                                               *)

\* One more promise to the sleepers is one more to each at most.
LEMMA PromisedType ==
  ASSUME NEW d \in [Client -> 0 .. Cardinality(Client)]
  PROVE  /\ Promised(d) \in [Client -> 0 .. Cardinality(Client)]
         /\ \A u \in Client : Promised(d)[u] <= d[u] + 1
         /\ \A b \in Sleepers : d[b] = 0 => Promised(d)[b] = 1
<1>1. /\ Cardinality(Client) \in Nat /\ Cardinality(Sleepers) \in Nat
      /\ Cardinality(Sleepers) <= Cardinality(Client)
      BY Sets, Counted
<1>2. \A b \in Sleepers : b \in Client /\ Cardinality(Sleepers) > 0
      BY <1>1, Sets, Counted
<1> QED
    BY <1>1, <1>2 DEF Promised

\* A promise that is kept is one less for none but those it is for.
LEMMA KeptType ==
  ASSUME NEW d \in [Client -> 0 .. Cardinality(Client)], NEW t \in Client
  PROVE  /\ Kept(d, t) \in [Client -> 0 .. Cardinality(Client)]
         /\ \A u \in Client : Kept(d, t)[u] <= d[u]
         /\ (\A u \in Client : d[u] <= 1) /\ d[t] = 1 => \A u \in Client : Kept(d, t)[u] = 0
         /\ (\A u \in Client : d[u] = 0) => \A u \in Client : Kept(d, t)[u] = 0
<1>1. Cardinality(Client) \in Nat /\ \A u \in Client : d[u] \in 0 .. Cardinality(Client)
      BY Counted
<1>2. /\ Kept(d, t) \in [Client -> 0 .. Cardinality(Client)]
      /\ \A u \in Client : Kept(d, t)[u] <= d[u]
      BY <1>1 DEF Kept
<1>3. ASSUME \A u \in Client : d[u] <= 1, d[t] = 1, NEW u \in Client
      PROVE  Kept(d, t)[u] = 0
      BY <1>1, <1>3 DEF Kept
<1>4. ASSUME \A u \in Client : d[u] = 0, NEW u \in Client
      PROVE  Kept(d, t)[u] = 0
      BY <1>4 DEF Kept
<1> QED
    BY <1>2, <1>3, <1>4

-----------------------------------------------------------------------------
(* The condition variable, step by step.                                   *)

\* A step of the mutex's leaves the condition variable alone; one more thread
\* may have given up its mutex and come to its wait.
LEMMA WaitKept ==
  ASSUME CndIInv, UNCHANGED <<cond, expired, promises>>, NEW t \in Client,
         NEW to, CndGoto(t, to),
         \/ /\ cndAt[t] \in {"idle", "enter", "relock", "mark", "tried", "leave"}
            /\ to \in {"idle", "enter", "relock", "mark", "tried", "leave"}
         \/ cndAt[t] = "unlock" /\ to = "leaveToWait"
         \/ cndAt[t] = "leaveToWait" /\ to = "wait"
  PROVE  WaitInv'
<1> USE WaitFacts
<1>1. cndAt'[t] = to /\ \A u \in Client : u # t => cndAt'[u] = cndAt[u]
      BY Goes
<1>2. /\ waiters' = waiters /\ eventOne' = eventOne /\ eventAll' = eventAll
      /\ expired' = expired /\ UNCHANGED <<due, dueAll, merged, stolen, late>>
      BY DEF cond, promises
<1>3. /\ InWait' = InWait /\ Blocked' = Blocked /\ Sleepers \subseteq Sleepers'
      /\ \A u \in Client : cndAt'[u] = "reset" <=> cndAt[u] = "reset"
      BY <1>1 DEF InWait, Blocked, Sleepers, CndIs
<1>4. SignalKept' /\ BroadcastKept' /\ (dueAll \subseteq Sleepers)'
      BY <1>2, <1>3 DEF WaitInv, WaitExact, SignalKept, BroadcastKept
<1> QED
    BY <1>2, <1>3, <1>4 DEF WaitInv, WaitType, WaitExact, WaitersCounted, EventsUnblock

\* cnd_wait counts its thread.
LEMMA WaitCounts ==
  ASSUME CndIInv, NEW t \in Client, Wait(t)
  PROVE  WaitInv'
<1> USE WaitFacts
<1>1. /\ cndAt[t] = "idle" /\ cndAt'[t] = "unlock"
      /\ \A u \in Client : u # t => cndAt'[u] = cndAt[u]
      BY Goes DEF Wait, CndIs
<1>2. /\ waiters' = waiters + 1 /\ eventOne' = eventOne /\ eventAll' = eventAll
      /\ expired' = expired /\ UNCHANGED <<due, dueAll, merged, stolen, late>>
      BY DEF Wait, hist, promises
<1>3. /\ Sleepers' = Sleepers /\ Blocked' = Blocked
      /\ \A u \in Client : cndAt'[u] = "reset" <=> cndAt[u] = "reset"
      BY <1>1 DEF Sleepers, Blocked, CndIs
<1>4. t \notin InWait /\ t \in InWait'
      BY <1>1 DEF InWait
<1>5. WaitersCounted'
      BY <1>1, <1>2, <1>4, InWaitDiffers, Cards DEF WaitInv, WaitType, WaitExact, WaitersCounted
<1>6. SignalKept' /\ BroadcastKept' /\ (dueAll \subseteq Sleepers)'
      BY <1>2, <1>3 DEF WaitInv, WaitExact, SignalKept, BroadcastKept
<1> QED
    BY <1>2, <1>3, <1>5, <1>6 DEF WaitInv, WaitType, WaitExact, EventsUnblock

\* WaitForMultipleObjects returns at once: event ONE is taken by one it is for, or
\* by another while none is due, or is stolen.
LEMMA WaitTakes ==
  ASSUME CndIInv, NEW t \in Client, WaitForEvents(t), eventOne \/ eventAll
  PROVE  WaitInv'
<1> USE WaitFacts
<1>1. /\ cndAt[t] = "wait" /\ cndAt'[t] = "count" /\ eventOne' = FALSE
      /\ \A u \in Client : u # t => cndAt'[u] = cndAt[u]
      BY Goes DEF WaitForEvents, CndIs
<1>2. /\ waiters' = waiters /\ eventAll' = eventAll /\ expired' = expired
      /\ merged' = merged /\ late' = late
      /\ IF eventOne THEN Take(t) ELSE GoOn(t)
      BY DEF WaitForEvents
<1>3. /\ InWait' = InWait /\ Blocked' = Blocked /\ Sleepers' = Sleepers \ {t}
      /\ \A u \in Client : cndAt'[u] = "reset" <=> cndAt[u] = "reset"
      BY <1>1 DEF InWait, Blocked, Sleepers, CndIs
<1>4. dueAll' = dueAll \ {t}
      BY <1>2 DEF Take, GoOn
<1>5. due' \in [Client -> 0 .. Cardinality(Client)] /\ SignalKept'
      <2>1. due \in [Client -> 0 .. Cardinality(Client)]
            BY DEF WaitInv, WaitType
      <2>2. CASE eventOne
            <3>1. due' = Kept(due, t) /\ stolen' = (stolen \/ (SomeDue /\ due[t] = 0))
                  BY <1>2, <2>2 DEF Take
            <3>2. ASSUME ~merged, ~stolen'
                  PROVE  \A u \in Client : due'[u] = 0
                  <4>0. ~stolen
                        BY <3>1, <3>2
                  <4>1. \A u \in Client : due[u] <= 1
                        BY <2>2, <3>2, <4>0 DEF WaitInv, WaitExact, SignalKept
                  <4>2. CASE due[t] = 1
                        BY <2>1, <3>1, <4>1, <4>2, KeptType
                  <4>3. CASE due[t] = 0
                        <5>0. ~SomeDue
                              BY <3>1, <3>2, <4>3
                        <5>1. \A u \in Client : due[u] = 0
                              BY <2>1, <5>0 DEF SomeDue
                        <5> QED
                            BY <2>1, <3>1, <5>1, KeptType
                  <4> QED
                      BY <2>1, <4>1, <4>2, <4>3
            <3>3. stolen' \in BOOLEAN
                  BY <3>1 DEF CndTypeOK
            <3> QED
                BY <1>1, <1>2, <2>1, <3>1, <3>2, <3>3, KeptType DEF SignalKept
      <2>3. CASE ~eventOne
            <3>1. due' = [due EXCEPT ![t] = 0] /\ stolen' = stolen
                  BY <1>2, <2>3 DEF GoOn
            <3> QED
                BY <1>1, <1>2, <2>1, <2>3, <3>1 DEF WaitInv, WaitExact, SignalKept
      <2> QED
          BY <2>2, <2>3
<1>6. BroadcastKept' /\ (dueAll \subseteq Sleepers)'
      BY <1>2, <1>3, <1>4 DEF WaitInv, WaitExact, BroadcastKept
<1>7. EventsUnblock'
      BY <1>1, <1>2, <1>3 DEF WaitInv, WaitExact, EventsUnblock
<1> QED
    BY <1>2, <1>3, <1>4, <1>5, <1>6, <1>7 DEF WaitInv, WaitType, WaitExact, WaitersCounted

\* Or it blocks, with no event set.
LEMMA WaitBlocks ==
  ASSUME CndIInv, NEW t \in Client, WaitForEvents(t), ~eventOne, ~eventAll
  PROVE  WaitInv'
<1> USE WaitFacts
<1>1. /\ cndAt[t] = "wait" /\ cndAt'[t] = "blocked"
      /\ \A u \in Client : u # t => cndAt'[u] = cndAt[u]
      BY Goes DEF WaitForEvents, CndIs
<1>2. /\ waiters' = waiters /\ eventOne' = eventOne /\ eventAll' = eventAll
      /\ expired' = expired /\ UNCHANGED <<due, dueAll, merged, stolen, late>>
      BY DEF WaitForEvents
<1>3. /\ InWait' = InWait /\ Sleepers' = Sleepers
      /\ \A u \in Client : cndAt'[u] = "reset" <=> cndAt[u] = "reset"
      BY <1>1 DEF InWait, Sleepers
<1>4. SignalKept' /\ BroadcastKept' /\ (dueAll \subseteq Sleepers)'
      BY <1>2, <1>3 DEF WaitInv, WaitExact, SignalKept, BroadcastKept
<1> QED
    BY <1>2, <1>3, <1>4 DEF WaitInv, WaitType, WaitExact, WaitersCounted, EventsUnblock

\* A wait that runs out takes nothing that is for others.
LEMMA TimeoutLeaves ==
  ASSUME CndIInv, NEW t \in Client, WaitTimesOut(t)
  PROVE  WaitInv'
<1> USE WaitFacts
<1>1. /\ cndAt[t] = "blocked" /\ cndAt'[t] = "relock"
      /\ \A u \in Client : u # t => cndAt'[u] = cndAt[u]
      BY Goes DEF WaitTimesOut, CndIs
<1>2. /\ waiters' = waiters /\ eventOne' = eventOne /\ eventAll' = eventAll
      /\ expired < MaxExpired /\ expired' = expired + 1
      /\ due' = [due EXCEPT ![t] = 0] /\ dueAll' = dueAll \ {t}
      /\ UNCHANGED <<merged, stolen, late>>
      BY DEF WaitTimesOut, GoOn, cond
<1>3. /\ Sleepers' = Sleepers \ {t} /\ Blocked' = Blocked \ {t}
      /\ \A u \in Client : cndAt'[u] = "reset" <=> cndAt[u] = "reset"
      BY <1>1 DEF Sleepers, Blocked, CndIs
<1>4. t \in InWait /\ t \notin InWait'
      BY <1>1 DEF InWait
<1>5. WaitersCounted'
      BY <1>1, <1>2, <1>4, InWaitDiffers, Cards DEF WaitInv, WaitType, WaitExact, WaitersCounted
<1>6. SignalKept'
      BY <1>2 DEF WaitInv, WaitType, WaitExact, SignalKept
<1>7. BroadcastKept' /\ (dueAll \subseteq Sleepers)' /\ EventsUnblock'
      BY <1>2, <1>3 DEF WaitInv, WaitExact, BroadcastKept, EventsUnblock
<1>8. WaitType'
      BY <1>2 DEF WaitInv, WaitType
<1> QED
    BY <1>5, <1>6, <1>7, <1>8 DEF WaitInv, WaitExact

\* The last waiter out by event ALL leaves nobody behind who is due a broadcast.
LEMMA CountOutLeaves ==
  ASSUME CndIInv, NEW t \in Client, CountOut(t)
  PROVE  WaitInv'
<1> USE WaitFacts
<1>1. PICK to \in {"reset", "relock"} : CndGoto(t, to) /\ (to = "reset" => waiters' = 0)
      BY DEF CountOut, LastOut
<1>2. /\ cndAt[t] = "count" /\ cndAt'[t] = to
      /\ \A u \in Client : u # t => cndAt'[u] = cndAt[u]
      BY <1>1, Goes DEF CountOut, CndIs
<1>3. /\ waiters' = waiters - 1 /\ eventOne' = eventOne /\ eventAll' = eventAll
      /\ expired' = expired /\ UNCHANGED <<due, dueAll, merged, stolen, late>>
      BY DEF CountOut, CountedOut, hist, promises
<1>4. /\ Sleepers' = Sleepers /\ Blocked' = Blocked
      /\ to = "relock" => \A u \in Client : cndAt'[u] = "reset" <=> cndAt[u] = "reset"
      BY <1>2 DEF Sleepers, Blocked, CndIs
<1>5. t \in InWait /\ t \notin InWait'
      BY <1>2 DEF InWait
<1>6. Cardinality(InWait') = Cardinality(InWait) - 1
      BY <1>2, <1>5, InWaitDiffers
<1>7. WaitersCounted' /\ waiters' \in Nat
      BY <1>3, <1>6, Cards DEF WaitInv, WaitType, WaitExact, WaitersCounted
<1>8. BroadcastKept'
      <2>1. CASE to = "relock"
            BY <1>3, <1>4, <2>1 DEF WaitInv, WaitExact, BroadcastKept
      <2>2. CASE to = "reset"
            <3>1. Cardinality(InWait') = 0
                  BY <1>1, <1>3, <1>7, <2>2, Cards DEF WaitersCounted, WaitInv, WaitType
            <3>2. InWait' = {} /\ Sleepers' \subseteq InWait'
                  BY <3>1, Sets, Counted DEF Sleepers, InWait
            <3>3. dueAll' = {}
                  BY <1>3, <1>4, <3>2 DEF WaitInv, WaitExact
            <3> QED
                BY <3>3 DEF BroadcastKept
      <2> QED
          BY <2>1, <2>2
<1>9. WaitType' /\ SignalKept' /\ EventsUnblock' /\ (dueAll \subseteq Sleepers)'
      BY <1>3, <1>4, <1>7 DEF WaitInv, WaitType, WaitExact, SignalKept, EventsUnblock
<1> QED
    BY <1>7, <1>8, <1>9 DEF WaitInv, WaitExact

\* The last waiter of a broadcast resets event ALL: nobody was due it.
LEMMA ResetResets ==
  ASSUME CndIInv, NEW t \in Client, Reset(t)
  PROVE  WaitInv'
<1> USE WaitFacts
<1>1. /\ cndAt[t] = "reset" /\ cndAt'[t] = "relock"
      /\ \A u \in Client : u # t => cndAt'[u] = cndAt[u]
      BY Goes DEF Reset, CndIs
<1>2. /\ waiters' = waiters /\ eventOne' = eventOne /\ eventAll' = FALSE
      /\ expired' = expired /\ UNCHANGED <<due, dueAll, merged, stolen, late>>
      BY DEF Reset, hist, promises
<1>3. InWait' = InWait /\ Sleepers' = Sleepers /\ Blocked' = Blocked
      BY <1>1 DEF InWait, Sleepers, Blocked, CndIs
<1>4. BroadcastKept'
      BY <1>1, <1>2 DEF WaitInv, WaitExact, BroadcastKept
<1>5. SignalKept' /\ EventsUnblock' /\ (dueAll \subseteq Sleepers)'
      BY <1>2, <1>3 DEF WaitInv, WaitExact, SignalKept, EventsUnblock
<1> QED
    BY <1>2, <1>3, <1>4, <1>5 DEF WaitInv, WaitType, WaitExact, WaitersCounted

\* With no waiters counted there are none.
LEMMA NoneSleep ==
  ASSUME CndIInv, ~HasWaiters
  PROVE  Sleepers = {}
<1> USE WaitFacts
<1>1. Cardinality(InWait) = 0
      BY Cards DEF HasWaiters, WaitInv, WaitType, WaitExact, WaitersCounted
<1> QED
    BY <1>1, Sets, Counted

\* A call that finds no waiters promises nothing, one that finds some has yet to.
LEMMA CallPromises ==
  ASSUME CndIInv, NEW t \in Client, Signal(t) \/ Broadcast(t)
  PROVE  WaitInv'
<1> USE WaitFacts
<1>1. /\ waiters' = waiters /\ eventOne' = eventOne /\ eventAll' = eventAll
      /\ expired' = expired /\ UNCHANGED <<merged, stolen, late>>
      BY DEF Signal, Broadcast, cond
<1>2. /\ cndAt[t] = "idle" /\ cndAt'[t] \in {"idle", "setOne", "setAll"}
      /\ \A u \in Client : u # t => cndAt'[u] = cndAt[u]
      BY Goes DEF Signal, Broadcast, CndIs
<1>3. due' = due /\ dueAll' \in {dueAll, {}}
      <2>1. CASE HasWaiters
            BY <2>1 DEF Signal, Broadcast
      <2>2. CASE ~HasWaiters
            <3>1. Sleepers = {}
                  BY <2>2, NoneSleep
            <3>2. Promised(due) = due
                  BY <3>1 DEF Promised, WaitInv, WaitType
            <3> QED
                BY <2>2, <3>1, <3>2 DEF Signal, Broadcast
      <2> QED
          BY <2>1, <2>2
<1>4. /\ InWait' = InWait /\ Sleepers' = Sleepers /\ Blocked' = Blocked
      /\ \A u \in Client : cndAt'[u] = "reset" <=> cndAt[u] = "reset"
      BY <1>2 DEF InWait, Sleepers, Blocked, CndIs
<1>5. SignalKept' /\ BroadcastKept' /\ EventsUnblock' /\ (dueAll \subseteq Sleepers)'
      BY <1>1, <1>3, <1>4 DEF WaitInv, WaitExact, SignalKept, BroadcastKept, EventsUnblock
<1> QED
    BY <1>1, <1>3, <1>4, <1>5 DEF WaitInv, WaitType, WaitExact, WaitersCounted

\* SetEvent of event ONE leaves the event set, for those who come to their wait: if
\* it was set for one of them already, two signals have become one.
LEMMA SetOneSets ==
  ASSUME CndIInv, NEW t \in Client, SetOne(t), Blocked = {}
  PROVE  WaitInv'
<1> USE WaitFacts
<1>1. /\ cndAt[t] = "setOne" /\ cndAt'[t] = "idle"
      /\ \A u \in Client : u # t => cndAt'[u] = cndAt[u]
      BY Goes DEF SetOne, CndIs
<1>2. /\ waiters' = waiters /\ eventAll' = eventAll /\ expired' = expired
      /\ eventOne' = TRUE /\ due' = Promised(due) /\ merged' = (merged \/ (eventOne /\ SomeDue))
      /\ UNCHANGED <<dueAll, stolen, late>>
      BY DEF SetOne
<1>3. /\ InWait' = InWait /\ Sleepers' = Sleepers /\ Blocked' = {}
      /\ \A u \in Client : cndAt'[u] = "reset" <=> cndAt[u] = "reset"
      BY <1>1 DEF InWait, Blocked, Sleepers, CndIs
<1>4. due \in [Client -> 0 .. Cardinality(Client)]
      BY DEF WaitInv, WaitType
<1>5. /\ due' \in [Client -> 0 .. Cardinality(Client)]
      /\ \A u \in Client : due'[u] <= due[u] + 1
      BY <1>2, <1>4, PromisedType
<1>6. ASSUME ~merged', ~stolen, NEW u \in Client
      PROVE  due'[u] <= 1
      <2>1. due[u] = 0
            <3>1. ~merged /\ (~eventOne \/ ~SomeDue)
                  BY <1>2, <1>6
            <3> QED
                BY <1>4, <1>6, <3>1 DEF SomeDue, WaitInv, WaitExact, SignalKept
      <2> QED
          BY <1>5, <2>1
<1>7. SignalKept'
      BY <1>2, <1>6 DEF SignalKept
<1>8. BroadcastKept' /\ EventsUnblock' /\ (dueAll \subseteq Sleepers)'
      BY <1>2, <1>3 DEF WaitInv, WaitExact, BroadcastKept, EventsUnblock
<1> QED
    BY <1>2, <1>3, <1>5, <1>7, <1>8 DEF WaitInv, WaitType, WaitExact, WaitersCounted

\* Or it lets one blocked thread go, which keeps the promise at once.
LEMMA SetOneWakes ==
  ASSUME CndIInv, NEW t \in Client, SetOne(t), Blocked # {}
  PROVE  WaitInv'
<1> USE WaitFacts
<1>1. PICK b \in Blocked : /\ cndAt' = [cndAt EXCEPT ![t] = "idle", ![b] = "count"]
                           /\ due' = Kept(Promised(due), b) /\ dueAll' = dueAll \ {b}
                           /\ UNCHANGED <<eventOne, merged>>
      BY DEF SetOne
<1>2. /\ waiters' = waiters /\ eventAll' = eventAll /\ expired' = expired
      /\ UNCHANGED <<eventOne, merged, stolen, late>> /\ ~eventOne /\ ~eventAll
      BY <1>1 DEF SetOne, WaitInv, WaitExact, EventsUnblock
<1>3. b \in Client /\ cndAt[b] = "blocked" /\ cndAt[t] = "setOne" /\ b \in Sleepers
      BY DEF SetOne, Blocked, Sleepers, CndIs
<1>4. /\ cndAt'[t] = "idle" /\ cndAt'[b] = "count"
      /\ \A u \in Client : u # t /\ u # b => cndAt'[u] = cndAt[u]
      BY <1>1, <1>3 DEF CndTypeOK
<1>5. /\ InWait' = InWait /\ Sleepers' = Sleepers \ {b}
      /\ \A u \in Client : cndAt'[u] = "reset" <=> cndAt[u] = "reset"
      BY <1>3, <1>4 DEF InWait, Sleepers
<1>6. due \in [Client -> 0 .. Cardinality(Client)]
      BY DEF WaitInv, WaitType
<1>7. /\ Promised(due) \in [Client -> 0 .. Cardinality(Client)]
      /\ \A u \in Client : Promised(due)[u] <= due[u] + 1
      /\ due[b] = 0 => Promised(due)[b] = 1
      BY <1>3, <1>6, PromisedType
<1>8. due' \in [Client -> 0 .. Cardinality(Client)]
      BY <1>1, <1>3, <1>7, KeptType
<1>9. ASSUME ~merged, ~stolen
      PROVE  \A u \in Client : due'[u] = 0
      <2>1. \A u \in Client : due[u] = 0
            BY <1>2, <1>6, <1>9 DEF WaitInv, WaitExact, SignalKept
      <2>2. (\A u \in Client : Promised(due)[u] <= 1) /\ Promised(due)[b] = 1
            BY <1>3, <1>7, <2>1
      <2> QED
          BY <1>1, <1>3, <1>7, <2>2, KeptType
<1>10. SignalKept'
       BY <1>2, <1>9 DEF SignalKept
<1>11. BroadcastKept' /\ (dueAll \subseteq Sleepers)' /\ EventsUnblock'
       BY <1>1, <1>2, <1>5 DEF WaitInv, WaitExact, BroadcastKept, EventsUnblock
<1> QED
    BY <1>1, <1>2, <1>5, <1>8, <1>10, <1>11 DEF WaitInv, WaitType, WaitExact, WaitersCounted

\* SetEvent of event ALL lets every blocked thread go and stays set, for those who
\* come to their wait: if nobody was about to reset it, nobody is now.
LEMMA SetAllSets ==
  ASSUME CndIInv, NEW t \in Client, SetAll(t)
  PROVE  WaitInv'
<1> USE WaitFacts
<1>1. /\ cndAt[t] = "setAll" /\ eventAll' = TRUE
      /\ waiters' = waiters /\ eventOne' = eventOne /\ expired' = expired
      /\ due' = [u \in Client |-> IF u \in Blocked THEN 0 ELSE due[u]]
      /\ dueAll' = Sleepers \ Blocked /\ UNCHANGED <<merged, stolen>>
      /\ late' = (late \/ (dueAll' # {} /\ \E u \in Client : cndAt[u] = "reset"))
      BY DEF SetAll, CndIs
<1>2. \A u \in Client : cndAt'[u] = IF u = t THEN "idle"
                                    ELSE IF u \in Blocked THEN "count" ELSE cndAt[u]
      BY DEF SetAll
<1>3. \A u \in Client : u \in Blocked <=> cndAt[u] = "blocked"
      BY DEF Blocked, CndIs
<1>4. /\ InWait' = InWait /\ Blocked' = {} /\ Sleepers' = Sleepers \ Blocked
      /\ \A u \in Client : cndAt'[u] = "reset" <=> cndAt[u] = "reset"
      BY <1>1, <1>2, <1>3 DEF InWait, Blocked, Sleepers, CndIs
<1>5. WaitType'
      BY <1>1, Sets DEF WaitInv, WaitType
<1>6. SignalKept'
      BY <1>1 DEF WaitInv, WaitType, WaitExact, SignalKept
<1>7. BroadcastKept'
      BY <1>1, <1>4 DEF BroadcastKept
<1> QED
    BY <1>1, <1>4, <1>5, <1>6, <1>7 DEF WaitInv, WaitExact, WaitersCounted, EventsUnblock

-----------------------------------------------------------------------------
(* Every step.                                                             *)

\* The variables that count nothing.
Flags ==
  /\ recursive \in BOOLEAN /\ timed \in BOOLEAN /\ alreadyLocked \in BOOLEAN
  /\ eventOne \in BOOLEAN /\ eventAll \in BOOLEAN
  /\ merged \in BOOLEAN /\ stolen \in BOOLEAN /\ late \in BOOLEAN
  /\ cndAt \in [Client -> CndLabel]
  /\ byAll \in [Client -> BOOLEAN]

\* No call changes whether the mutex is recursive or timed.
LEMMA FlagsKept ==
  ASSUME CndIInv, NEW t \in Client, CndStep(t)
  PROVE  Flags'
<1>1. CndTypeOK /\ Flags
      BY DEF CndIInv, CndTypeOK, Flags
<1>2. CASE Lock(t)
      BY <1>1, <1>2 DEF Lock, Flags, CndGoto, CndLabel, mutex, cond, hist, promises
<1>3. CASE Wait(t)
      BY <1>1, <1>3 DEF Wait, Flags, CndGoto, CndLabel, mutex, hist, promises
<1>4. CASE Enter(t)
      BY <1>1, <1>4 DEF Enter, Flags, CndGoto, CndLabel, cond, hist, promises
<1>5. CASE LockTimesOut(t)
      BY <1>1, <1>5 DEF LockTimesOut, Flags, CndGoto, CndLabel, mutex, cond, hist, promises
<1>6. CASE Mark(t)
      BY <1>1, <1>6 DEF Mark, FlagSet, Flags, CndGoto, CndLabel, cond, hist, promises
<1>7. CASE TryLock(t)
      BY <1>1, <1>7 DEF TryLock, Flags, CndGoto, CndLabel, cond, hist, promises
<1>8. CASE TryUndone(t)
      BY <1>1, <1>8 DEF TryUndone, Flags, CndGoto, CndLabel, cond, promises
<1>9. CASE TryKept(t)
      BY <1>1, <1>9 DEF TryKept, FlagSet, Flags, CndGoto, CndLabel, cond, hist, promises
<1>10. CASE Unlock(t)
       BY <1>1, <1>10 DEF Unlock, Flags, CndGoto, CndLabel, cond, hist, promises
<1>11. CASE Leave(t)
       BY <1>1, <1>11 DEF Leave, Flags, CndGoto, CndLabel, cond, hist, promises
<1>12. CASE WaitForEvents(t)
       <2>1. PICK to \in {"count", "blocked"} : CndGoto(t, to)
             BY <1>12 DEF WaitForEvents
       <2>2. /\ cndAt' \in [Client -> CndLabel]
             /\ byAll' \in [Client -> BOOLEAN] /\ eventOne' \in BOOLEAN
             BY <1>1, <1>12, <2>1 DEF WaitForEvents, Flags, CndGoto, CndLabel
       <2>3. stolen' \in BOOLEAN
             <3>1. stolen' = stolen \/ stolen' = (stolen \/ (SomeDue /\ due[t] = 0))
                   BY <1>12 DEF WaitForEvents, Take, GoOn
             <3> QED
                 BY <1>1, <3>1 DEF Flags
       <2> QED
           BY <1>1, <1>12, <2>2, <2>3 DEF WaitForEvents, Flags, mutex
<1>13. CASE WaitTimesOut(t)
       BY <1>1, <1>13 DEF WaitTimesOut, GoOn, Flags, CndGoto, CndLabel, mutex, cond
<1>14. CASE CountOut(t)
       <2>1. PICK to \in {"reset", "relock"} : CndGoto(t, to)
             BY <1>14 DEF CountOut
       <2>2. cndAt' \in [Client -> CndLabel]
             BY <1>1, <2>1 DEF Flags, CndGoto, CndLabel
       <2> QED
           BY <1>1, <1>14, <2>2 DEF CountOut, Flags, mutex, hist, promises
<1>15. CASE Reset(t)
       BY <1>1, <1>15 DEF Reset, Flags, CndGoto, CndLabel, mutex, hist, promises
<1>16. CASE Signal(t) \/ Broadcast(t)
       <2>1. cndAt' = cndAt \/ \E to \in {"setOne", "setAll"} : CndGoto(t, to)
             BY <1>16 DEF Signal, Broadcast
       <2>2. cndAt' \in [Client -> CndLabel]
             BY <1>1, <2>1 DEF Flags, CndGoto, CndLabel
       <2> QED
           BY <1>1, <1>16, <2>2 DEF Signal, Broadcast, Flags, mutex, cond
<1>18. CASE SetOne(t)
       <2>1. CASE Blocked = {}
             <3>1. merged' \in BOOLEAN
                   BY <1>1, <1>18, <2>1 DEF SetOne, Flags
             <3> QED
                 BY <1>1, <1>18, <2>1, <3>1 DEF SetOne, Flags, CndGoto, CndLabel, mutex
       <2>2. CASE Blocked # {}
             <3>1. PICK b \in Blocked : /\ cndAt' = [cndAt EXCEPT ![t] = "idle", ![b] = "count"]
                                        /\ byAll' = [byAll EXCEPT ![b] = FALSE]
                                        /\ UNCHANGED <<eventOne, merged>>
                   BY <1>18, <2>2 DEF SetOne
             <3>2. b \in Client
                   BY DEF Blocked
             <3>3. cndAt' \in [Client -> CndLabel] /\ byAll' \in [Client -> BOOLEAN]
                   BY <1>1, <3>1, <3>2 DEF Flags, CndLabel
             <3> QED
                 BY <1>1, <1>18, <3>1, <3>3 DEF SetOne, Flags, mutex
       <2> QED
           BY <2>1, <2>2
<1>19. CASE SetAll(t)
       <2>1. cndAt' \in [Client -> CndLabel]
             BY <1>1, <1>19 DEF SetAll, Flags, CndLabel
       <2>2. byAll' \in [Client -> BOOLEAN] /\ late' \in BOOLEAN
             BY <1>1, <1>19 DEF SetAll, Flags
       <2> QED
           BY <1>1, <1>19, <2>1, <2>2 DEF SetAll, Flags, mutex
<1> QED
    BY <1>2, <1>3, <1>4, <1>5, <1>6, <1>7, <1>8, <1>9, <1>10, <1>11, <1>12, <1>13, <1>14,
       <1>15, <1>16, <1>18, <1>19 DEF CndStep

\* The mutex, through every step.
LEMMA MutexSteps ==
  ASSUME CndIInv, NEW t \in Client, CndStep(t)
  PROVE  MutexInv'
<1> USE MutexFacts
<1>1. CASE Lock(t)
      <2>1. cndAt[t] = "idle" /\ cndAt'[t] = "enter" /\ \A u \in Client : u # t => cndAt'[u] = cndAt[u]
            BY <1>1, Goes DEF Lock, CndIs
      <2> QED
          BY <1>1, <2>1, MutexKept DEF Lock, Inside, hist, promises
<1>2. CASE Wait(t)
      <2>1. cndAt[t] = "idle" /\ cndAt'[t] = "unlock" /\ \A u \in Client : u # t => cndAt'[u] = cndAt[u]
            BY <1>2, Goes DEF Wait, CndIs
      <2> QED
          BY <1>2, <2>1, MutexKept DEF Wait, Inside, hist, promises
<1>3. CASE Enter(t)
      <2>1. ~Inside(t)
            BY <1>3 DEF Enter, CndIs, Inside
      <2> QED
          BY <1>3, <2>1, TakeMutex DEF Enter, hist, promises
<1>4. CASE LockTimesOut(t)
      <2>1. cndAt[t] = "enter" /\ cndAt'[t] = "idle" /\ \A u \in Client : u # t => cndAt'[u] = cndAt[u]
            BY <1>4, Goes DEF LockTimesOut, CndIs
      <2> QED
          BY <1>4, <2>1, MutexKept DEF LockTimesOut, Inside, hist, promises
<1>5. CASE Mark(t)
      BY <1>5, GetMutex DEF Mark, CndIs, hist, promises
<1>6. CASE TryLock(t)
      <2>1. ~Inside(t)
            BY <1>6 DEF TryLock, CndIs, Inside
      <2> QED
          BY <1>6, <2>1, TakeMutex DEF TryLock, hist, promises
<1>7. CASE TryKept(t)
      BY <1>7, GetMutex DEF TryKept, CndIs, OwnAlready, hist, promises
<1>8. CASE WaitForEvents(t)
      <2>1. PICK to \in {"count", "blocked"} : CndGoto(t, to)
            BY <1>8 DEF WaitForEvents
      <2>2. cndAt[t] = "wait" /\ cndAt'[t] = to /\ \A u \in Client : u # t => cndAt'[u] = cndAt[u]
            BY <1>8, <2>1, Goes DEF WaitForEvents, CndIs
      <2> QED
          BY <1>8, <2>2, MutexKept DEF WaitForEvents, Inside
<1>9. CASE WaitTimesOut(t)
      <2>1. cndAt[t] = "blocked" /\ cndAt'[t] = "relock" /\ \A u \in Client : u # t => cndAt'[u] = cndAt[u]
            BY <1>9, Goes DEF WaitTimesOut, CndIs
      <2> QED
          BY <1>9, <2>1, MutexKept DEF WaitTimesOut, Inside
<1>10. CASE CountOut(t)
       <2>1. PICK to \in {"reset", "relock"} : CndGoto(t, to)
             BY <1>10 DEF CountOut
       <2>2. cndAt[t] = "count" /\ cndAt'[t] = to /\ \A u \in Client : u # t => cndAt'[u] = cndAt[u]
             BY <1>10, <2>1, Goes DEF CountOut, CndIs
       <2> QED
           BY <1>10, <2>2, MutexKept DEF CountOut, Inside, hist, promises
<1>11. CASE Reset(t)
       <2>1. cndAt[t] = "reset" /\ cndAt'[t] = "relock" /\ \A u \in Client : u # t => cndAt'[u] = cndAt[u]
             BY <1>11, Goes DEF Reset, CndIs
       <2> QED
           BY <1>11, <2>1, MutexKept DEF Reset, Inside, hist, promises
<1>12. CASE Signal(t) \/ Broadcast(t)
       <2>1. /\ cndAt[t] = "idle" /\ cndAt'[t] \in {"idle", "setOne", "setAll"}
             /\ \A u \in Client : u # t => cndAt'[u] = cndAt[u]
             BY <1>12, Goes DEF Signal, Broadcast, CndIs
       <2> QED
           BY <1>12, <2>1, MutexKept DEF Signal, Broadcast, Inside
<1>14. CASE SetOne(t)
       <2>1. CASE Blocked = {}
             <3>1. CndGoto(t, "idle") /\ cndAt[t] = "setOne"
                   BY <1>14, <2>1 DEF SetOne, CndIs
             <3>2. cndAt'[t] = "idle" /\ \A u \in Client : u # t => cndAt'[u] = cndAt[u]
                   BY <3>1, Goes
             <3> QED
                 BY <1>14, <3>1, <3>2, MutexKept DEF SetOne, Inside
       <2>2. CASE Blocked # {}
             <3>1. PICK b \in Blocked : cndAt' = [cndAt EXCEPT ![t] = "idle", ![b] = "count"]
                   BY <1>14, <2>2 DEF SetOne
             <3>2. b \in Client /\ cndAt[b] = "blocked" /\ cndAt[t] = "setOne"
                   BY <1>14 DEF SetOne, Blocked, CndIs
             <3>3. \A u \in Client : cndAt'[u] = cndAt[u] \/ ({cndAt[u], cndAt'[u]}
                                       \subseteq {"setOne", "blocked", "idle", "count"})
                   BY <3>1, <3>2 DEF CndTypeOK
             <3> QED
                 BY <1>14, <3>3, MutexKept DEF SetOne, Inside
       <2> QED
           BY <2>1, <2>2
<1>15. CASE SetAll(t)
       <2>1. \A u \in Client : cndAt'[u] = cndAt[u] \/ ({cndAt[u], cndAt'[u]}
                                 \subseteq {"setAll", "blocked", "idle", "count"})
             BY <1>15 DEF SetAll, Blocked, CndIs
       <2> QED
           BY <1>15, <2>1, MutexKept DEF SetAll, Inside
<1> QED
    BY <1>1, <1>2, <1>3, <1>4, <1>5, <1>6, <1>7, <1>8, <1>9, <1>10, <1>11, <1>12,
       <1>14, <1>15, UndoMutex, UnlockMutex, LeaveMutex DEF CndStep

\* The condition variable, through every step.
LEMMA WaitSteps ==
  ASSUME CndIInv, NEW t \in Client, CndStep(t)
  PROVE  WaitInv'
<1>1. CASE Lock(t)
      BY <1>1, WaitKept DEF Lock, CndIs, hist, promises
<1>2. CASE Enter(t)
      BY <1>2, WaitKept DEF Enter, CndIs, hist, promises
<1>3. CASE LockTimesOut(t)
      BY <1>3, WaitKept DEF LockTimesOut, CndIs, hist, promises
<1>4. CASE Mark(t)
      BY <1>4, WaitKept DEF Mark, CndIs, hist, promises
<1>5. CASE TryLock(t)
      BY <1>5, WaitKept DEF TryLock, CndIs, hist, promises
<1>6. CASE TryUndone(t)
      BY <1>6, WaitKept DEF TryUndone, CndIs
<1>7. CASE TryKept(t)
      BY <1>7, WaitKept DEF TryKept, CndIs, hist, promises
<1>8. CASE Unlock(t)
      BY <1>8, WaitKept DEF Unlock, CndIs, hist, promises
<1>9. CASE Leave(t)
      BY <1>9, WaitKept DEF Leave, CndIs, hist, promises
<1> QED
    BY <1>1, <1>2, <1>3, <1>4, <1>5, <1>6, <1>7, <1>8, <1>9, WaitCounts, WaitTakes, WaitBlocks,
       TimeoutLeaves, CountOutLeaves, ResetResets, CallPromises, SetOneSets, SetOneWakes,
       SetAllSets DEF CndStep

\* The counters stay within what the threads and the bounds allow.
LEMMA Bounded ==
  ASSUME MutexInv, WaitInv, Flags
  PROVE  CndIInv
<1>1. waiters <= Cardinality(Client) + MaxExpired /\ waiters \in Nat
      <2>1. waiters = Cardinality(InWait) + expired /\ expired <= MaxExpired /\ expired \in Nat
            BY TinyCndConstants DEF WaitInv, WaitType, WaitExact, WaitersCounted
      <2>2. /\ Cardinality(InWait) <= Cardinality(Client)
            /\ Cardinality(InWait) \in Nat /\ Cardinality(Client) \in Nat
            BY Sets, Counted
      <2> QED
          BY <2>1, <2>2, TinyCndConstants
<1>3. Cardinality(Client) \in Nat /\ MaxExpired \in Nat
      BY Counted, TinyCndConstants
<1> QED
    BY <1>1, <1>3
       DEF CndIInv, CndTypeOK, MutexInv, MutexType, WaitInv, WaitType, Flags

\* At first nobody has the mutex and nobody waits.
LEMMA CndInitInv ==
  ASSUME CndInit
  PROVE  CndIInv
<1> USE DEF CndInit, MtxInit, CondInit
<1>1. MutexInv
      BY TinyCndConstants
         DEF MutexInv, MutexType, MutexExact, LockExact, FlagExact, Inside, CndIs
<1>2. InWait = {} /\ Cardinality({}) = 0
      BY FS_EmptySet DEF InWait
<1>3. WaitType
      BY Counted, TinyCndConstants DEF WaitType
<1>4. WaitInv
      BY <1>2, <1>3
         DEF WaitInv, WaitExact, WaitersCounted, EventsUnblock, SignalKept, BroadcastKept
<1>5. Flags
      BY DEF Flags, CndLabel
<1> QED
    BY <1>1, <1>4, <1>5, Bounded

\* The same after a step.
LEMMA BoundedNext == (MutexInv /\ WaitInv /\ Flags => CndIInv)'
<1>1. MutexInv /\ WaitInv /\ Flags => CndIInv
      BY Bounded
<1> QED
    BY <1>1, PTL

\* Every step keeps the invariant.
LEMMA CndStepInv ==
  ASSUME CndIInv, [CndNext]_cndVars
  PROVE  CndIInv'
<1>1. CASE CndNext
      <2>1. PICK t \in Client : CndStep(t)
            BY <1>1 DEF CndNext
      <2> QED
          BY <2>1, MutexSteps, WaitSteps, FlagsKept, BoundedNext
<1>2. CASE UNCHANGED cndVars
      <2> USE <1>2 DEF cndVars, mutex, cond, hist, promises
      <2>1. MutexInv'
            BY MutexFacts, MutexKept DEF Inside
      <2>2. WaitInv'
            <3>1. WaitInv
                  BY WaitFacts
            <3>2. InWait' = InWait /\ Sleepers' = Sleepers /\ Blocked' = Blocked
                  BY DEF InWait, Sleepers, Blocked, CndIs
            <3> QED
                BY <3>1, <3>2 DEF WaitInv, WaitType, WaitExact, WaitersCounted, EventsUnblock,
                                  SignalKept, BroadcastKept
      <2>3. Flags'
            BY DEF CndIInv, CndTypeOK, Flags
      <2> QED
          BY <2>1, <2>2, <2>3, BoundedNext
<1> QED
    BY <1>1, <1>2

\* CndIInv is inductive: it holds at first and every step of every call keeps it.
THEOREM CndInvariant == CndSpec => []CndIInv
<1>1. CndInit => CndIInv
      BY CndInitInv
<1>2. CndIInv /\ [CndNext]_cndVars => CndIInv'
      BY CndStepInv
<1> QED
    BY <1>1, <1>2, PTL DEF CndSpec

-----------------------------------------------------------------------------
(* What holds of every mutex and condition variable.                       *)

\* The counters of the library and of the platform stay in their ranges: a
\* condition variable counts no more waiters than there are threads and timed
\* waits that ran out.
THEOREM CndTypeCorrect == CndSpec => []CndTypeOK
<1>1. CndIInv => CndTypeOK
      BY DEF CndIInv
<1> QED
    BY <1>1, CndInvariant, PTL

\* The platform's lock belongs to the thread that has the mutex, as often as it
\* was told so, but for what mtx_trylock leaks of a timed mutex.
THEOREM LockExactHolds == CndSpec => []LockExact
<1>1. CndIInv => LockExact
      BY DEF CndIInv, MutexExact
<1> QED
    BY <1>1, CndInvariant, PTL

\* mAlreadyLocked says whether a thread has the mutex; past the platform's lock it
\* is set only for a thread that has it already.
THEOREM FlagExactHolds == CndSpec => []FlagExact
<1>1. CndIInv => FlagExact
      BY DEF CndIInv, MutexExact
<1> QED
    BY <1>1, CndInvariant, PTL

\* Until a timed wait runs out, mWaitersCount counts the threads in a wait.
THEOREM ExactUntilTimeoutHolds == CndSpec => []ExactUntilTimeout
<1>1. CndIInv => ExactUntilTimeout
      <2> SUFFICES ASSUME CndIInv, expired = 0 PROVE WaitersExact
          BY DEF ExactUntilTimeout
      <2> QED
          BY WaitFacts, Cards DEF WaitInv, WaitExact, WaitersCounted, WaitersExact
<1> QED
    BY <1>1, CndInvariant, PTL

\* A thread that a signal found blocked sleeps on only if event ONE was set again
\* while a signal was due, or went to a thread that came later.
THEOREM SignalLostOnlyByRaceHolds == CndSpec => []SignalLostOnlyByRace
<1>1. CndIInv => SignalLostOnlyByRace
      <2> SUFFICES ASSUME CndIInv, ~merged, ~stolen, NEW t \in Blocked PROVE due[t] = 0
          BY DEF SignalLostOnlyByRace, SignalUnblocksOne
      <2>1. t \in Client /\ ~eventOne
            BY WaitFacts, Sets DEF WaitInv, WaitExact, EventsUnblock
      <2> QED
          BY <2>1, WaitFacts DEF WaitInv, WaitType, WaitExact, SignalKept
<1> QED
    BY <1>1, CndInvariant, PTL

\* A thread that a broadcast found blocked sleeps on only if event ALL was set while
\* the last waiter of an earlier one was about to reset it.
THEOREM BroadcastLostOnlyByResetHolds == CndSpec => []BroadcastLostOnlyByReset
<1>1. CndIInv => BroadcastLostOnlyByReset
      BY WaitFacts
         DEF WaitInv, WaitExact, EventsUnblock, BroadcastKept, BroadcastLostOnlyByReset,
             BroadcastUnblocksAll
<1> QED
    BY <1>1, CndInvariant, PTL

\* The mutex implements the abstract one: every interleaving of the calls, waits
\* and timeouts among them, tells a thread that it has the mutex only while no
\* other has it.
THEOREM IsMutexHolds == CndSpec => IsMutex
<1>1. CndInit => Abstract!Init
      BY DEF CndInit, MtxInit, Abstract!Init
<1>2. CndIInv /\ [CndNext]_cndVars =>
        [\E t \in Client : Abstract!Take(t) \/ Abstract!Give(t)]_<<held, recursive>>
      <2> SUFFICES ASSUME CndIInv, CndNext
                   PROVE  \/ \E t \in Client : Abstract!Take(t) \/ Abstract!Give(t)
                          \/ UNCHANGED <<held, recursive>>
          BY DEF cndVars, mutex
      <2>1. PICK t \in Client : CndStep(t)
            BY DEF CndNext
      <2>2. CASE Mark(t)
            BY <2>2, GetMutex DEF Mark, CndIs, hist, promises, Abstract!Take
      <2>3. CASE TryKept(t)
            BY <2>3, GetMutex DEF TryKept, OwnAlready, CndIs, hist, promises, Abstract!Take
      <2>4. CASE Unlock(t)
            BY <2>4 DEF Unlock, Abstract!Give
      <2>5. CASE ~(Mark(t) \/ TryKept(t) \/ Unlock(t))
            <3>1. \/ Lock(t) \/ Wait(t) \/ Enter(t) \/ LockTimesOut(t) \/ TryLock(t)
                  \/ TryUndone(t) \/ Leave(t)
                  => UNCHANGED <<held, recursive>>
                  BY DEF Lock, Wait, Enter, LockTimesOut, TryLock, TryUndone, Leave, mutex
            <3>2. \/ WaitForEvents(t) \/ WaitTimesOut(t) \/ CountOut(t) \/ Reset(t)
                  \/ Signal(t) \/ Broadcast(t) \/ SetOne(t) \/ SetAll(t)
                  => UNCHANGED <<held, recursive>>
                  BY DEF WaitForEvents, WaitTimesOut, CountOut, Reset, Signal, Broadcast,
                         SetOne, SetAll, mutex
            <3> QED
                BY <2>1, <2>5, <3>1, <3>2 DEF CndStep
      <2> QED
          BY <2>2, <2>3, <2>4, <2>5
<1> QED
    BY <1>1, <1>2, CndInvariant, PTL DEF CndSpec, IsMutex, Abstract!Spec

==============================================================================
