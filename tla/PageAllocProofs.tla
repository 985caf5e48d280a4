--------------------------- MODULE PageAllocProofs ---------------------------
(***************************************************************************)
(* Proofs about PageAlloc for any number of cores, tasks and pages.  IInv  *)
(* is the conjunction of the invariants TLC checks: a page list stays      *)
(* exact only because no other list shares a page with it (OneHome), the   *)
(* chain given to kern_free only because the core's list is (CoreLists-    *)
(* Exact), and a page in hand is linked to the right task, below quota,    *)
(* only because no other call acts for that task (CallsExclusive).         *)
(* There is one lemma per action; the last part maps every step to a step  *)
(* of PageOwnership or to a stutter.                                       *)
(***************************************************************************)
EXTENDS PageListLemmas

\* The initial task of every core leaves every pointer in range.
LEMMA TypeInit == Init => TypeOK
<1> SUFFICES ASSUME Init PROVE TypeOK
    OBVIOUS
<1> USE DEF Init
<1>1. free \in Ptr /\ top \in 1 .. NumPages + 1
      BY ConstantsOK DEF Ptr
<1>2. /\ next \in [Desc -> Ptr]
      /\ prev \in [Desc -> Ptr]
      /\ coreFirst \in [Cpu -> Ptr]
      /\ coreLast \in [Cpu -> Ptr]
      /\ memFirst \in [Task -> Ptr]
      /\ hand \in [Cpu -> Ptr]
      BY DEF Ptr
<1>3. /\ state \in [Task -> {"unused", "creating", "live", "exiting"}]
      /\ \A t \in Task : state[t] \in {"live", "exiting"} => core[t] \in Cpu
      OBVIOUS
<1> QED
    BY <1>1, <1>2, <1>3 DEF TypeOK

\* No step of a call takes a pointer or a count out of range: a descriptor
\* that a call reads through is never NULL.
LEMMA TypeNext == TypeOK /\ [Next]_vars => TypeOK'
<1> SUFFICES ASSUME TypeOK, [Next]_vars PROVE TypeOK'
    OBVIOUS
<1> USE ConstantsOK DEF TypeOK, Ptr, Null, Desc
<1>1. ASSUME NEW t \in Task, AllocFromCore(t) PROVE TypeOK'
  <2> DEFINE c == core[t]
             d == coreFirst[c]
  <2> USE <1>1 DEF AllocFromCore, Calls
  <2>1. c \in Cpu /\ d \in Desc /\ Target(t) \in Task
        BY DEF Target
  <2>2. /\ coreFirst' \in [Cpu -> Ptr]
        /\ coreLast' \in [Cpu -> Ptr]
        /\ coreCount' \in [Cpu -> Nat]
        /\ cache' \in [Desc -> Cpu \cup {None}]
        BY <2>1 DEF Decrement
  <2>3. /\ pc' = [pc EXCEPT ![c] = "link"]
        /\ hand' = [hand EXCEPT ![c] = d]
        /\ who' = [who EXCEPT ![c] = Target(t)]
        BY DEF Goto
  <2>4. /\ pc' \in [Cpu -> {"idle", "link", "kern_free", "clear", "reap"}]
        /\ hand' \in [Cpu -> Ptr]
        /\ who' \in [Cpu -> Task \cup {None}]
        /\ \A b \in Cpu : pc'[b] = "link" => hand'[b] \in Desc /\ who'[b] \in Task
        BY <2>1, <2>3 DEF Ptr
  <2> QED
      BY <2>2, <2>4 DEF pool, mem, tasks
<1>2. ASSUME NEW t \in Task, AllocFromPool(t) PROVE TypeOK'
  <2> DEFINE c == core[t]
  <2> USE <1>2 DEF AllocFromPool, Calls
  <2>1. c \in Cpu /\ Target(t) \in Task
        BY DEF Target
  <2> DEFINE d == IF free # Null THEN free ELSE top
  <2>2. /\ d \in Desc
        /\ pc' = [pc EXCEPT ![c] = "link"]
        /\ hand' = [hand EXCEPT ![c] = d]
        /\ who' = [who EXCEPT ![c] = Target(t)]
        BY DEF Goto, PoolDry
  <2>3. free' \in Ptr /\ top' \in 1 .. NumPages + 1
        BY DEF PoolDry
  <2> QED
      BY <2>1, <2>2, <2>3 DEF mem, tasks, cores
<1>3. ASSUME NEW t \in Task, NEW d \in Desc, FreePage(t, d) PROVE TypeOK'
  <2> DEFINE c == core[t]
  <2> USE <1>3 DEF FreePage
  <2>1. c \in Cpu
        BY DEF Calls
  <2>2. next' \in [Desc -> Ptr] /\ prev' \in [Desc -> Ptr]
        BY <2>1 DEF ReleaseDesc, Store
  <2>3. /\ coreFirst' \in [Cpu -> Ptr]
        /\ coreLast' \in [Cpu -> Ptr]
        /\ coreCount' \in [Cpu -> Nat]
        /\ cache' \in [Desc -> Cpu \cup {None}]
        /\ owner' \in [Desc -> Task \cup {None}]
        BY <2>1 DEF ReleaseDesc
  <2>4. memFirst' \in [Task -> Ptr] /\ memCount' \in [Task -> Nat]
        BY DEF Decrement
  <2>5. /\ pc' \in [Cpu -> {"idle", "link", "kern_free", "clear", "reap"}]
        /\ hand' \in [Cpu -> Ptr]
        /\ who' \in [Cpu -> Task \cup {None}]
        /\ \A b \in Cpu : pc'[b] = "link" => hand'[b] \in Desc /\ who'[b] \in Task
        BY <2>1 DEF Goto
  <2> QED
      BY <2>2, <2>3, <2>4, <2>5 DEF pool, tasks
<1>4. ASSUME NEW t \in Task, FreePageWhileCreating(t) PROVE TypeOK'
      BY <1>4 DEF FreePageWhileCreating, pool, cores, mem, tasks, call
<1>5. ASSUME NEW t \in Task, Fork(t) PROVE TypeOK'
  <2>1. PICK nt \in Task :
          /\ state[nt] = "unused"
          /\ memFirst' = [memFirst EXCEPT ![nt] = Null]
          /\ memCount' = [memCount EXCEPT ![nt] = 0]
          /\ core' = [core EXCEPT ![nt] = None]
          /\ creating' = [creating EXCEPT ![nt] = None, ![t] = nt]
          /\ state' = [state EXCEPT ![nt] = "creating"]
        BY <1>5 DEF Fork
  <2>2. UNCHANGED <<pool, next, prev, owner, cores, call, fault, cache>>
        BY <1>5 DEF Fork
  <2> QED
      BY <2>1, <2>2 DEF pool, cores, call
<1>6. ASSUME NEW t \in Task, Start(t) PROVE TypeOK'
      BY <1>6 DEF Start, Calls, pool, cores, mem, call
<1>7. ASSUME NEW t \in Task, Cancel(t) PROVE TypeOK'
      BY <1>7 DEF Cancel, EnterFreeTask, Goto, Calls, pool, cores, mem
<1>8. ASSUME NEW t \in Task, Exit(t) PROVE TypeOK'
      BY <1>8 DEF Exit, EnterFreeTask, Goto, Calls, pool, cores, mem
<1>9. ASSUME NEW c \in Cpu, LinkPage(c) PROVE TypeOK'
  <2> USE <1>9 DEF LinkPage
  <2>1. hand[c] \in Desc /\ who[c] \in Task
        OBVIOUS
  <2>2. next' \in [Desc -> Ptr] /\ prev' \in [Desc -> Ptr]
        BY <2>1 DEF Store
  <2>3. /\ owner' \in [Desc -> Task \cup {None}]
        /\ memFirst' \in [Task -> Ptr]
        /\ memCount' \in [Task -> Nat]
        BY <2>1
  <2>4. /\ pc' \in [Cpu -> {"idle", "link", "kern_free", "clear", "reap"}]
        /\ hand' \in [Cpu -> Ptr]
        /\ who' \in [Cpu -> Task \cup {None}]
        /\ \A b \in Cpu : pc'[b] = "link" => hand'[b] \in Desc /\ who'[b] \in Task
        BY DEF Goto
  <2> QED
      BY <2>2, <2>3, <2>4 DEF pool, cores, tasks
<1>10. ASSUME NEW c \in Cpu, KernFree(c) PROVE TypeOK'
      BY <1>10 DEF KernFree, ChainToPool, cores, mem, tasks
<1>11. ASSUME NEW c \in Cpu, ClearCore(c) PROVE TypeOK'
      BY <1>11 DEF ClearCore, Return, pool, mem, tasks
<1>12. ASSUME NEW c \in Cpu, ReapPage(c) PROVE TypeOK'
      <2>1. PICK d \in Desc : d = hand[c]
            BY <1>12 DEF ReapPage, Ptr
      <2>2. next' \in [Desc -> Ptr] /\ prev' \in [Desc -> Ptr] /\ owner' \in [Desc -> Task \cup {None}]
            BY <1>12, <2>1 DEF ReapPage, ReleaseDesc
      <2>3. /\ coreFirst' \in [Cpu -> Ptr] /\ coreLast' \in [Cpu -> Ptr]
            /\ coreCount' \in [Cpu -> Nat]
            /\ cache' \in [Desc -> Cpu \cup {None}]
            BY <1>12, <2>1 DEF ReapPage, ReleaseDesc
      <2>4. /\ pc' \in [Cpu -> {"idle", "link", "kern_free", "clear", "reap"}]
            /\ hand' \in [Cpu -> Ptr]
            /\ who' \in [Cpu -> Task \cup {None}]
            /\ \A b \in Cpu : pc'[b] = "link" => hand'[b] \in Desc /\ who'[b] \in Task
            BY <1>12, <2>1 DEF ReapPage, Goto, Follow
      <2> QED
          BY <1>12, <2>2, <2>3, <2>4 DEF ReapPage, pool, mem, tasks
<1>13. ASSUME NEW c \in Cpu, ReapDone(c) PROVE TypeOK'
      BY <1>13 DEF ReapDone, Goto, pool, cores, mem
<1>14. CASE UNCHANGED vars
      BY <1>14 DEF vars, pool, cores, mem, tasks, call
<1> QED
    BY <1>1, <1>2, <1>3, <1>4, <1>5, <1>6, <1>7, <1>8, <1>9, <1>10, <1>11,
       <1>12, <1>13, <1>14 DEF Next, Syscall, CpuStep

\* For every number of cores, tasks and pages, every pointer the allocator
\* keeps is NULL or a descriptor of the pool, and every count is a number.
THEOREM TypeCorrect == Spec => []TypeOK
<1>1. Init => TypeOK
      BY TypeInit
<1>2. TypeOK /\ [Next]_vars => TypeOK'
      BY TypeNext
<1> QED
    BY <1>1, <1>2, PTL DEF Spec

-----------------------------------------------------------------------------
(* The inductive invariant.                                                *)
IInv ==
  /\ TypeOK
  /\ ListsMatchOwners
  /\ OneHome
  /\ CountsExact
  /\ CoreListsExact
  /\ CallsExclusive

-----------------------------------------------------------------------------
(* Frames: each part of the invariant has to be shown only for the tasks,  *)
(* cores and descriptors a step touches.                                   *)

\* The page lists stay exact when they do for the tasks in T and nothing of
\* the others changes.
LEMMA ListsStep ==
  ASSUME TypeOK, TypeOK', ListsMatchOwners, NEW T \in SUBSET Task,
         \A u \in Task \ T :
            OwnedBy(u)' = OwnedBy(u) /\ state'[u] = state[u] /\ memFirst'[u] = memFirst[u],
         \A u \in Task \ T : \A d \in OwnedBy(u) : next'[d] = next[d] /\ prev'[d] = prev[d],
         \A b \in Cpu : Reaping(b)' /\ who'[b] \notin T =>
            Reaping(b) /\ who'[b] = who[b] /\ hand'[b] = hand[b],
         \A u \in T : TaskListExact(u)',
         \A b \in Cpu : Reaping(b)' /\ who'[b] \in T => RestOfListExact(b)'
  PROVE  ListsMatchOwners'
<1>1. \A u \in Task : OwnedBy(u) \in SUBSET Desc
      BY DEF OwnedBy
<1>2. ASSUME NEW u \in Task \ T PROVE TaskListExact(u)'
      <2>1. TaskListExact(u)
            BY DEF ListsMatchOwners
      <2>2. ASSUME state[u] \in {"creating", "live"}
            PROVE  /\ IsList(next', OwnedBy(u), memFirst[u])
                   /\ BackLinks(next', prev', OwnedBy(u), memFirst[u])
            BY <2>1, <2>2, <1>1, ListFrame, BackFrame DEF TaskListExact
      <2> QED
          BY <2>1, <2>2 DEF TaskListExact
<1>3. ASSUME NEW b \in Cpu, Reaping(b)', who'[b] \notin T PROVE RestOfListExact(b)'
      <2>1. who[b] \in Task \ T
            BY <1>3 DEF Reaping, TypeOK
      <2>2. IsList(next, OwnedBy(who[b]), hand[b])
            BY <1>3 DEF ListsMatchOwners, RestOfListExact
      <2>3. IsList(next', OwnedBy(who[b]), hand[b])
            BY <2>1, <2>2, <1>1, ListFrame
      <2> QED
          BY <2>1, <2>3, <1>3 DEF RestOfListExact
<1> QED
    BY <1>2, <1>3 DEF ListsMatchOwners, RestOfListExact

\* Only the page list of task t changes.
LEMMA ListsStepOne ==
  ASSUME TypeOK, TypeOK', ListsMatchOwners, NEW t \in Task,
         \A u \in Task \ {t} :
            OwnedBy(u)' = OwnedBy(u) /\ state'[u] = state[u] /\ memFirst'[u] = memFirst[u],
         \A u \in Task \ {t} : \A d \in OwnedBy(u) : next'[d] = next[d] /\ prev'[d] = prev[d],
         \A b \in Cpu : Reaping(b)' /\ who'[b] # t =>
            Reaping(b) /\ who'[b] = who[b] /\ hand'[b] = hand[b],
         TaskListExact(t)',
         \A b \in Cpu : Reaping(b)' /\ who'[b] = t => RestOfListExact(b)'
  PROVE  ListsMatchOwners'
<1> DEFINE T == {t}
<1>1. T \in SUBSET Task /\ \A u \in T : TaskListExact(u)'
      OBVIOUS
<1>2. \A b \in Cpu : Reaping(b)' /\ who'[b] \in T => RestOfListExact(b)'
      OBVIOUS
<1>3. \A b \in Cpu : Reaping(b)' /\ who'[b] \notin T =>
         Reaping(b) /\ who'[b] = who[b] /\ hand'[b] = hand[b]
      OBVIOUS
<1> HIDE DEF T
<1> QED
    BY <1>1, <1>2, <1>3, ListsStep DEF T

\* No page list changes.
LEMMA ListsFrame ==
  ASSUME TypeOK, TypeOK', ListsMatchOwners,
         UNCHANGED <<owner, state, memFirst>>,
         \A d \in Desc : owner[d] # None => next'[d] = next[d] /\ prev'[d] = prev[d],
         \A b \in Cpu : Reaping(b)' =>
            Reaping(b) /\ who'[b] = who[b] /\ hand'[b] = hand[b]
  PROVE  ListsMatchOwners'
<1>1. \A u \in Task : OwnedBy(u)' = OwnedBy(u)
      BY DEF OwnedBy
<1>2. \A u \in Task : \A d \in OwnedBy(u) : next'[d] = next[d] /\ prev'[d] = prev[d]
      BY ConstantsOK DEF OwnedBy
<1> QED
    BY <1>1, <1>2, ListsStep, {} \in SUBSET Task

\* The same for the cores' free lists and the cores in C.
LEMMA CoresStep ==
  ASSUME CoreListsExact, NEW C \in SUBSET Cpu,
         \A b \in Cpu \ C :
            /\ Cached(b)' = Cached(b)
            /\ coreFirst'[b] = coreFirst[b]
            /\ coreLast'[b] = coreLast[b]
            /\ coreCount'[b] = coreCount[b]
            /\ pc'[b] = pc[b] \/ {pc[b], pc'[b]} \subseteq {"idle", "link", "reap"},
         \A b \in Cpu \ C : \A d \in Cached(b) : next'[d] = next[d],
         \A b \in C : CoreListExact(b)'
  PROVE  CoreListsExact'
<1>1. ASSUME NEW b \in Cpu \ C PROVE CoreListExact(b)'
      <2>1. CoreListExact(b)
            BY DEF CoreListsExact
      <2>2. Cached(b) \in SUBSET Desc
            BY DEF Cached
      <2>3. pc[b] # "clear" => IsList(next', Cached(b), coreFirst[b])
            BY <2>1, <2>2, ListFrame DEF CoreListExact
      <2> QED
          BY <2>1, <2>3 DEF CoreListExact
<1> QED
    BY <1>1 DEF CoreListsExact

\* Placed, read as what each place excludes.
LEMMA PlacedFacts ==
  ASSUME TypeOK, OneHome, NEW d \in Desc
  PROVE  /\ owner[d] # None => d < top /\ cache[d] = None /\ \A c \in Cpu : ~InHand(c, d)
         /\ cache[d] # None => d < top /\ owner[d] = None /\ \A c \in Cpu : ~InHand(c, d)
         /\ \A b \in Cpu : InHand(b, d) =>
              d < top /\ owner[d] = None /\ cache[d] = None /\ \A c \in Cpu : InHand(c, d) => b = c
<1>1. Placed(d)
      BY DEF OneHome
<1>2. d \in Int /\ top \in Int
      BY ConstantsOK DEF TypeOK, Desc
<1> QED
    BY <1>1, <1>2 DEF Placed

\* The same for the places a descriptor can be in.
LEMMA HomeStep ==
  ASSUME TypeOK, TypeOK', OneHome, NEW D \in SUBSET Desc, top' >= top,
         \A d \in Desc \ D :
            /\ owner'[d] = owner[d]
            /\ cache'[d] = cache[d]
            /\ \A b \in Cpu : InHand(b, d)' <=> InHand(b, d),
         \A d \in D : Placed(d)',
         IsList(next', Pooled', free')
  PROVE  OneHome'
<1>1. ASSUME NEW d \in Desc \ D PROVE Placed(d)'
      <2>1. Placed(d)
            BY DEF OneHome
      <2>2. d >= top' => d >= top
            BY ConstantsOK DEF TypeOK, Desc
      <2> QED
          BY <2>1, <2>2 DEF Placed
<1> QED
    BY <1>1 DEF OneHome

\* A step of core c that changes no task.
LEMMA CallsStep ==
  ASSUME TypeOK, CallsExclusive, NEW c \in Cpu, UNCHANGED tasks,
         \A b \in Cpu \ {c} :
            /\ pc'[b] = pc[b]
            /\ who'[b] = who[b]
            /\ pc[b] = "link" => memCount'[who[b]] < Quota,
         CallExclusive(c)',
         \A t \in Task : state[t] = "exiting" /\ core[t] = c => Reaping(c)' /\ who'[c] = t
  PROVE  CallsExclusive'
<1>1. UNCHANGED <<core, creating, state>>
      BY DEF tasks
<1>2. ASSUME NEW b \in Cpu \ {c} PROVE CallExclusive(b)'
      <2>1. CallExclusive(b)
            BY DEF CallsExclusive
      <2>2. Reaping(b)' <=> Reaping(b)
            BY DEF Reaping
      <2> QED
          BY <2>1, <2>2, <1>1 DEF CallExclusive, ActsFor
<1>3. ASSUME NEW t \in Task PROVE TaskExclusive(t)'
      <2>1. TaskExclusive(t)
            BY DEF CallsExclusive
      <2>2. state[t] = "exiting" => Reaping(core[t])' /\ who'[core[t]] = t
            <3> SUFFICES ASSUME state[t] = "exiting", core[t] # c
                         PROVE  Reaping(core[t])' /\ who'[core[t]] = t
                BY <1>1 DEF Reaping
            <3>1. core[t] \in Cpu \ {c}
                  BY DEF TypeOK
            <3>2. Reaping(core[t]) /\ who[core[t]] = t
                  BY <2>1 DEF TaskExclusive
            <3> QED
                BY <3>1, <3>2, <1>1 DEF Reaping
      <2> QED
          BY <2>1, <2>2, <1>1 DEF TaskExclusive
<1> QED
    BY <1>2, <1>3 DEF CallsExclusive

\* What a task that enters a system call finds.
LEMMA CallsFacts ==
  ASSUME TypeOK, CallsExclusive, NEW t \in Task, Calls(t)
  PROVE  /\ core[t] \in Cpu
         /\ pc[core[t]] = "idle"
         /\ who[core[t]] = None
         /\ state[t] = "live"
         /\ ~Reaping(core[t])
         /\ Target(t) \in Task
         /\ \A u \in Task : state[u] = "exiting" => core[u] # core[t]
<1>1. core[t] \in Cpu /\ pc[core[t]] = "idle" /\ state[t] = "live"
      BY DEF Calls, TypeOK
<1>2. who[core[t]] = None
      BY <1>1 DEF CallsExclusive, CallExclusive
<1>3. ~Reaping(core[t])
      BY <1>1 DEF Reaping
<1>4. Target(t) \in Task
      BY DEF Target, TypeOK
<1>5. \A u \in Task : state[u] = "exiting" => core[u] # core[t]
      BY <1>3 DEF CallsExclusive, TaskExclusive
<1> QED
    BY <1>1, <1>2, <1>3, <1>4, <1>5

-----------------------------------------------------------------------------
(* kern_alloc_page                                                         *)

\* Taking a page in hand, from either place.
LEMMA TakeInHand ==
  ASSUME IInv, TypeOK', NEW t \in Task, Calls(t), BelowQuota(Target(t)),
         NEW c \in Cpu, c = core[t],
         NEW d \in Desc, owner[d] = None,
         \A b \in Cpu : ~InHand(b, d),
         Goto(c, "link", d, Target(t)),
         UNCHANGED <<next, prev, owner, mem, tasks>>
  PROVE  /\ ListsMatchOwners'
         /\ CountsExact'
         /\ CallsExclusive'
         /\ \A b \in Cpu, e \in Desc : InHand(b, e)' <=> InHand(b, e) \/ (b = c /\ e = d)
<1>1. /\ pc[c] = "idle"
      /\ who[c] = None
      /\ state[t] = "live"
      /\ ~Reaping(c)
      /\ Target(t) \in Task
      /\ \A u \in Task : state[u] = "exiting" => core[u] # c
      BY CallsFacts DEF IInv
<1>2. /\ pc' = [pc EXCEPT ![c] = "link"]
      /\ hand' = [hand EXCEPT ![c] = d]
      /\ who' = [who EXCEPT ![c] = Target(t)]
      /\ UNCHANGED <<memFirst, memCount, core, creating, state>>
      BY DEF Goto, mem, tasks
<1>3. /\ pc'[c] = "link" /\ hand'[c] = d /\ who'[c] = Target(t)
      /\ \A b \in Cpu \ {c} : pc'[b] = pc[b] /\ hand'[b] = hand[b] /\ who'[b] = who[b]
      BY <1>1, <1>2 DEF IInv, TypeOK
<1>4. ~Reaping(c)' /\ \A b \in Cpu \ {c} : Reaping(b)' <=> Reaping(b)
      BY <1>3 DEF Reaping
<1>5. \A u \in Task : OwnedBy(u)' = OwnedBy(u)
      BY DEF OwnedBy
<1>6. ListsMatchOwners'
      BY <1>2, <1>3, <1>4, ListsFrame DEF IInv
<1>7. CountsExact'
      BY <1>2, <1>5 DEF IInv, CountsExact
<1>8. ActsFor(c, who[c])' /\ memCount'[who'[c]] < Quota
      BY <1>1, <1>2, <1>3 DEF ActsFor, Target, BelowQuota
<1>9. CallExclusive(c)'
      BY <1>3, <1>4, <1>8 DEF CallExclusive
<1>10. CallsExclusive'
       <2>1. \A b \in Cpu \ {c} : pc[b] = "link" => memCount'[who[b]] < Quota
             BY <1>2 DEF IInv, CallsExclusive, CallExclusive
       <2> QED
           BY <2>1, <1>1, <1>3, <1>9, CallsStep DEF IInv
<1>11. \A b \in Cpu, e \in Desc : InHand(b, e)' <=> InHand(b, e) \/ (b = c /\ e = d)
       BY <1>1, <1>3 DEF InHand
<1> QED
    BY <1>6, <1>7, <1>10, <1>11

\* kern_alloc_page takes the head of its core's list.
LEMMA AllocFromCoreInv ==
  ASSUME IInv, TypeOK', NEW t \in Task, AllocFromCore(t)
  PROVE  IInv'
<1>1. PICK c \in Cpu : c = core[t] /\ pc[c] = "idle"
      BY CallsFacts DEF IInv, AllocFromCore
<1>d. PICK d \in Desc : d = coreFirst[c]
      BY <1>1 DEF IInv, AllocFromCore, TypeOK, Ptr
<1>2. /\ coreFirst' = [coreFirst EXCEPT ![c] = next[d]]
      /\ coreLast' = IF next[d] = Null THEN [coreLast EXCEPT ![c] = Null] ELSE coreLast
      /\ coreCount' = [coreCount EXCEPT ![c] = Decrement(coreCount[c])]
      /\ cache' = [cache EXCEPT ![d] = None]
      /\ pc' = [pc EXCEPT ![c] = "link"]
      /\ UNCHANGED <<free, top, next, prev, owner>>
      BY <1>1, <1>d DEF AllocFromCore, Goto, pool
<1>3. /\ d # Null
      /\ IsList(next, Cached(c), d)
      /\ coreCount[c] = Cardinality(Cached(c))
      /\ coreLast[c] \in Cached(c) /\ next[coreLast[c]] = Null
      /\ coreCount[c] <= CoreMax
      BY <1>1, <1>d DEF IInv, AllocFromCore, CoreListsExact, CoreListExact
<1>4. d \in Cached(c)
      BY <1>3, ListHead DEF Cached
<1>5. /\ owner[d] = None
      /\ d < top
      /\ \A b \in Cpu : ~InHand(b, d)
      BY <1>1, <1>4, PlacedFacts, ConstantsOK DEF IInv, Cached
<1>6. /\ ListsMatchOwners'
      /\ CountsExact'
      /\ CallsExclusive'
      /\ \A b \in Cpu, e \in Desc : InHand(b, e)' <=> InHand(b, e) \/ (b = c /\ e = d)
      <2>1. /\ Calls(t)
            /\ BelowQuota(Target(t))
            /\ Goto(c, "link", d, Target(t))
            /\ UNCHANGED <<next, prev, owner, mem, tasks>>
            BY <1>1, <1>d DEF AllocFromCore
      <2> QED
          BY <2>1, <1>1, <1>5, TakeInHand
<1>7. cache'[d] = None /\ \A e \in Desc \ {d} : cache'[e] = cache[e]
      BY <1>2, <1>4 DEF IInv, TypeOK
<1>8. Cached(c)' = Cached(c) \ {d} /\ \A b \in Cpu \ {c} : Cached(b)' = Cached(b)
      BY <1>1, <1>4, <1>7, ConstantsOK DEF Cached
<1>9. OneHome'
      <2>1. Pooled' = Pooled
            BY <1>2, <1>4, <1>6, <1>7, ConstantsOK DEF Pooled, Cached
      <2>2. Placed(d)'
            <3>1. ~(d >= top') /\ owner'[d] = None /\ cache'[d] = None
                  BY <1>2, <1>5, <1>7 DEF IInv, TypeOK, Desc
            <3>2. \A b \in Cpu : InHand(b, d)' <=> b = c
                  BY <1>5, <1>6
            <3> QED
                BY <3>1, <3>2 DEF Placed
      <2>3. IsList(next', Pooled', free')
            BY <2>1, <1>2 DEF IInv, OneHome
      <2>4. top' >= top
            BY <1>2 DEF IInv, TypeOK
      <2>5. \A e \in Desc \ {d} : \A b \in Cpu : InHand(b, e)' <=> InHand(b, e)
            BY <1>6
      <2> QED
          BY <2>2, <2>3, <2>4, <2>5, <1>2, <1>7, HomeStep, {d} \in SUBSET Desc DEF IInv
<1>10. CoreListExact(c)'
       <2>1. /\ coreFirst'[c] = next[d]
             /\ coreLast'[c] = IF next[d] = Null THEN Null ELSE coreLast[c]
             /\ coreCount'[c] = Decrement(coreCount[c])
             /\ pc'[c] = "link"
             BY <1>1, <1>2 DEF IInv, TypeOK
       <2>2. IsList(next, Cached(c) \ {d}, next[d])
             BY <1>3, ListPop DEF Cached
       <2>3. /\ Cardinality(Cached(c)) \in Nat \ {0}
             /\ Cardinality(Cached(c) \ {d}) = Cardinality(Cached(c)) - 1
             BY <1>4, DescFinite, DescRemove DEF Cached
       <2>4. coreCount'[c] = Cardinality(Cached(c) \ {d}) /\ coreCount'[c] <= CoreMax
             BY <2>1, <2>3, <1>3, ConstantsOK DEF Decrement
       <2>5. next[d] # Null => coreLast[c] # d /\ coreLast[c] # Null
             BY <1>3, <1>4 DEF Cached, Desc, Null
       <2> QED
           BY <2>1, <2>2, <2>4, <2>5, <1>2, <1>3, <1>8 DEF CoreListExact
<1>11. CoreListsExact'
       <2>1. \A b \in Cpu \ {c} : /\ coreFirst'[b] = coreFirst[b]
                                  /\ coreLast'[b] = coreLast[b]
                                  /\ coreCount'[b] = coreCount[b]
                                  /\ pc'[b] = pc[b]
                                  /\ Cached(b)' = Cached(b)
             BY <1>2, <1>8 DEF IInv, TypeOK
       <2>2. \A b \in Cpu \ {c} : \A e \in Cached(b) : next'[e] = next[e]
             BY <1>2
       <2>3. \A b \in {c} : CoreListExact(b)'
             BY <1>10
       <2>4. CoreListsExact /\ {c} \in SUBSET Cpu
             BY DEF IInv
       <2> QED
           BY <2>1, <2>2, <2>3, <2>4, CoresStep
<1> QED
    BY <1>6, <1>9, <1>11 DEF IInv

\* kern_alloc_page takes a page of the pool, under the global lock.
LEMMA AllocFromPoolInv ==
  ASSUME IInv, TypeOK', NEW t \in Task, AllocFromPool(t)
  PROVE  IInv'
<1>1. PICK c \in Cpu : c = core[t] /\ pc[c] = "idle"
      BY CallsFacts DEF IInv, AllocFromPool
<1>d. PICK d \in Desc : d = IF free # Null THEN free ELSE top
      BY ConstantsOK DEF IInv, AllocFromPool, PoolDry, TypeOK, Ptr, Desc
<1>2. /\ Goto(c, "link", d, Target(t))
      /\ pc' = [pc EXCEPT ![c] = "link"]
      /\ free' = IF free # Null THEN next[free] ELSE free
      /\ top' = IF free # Null THEN top ELSE top + 1
      /\ UNCHANGED <<next, prev, owner, coreFirst, coreLast, coreCount, cache>>
      BY <1>1, <1>d DEF AllocFromPool, Goto, cores
<1>3. /\ free # Null => d \in Pooled
      /\ free = Null => d = top
      BY <1>d, ListHead DEF IInv, OneHome
<1>5. /\ owner[d] = None
      /\ cache[d] = None
      /\ \A b \in Cpu : ~InHand(b, d)
      <2>1. CASE free # Null
            BY <2>1, <1>3 DEF Pooled
      <2>2. CASE free = Null
            <3>1. ~(d < top)
                  BY <2>2, <1>3 DEF IInv, TypeOK
            <3> QED
                BY <3>1, PlacedFacts DEF IInv
      <2> QED
          BY <2>1, <2>2
<1>6. d < top' /\ top' >= top
      BY <1>2, <1>3, ConstantsOK DEF IInv, TypeOK, Pooled, Desc
<1>7. /\ ListsMatchOwners'
      /\ CountsExact'
      /\ CallsExclusive'
      /\ \A b \in Cpu, e \in Desc : InHand(b, e)' <=> InHand(b, e) \/ (b = c /\ e = d)
      <2>1. /\ Calls(t)
            /\ BelowQuota(Target(t))
            /\ UNCHANGED <<next, prev, owner, mem, tasks>>
            BY DEF AllocFromPool
      <2> QED
          BY <2>1, <1>1, <1>2, <1>5, TakeInHand
<1>8. Placed(d)'
      <2>1. ~(d >= top') /\ owner'[d] = None /\ cache'[d] = None
            BY <1>2, <1>5, <1>6 DEF IInv, TypeOK, Desc
      <2>2. \A b \in Cpu : InHand(b, d)' <=> b = c
            BY <1>5, <1>7
      <2> QED
          BY <2>1, <2>2 DEF Placed
<1>9. Pooled' = Pooled \ {d} /\ IsList(next', Pooled', free')
      <2>1. CASE free # Null
            <3>1. Pooled' = Pooled \ {d}
                  BY <2>1, <1>2, <1>5, <1>7 DEF Pooled
            <3> QED
                BY <2>1, <3>1, <1>d, <1>2, ListPop DEF IInv, OneHome, Pooled
      <2>2. CASE free = Null
            <3>1. \A e \in Desc : e < top' <=> e < top \/ e = d
                  BY <2>2, <1>2, <1>3, ConstantsOK DEF IInv, TypeOK, Desc
            <3>2. Pooled' = Pooled \ {d}
                  BY <3>1, <1>2, <1>5, <1>7 DEF Pooled
            <3>3. d \notin Pooled
                  BY <2>2, <1>3 DEF Pooled, IInv, TypeOK
            <3>4. Pooled' = Pooled
                  BY <3>2, <3>3
            <3>5. IsList(next, Pooled, free)
                  BY DEF IInv, OneHome
            <3> QED
                BY <2>2, <3>2, <3>4, <3>5, <1>2
      <2> QED
          BY <2>1, <2>2
<1>10. OneHome'
       <2>1. \A e \in Desc \ {d} : \A b \in Cpu : InHand(b, e)' <=> InHand(b, e)
             BY <1>7
       <2> QED
           BY <2>1, <1>2, <1>6, <1>8, <1>9, HomeStep, {d} \in SUBSET Desc DEF IInv
<1>11. CoreListsExact'
      <2>1. \A b \in Cpu : Cached(b)' = Cached(b)
            BY <1>2 DEF Cached
      <2>2. \A b \in Cpu : pc'[b] = pc[b] \/ {pc[b], pc'[b]} \subseteq {"idle", "link", "reap"}
            BY <1>1, <1>2 DEF IInv, TypeOK
      <2> QED
          BY <2>1, <2>2, <1>2, CoresStep, {} \in SUBSET Cpu DEF IInv
<1> QED
    BY <1>7, <1>10, <1>11 DEF IInv

\* The call that is about to link a page is the only one that acts for its task.
LEMMA LinkFacts ==
  ASSUME TypeOK, CallsExclusive, NEW c \in Cpu, pc[c] = "link"
  PROVE  /\ who[c] \in Task
         /\ state[who[c]] \in {"creating", "live"}
         /\ memCount[who[c]] < Quota
         /\ \A b \in Cpu \ {c} : pc[b] = "link" => who[b] # who[c]
         /\ \A b \in Cpu : Reaping(b) => who[b] # who[c]
         /\ \A u \in Task : state[u] = "exiting" => core[u] # c
<1>1. who[c] \in Task
      BY DEF TypeOK
<1>2. \A b \in Cpu : CallExclusive(b)
      BY DEF CallsExclusive
<1>3. \A u \in Task : TaskExclusive(u)
      BY DEF CallsExclusive
<1>4. ActsFor(c, who[c]) /\ memCount[who[c]] < Quota
      BY <1>2 DEF CallExclusive
<1>5. state[who[c]] \in {"creating", "live"}
      BY <1>1, <1>3, <1>4, ConstantsOK DEF ActsFor, TaskExclusive
<1>6. ASSUME NEW b \in Cpu \ {c}, pc[b] = "link", who[b] = who[c] PROVE FALSE
      <2>1. ActsFor(b, who[c])
            BY <1>2, <1>6 DEF CallExclusive
      <2>2. CASE state[who[c]] = "live"
            BY <2>1, <2>2, <1>1, <1>3, <1>4, ConstantsOK DEF ActsFor, TaskExclusive
      <2>3. CASE state[who[c]] = "creating"
            <3>1. PICK u \in Task : state[u] = "live" /\ core[u] = c /\ creating[u] = who[c]
                  BY <2>3, <1>4 DEF ActsFor
            <3>2. PICK v \in Task : state[v] = "live" /\ core[v] = b /\ creating[v] = who[c]
                  BY <2>1, <2>3 DEF ActsFor
            <3>3. u = v
                  BY <3>1, <3>2, <1>1, <1>3, ConstantsOK DEF TaskExclusive
            <3> QED
                BY <3>1, <3>2, <3>3
      <2> QED
          BY <2>2, <2>3, <1>5
<1>7. \A b \in Cpu : Reaping(b) => who[b] # who[c]
      BY <1>2, <1>5 DEF CallExclusive
<1>8. \A u \in Task : state[u] = "exiting" => core[u] # c
      BY <1>3 DEF TaskExclusive, Reaping
<1> QED
    BY <1>1, <1>4, <1>5, <1>6, <1>7, <1>8

\* kern_alloc_page links the page it holds.
LEMMA LinkPageInv ==
  ASSUME IInv, TypeOK', NEW c \in Cpu, LinkPage(c)
  PROVE  IInv'
<1>1. PICK d \in Desc, t \in Task : d = hand[c] /\ t = who[c] /\ pc[c] = "link"
      BY DEF IInv, TypeOK, LinkPage
<1>2. /\ next' = [next EXCEPT ![d] = memFirst[t]]
      /\ prev' = Store([prev EXCEPT ![d] = Null], memFirst[t], d)
      /\ owner' = [owner EXCEPT ![d] = t]
      /\ memFirst' = [memFirst EXCEPT ![t] = d]
      /\ memCount' = [memCount EXCEPT ![t] = memCount[t] + 1]
      /\ pc' = [pc EXCEPT ![c] = "idle"]
      /\ hand' = [hand EXCEPT ![c] = Null]
      /\ who' = [who EXCEPT ![c] = None]
      /\ UNCHANGED <<free, top, coreFirst, coreLast, coreCount, core, creating, state, cache>>
      /\ UNCHANGED tasks
      BY <1>1 DEF LinkPage, Goto, pool, cores, tasks
<1>3. /\ state[t] \in {"creating", "live"}
      /\ memCount[t] < Quota
      /\ \A b \in Cpu \ {c} : pc[b] = "link" => who[b] # t
      /\ \A b \in Cpu : Reaping(b) => who[b] # t
      /\ \A u \in Task : state[u] = "exiting" => core[u] # c
      BY <1>1, LinkFacts DEF IInv
<1>4. d < top /\ owner[d] = None /\ cache[d] = None /\ \A b \in Cpu : InHand(b, d) <=> b = c
      BY <1>1, PlacedFacts DEF IInv, InHand
<1>5. /\ pc'[c] = "idle" /\ hand'[c] = Null /\ who'[c] = None
      /\ \A b \in Cpu \ {c} : pc'[b] = pc[b] /\ hand'[b] = hand[b] /\ who'[b] = who[b]
      BY <1>2 DEF IInv, TypeOK
<1>6. /\ next'[d] = memFirst[t] /\ owner'[d] = t
      /\ \A e \in Desc \ {d} : next'[e] = next[e] /\ owner'[e] = owner[e]
      BY <1>2 DEF IInv, TypeOK
<1>7. OwnedBy(t)' = OwnedBy(t) \cup {d} /\ \A u \in Task \ {t} : OwnedBy(u)' = OwnedBy(u)
      BY <1>4, <1>6, ConstantsOK DEF OwnedBy
<1>8. d \notin OwnedBy(t) /\ OwnedBy(t) \in SUBSET Desc
      BY <1>4, ConstantsOK DEF OwnedBy
<1>9. /\ IsList(next, OwnedBy(t), memFirst[t])
      /\ BackLinks(next, prev, OwnedBy(t), memFirst[t])
      BY <1>3 DEF IInv, ListsMatchOwners, TaskListExact
<1>10. /\ prev'[d] = Null
       /\ \A e \in Desc \ {d} : prev'[e] = IF e = memFirst[t] THEN d ELSE prev[e]
       BY <1>2, <1>8, <1>9, ListHead DEF Store, IInv, TypeOK, Desc, Null
<1>11. ListsMatchOwners'
       <2>1. IsList(next', OwnedBy(t) \cup {d}, d)
             BY <1>6, <1>8, <1>9, ListPush
       <2>2. BackLinks(next', prev', OwnedBy(t) \cup {d}, d)
             BY <1>6, <1>8, <1>9, <1>10, BackPush
       <2>3. memFirst'[t] = d /\ \A u \in Task \ {t} : memFirst'[u] = memFirst[u]
             BY <1>2 DEF IInv, TypeOK
       <2>4. TaskListExact(t)'
             BY <2>1, <2>2, <2>3, <1>2, <1>3, <1>7 DEF TaskListExact
       <2>5. ASSUME NEW u \in Task \ {t}, NEW e \in OwnedBy(u)
             PROVE  next'[e] = next[e] /\ prev'[e] = prev[e]
             <3>1. e # d /\ e \notin OwnedBy(t) /\ e \in Desc
                   BY <1>4, ConstantsOK DEF OwnedBy
             <3>2. e # memFirst[t]
                   BY <3>1, <1>9, ListHead DEF Desc, Null
             <3> QED
                 BY <3>1, <3>2, <1>6, <1>10
       <2>6. \A b \in Cpu : Reaping(b)' => Reaping(b) /\ who'[b] = who[b] /\ hand'[b] = hand[b]
             BY <1>5 DEF Reaping
       <2>7. \A b \in Cpu : Reaping(b)' => who'[b] # t
             BY <2>6, <1>3
       <2>8. UNCHANGED state
             BY <1>2
       <2> QED
           BY <2>3, <2>4, <2>5, <2>6, <2>7, <2>8, <1>7, ListsStepOne DEF IInv
<1>12. OneHome'
       <2>1. \A b \in Cpu, e \in Desc : InHand(b, e)' <=> InHand(b, e) /\ b # c
             BY <1>5 DEF InHand
       <2>2. \A e \in Desc \ {d} : \A b \in Cpu : InHand(b, e)' <=> InHand(b, e)
             BY <2>1, <1>1 DEF InHand
       <2>3. Placed(d)'
             <3>1. ~(d >= top') /\ cache'[d] = None
                   BY <1>2, <1>4 DEF IInv, TypeOK, Desc
             <3>2. \A b \in Cpu : ~InHand(b, d)'
                   BY <2>1, <1>4
             <3> QED
                 BY <3>1, <3>2 DEF Placed
       <2>4. d \notin Pooled /\ Pooled' = Pooled
             BY <2>2, <1>2, <1>4, <1>6, ConstantsOK DEF Pooled
       <2>5. IsList(next', Pooled', free')
             <3>1. \A e \in Pooled : next'[e] = next[e]
                   BY <2>4, <1>6 DEF Pooled
             <3>2. IsList(next, Pooled, free) /\ Pooled \in SUBSET Desc
                   BY DEF IInv, OneHome, Pooled
             <3> QED
                 BY <2>4, <3>1, <3>2, <1>2, ListFrame
       <2>6. top' >= top
             BY <1>2 DEF IInv, TypeOK
       <2> QED
           BY <2>2, <2>3, <2>5, <2>6, <1>2, <1>6, HomeStep, {d} \in SUBSET Desc DEF IInv
<1>13. CountsExact'
       <2>1. Cardinality(OwnedBy(t) \cup {d}) = Cardinality(OwnedBy(t)) + 1
             BY <1>8, DescAdd
       <2>2. memCount'[t] = memCount[t] + 1 /\ memCount[t] + 1 <= Quota
             BY <1>2, <1>3, ConstantsOK DEF IInv, TypeOK
       <2>3. \A u \in Task \ {t} : memCount'[u] = memCount[u]
             BY <1>2 DEF IInv, TypeOK
       <2> QED
           BY <2>1, <2>2, <2>3, <1>2, <1>3, <1>7 DEF IInv, CountsExact
<1>14. CoreListsExact'
       <2>1. \A b \in Cpu : Cached(b)' = Cached(b)
             BY <1>2 DEF Cached
       <2>2. \A b \in Cpu : \A e \in Cached(b) : next'[e] = next[e]
             BY <1>4, <1>6, ConstantsOK DEF Cached
       <2>3. \A b \in Cpu : pc'[b] = pc[b] \/ {pc[b], pc'[b]} \subseteq {"idle", "link", "reap"}
             BY <1>1, <1>5
       <2> QED
           BY <2>1, <2>2, <2>3, <1>2, CoresStep, {} \in SUBSET Cpu DEF IInv
<1>15. CallsExclusive'
       <2>1. CallExclusive(c)'
             BY <1>5 DEF CallExclusive, Reaping
       <2>2. ASSUME NEW b \in Cpu \ {c}, pc[b] = "link" PROVE memCount'[who[b]] < Quota
             <3>1. who[b] \in Task /\ memCount[who[b]] < Quota
                   BY <2>2, LinkFacts DEF IInv
             <3> QED
                 BY <2>2, <3>1, <1>2, <1>3 DEF IInv, TypeOK
       <2> QED
           BY <2>1, <2>2, <1>2, <1>3, <1>5, CallsStep DEF IInv
<1> QED
    BY <1>11, <1>12, <1>13, <1>14, <1>15 DEF IInv

-----------------------------------------------------------------------------
(* release_desc, called by kern_free_page and by free_task                 *)

\* release_desc moves a page from its owner to the front of the core's list,
\* whichever caller set the other links (prv and nxt) before.
LEMMA ReleaseDescInv ==
  ASSUME IInv, TypeOK', NEW c \in Cpu, NEW d \in Desc, owner[d] # None,
         NEW prv \in Links, NEW nxt \in Links,
         \A e \in Desc : owner[e] = None => nxt[e] = next[e],
         ReleaseDesc(c, d, prv, nxt), UNCHANGED pool,
         pc[c] \in {"idle", "reap"}, NEW l \in {"idle", "reap"},
         pc' = [pc EXCEPT ![c] = IF Overfull(c) THEN "kern_free" ELSE l],
         \A b \in Cpu \ {c} : hand'[b] = hand[b]
  PROVE  OneHome' /\ CoreListsExact'
<1>1. /\ owner' = [owner EXCEPT ![d] = None]
      /\ next' = [nxt EXCEPT ![d] = coreFirst[c]]
      /\ coreFirst' = [coreFirst EXCEPT ![c] = d]
      /\ coreLast' = IF coreFirst[c] = Null THEN [coreLast EXCEPT ![c] = d] ELSE coreLast
      /\ coreCount' = [coreCount EXCEPT ![c] = coreCount[c] + 1]
      /\ cache' = [cache EXCEPT ![d] = c]
      /\ UNCHANGED <<free, top>>
      BY DEF ReleaseDesc, pool
<1>2. d < top /\ cache[d] = None /\ \A b \in Cpu : ~InHand(b, d)
      BY PlacedFacts DEF IInv
<1>3. /\ owner'[d] = None /\ cache'[d] = c /\ next'[d] = coreFirst[c]
      /\ \A e \in Desc \ {d} : owner'[e] = owner[e] /\ cache'[e] = cache[e] /\ next'[e] = nxt[e]
      BY <1>1 DEF IInv, TypeOK, Links
<1>4. /\ pc'[c] = IF Overfull(c) THEN "kern_free" ELSE l
      /\ \A b \in Cpu \ {c} : pc'[b] = pc[b]
      BY DEF IInv, TypeOK
<1>5. \A b \in Cpu, e \in Desc : InHand(b, e)' <=> InHand(b, e)
      <2>1. \A e \in Desc : ~InHand(c, e) /\ ~InHand(c, e)'
            BY <1>4 DEF InHand
      <2>2. \A b \in Cpu \ {c}, e \in Desc : InHand(b, e)' <=> InHand(b, e)
            BY <1>4 DEF InHand
      <2> QED
          BY <2>1, <2>2
<1>6. OneHome'
      <2>1. d \notin Pooled /\ Pooled' = Pooled
            BY <1>1, <1>3, <1>5, ConstantsOK DEF Pooled
      <2>2. \A e \in Pooled : next'[e] = next[e]
            BY <2>1, <1>3 DEF Pooled
      <2>3. IsList(next, Pooled, free) /\ Pooled \in SUBSET Desc
            BY DEF IInv, OneHome, Pooled
      <2>4. IsList(next', Pooled', free')
            BY <2>1, <2>2, <2>3, <1>1, ListFrame
      <2>5. Placed(d)'
            <3>1. ~(d >= top') /\ owner'[d] = None
                  BY <1>1, <1>2, <1>3 DEF IInv, TypeOK, Desc
            <3>2. \A b \in Cpu : ~InHand(b, d)'
                  BY <1>2, <1>5
            <3> QED
                BY <3>1, <3>2 DEF Placed
      <2>6. top' >= top
            BY <1>1 DEF IInv, TypeOK
      <2> QED
          BY <2>4, <2>5, <2>6, <1>3, <1>5, HomeStep, {d} \in SUBSET Desc DEF IInv
<1>7. Cached(c)' = Cached(c) \cup {d} /\ \A b \in Cpu \ {c} : Cached(b)' = Cached(b)
      BY <1>2, <1>3, ConstantsOK DEF Cached
<1>8. d \notin Cached(c) /\ \A b \in Cpu : Cached(b) \in SUBSET Desc
      BY <1>2, ConstantsOK DEF Cached
<1>9. \A b \in Cpu : \A e \in Cached(b) : e # d /\ next'[e] = next[e]
      <2> SUFFICES ASSUME NEW b \in Cpu, NEW e \in Cached(b)
                   PROVE  e # d /\ next'[e] = next[e]
          OBVIOUS
      <2>1. e \in Desc /\ cache[e] = b /\ b # None
            BY ConstantsOK DEF Cached
      <2>2. owner[e] = None
            BY <2>1, PlacedFacts DEF IInv
      <2> QED
          BY <2>1, <2>2, <1>3
<1>10. /\ IsList(next, Cached(c), coreFirst[c])
       /\ coreCount[c] = Cardinality(Cached(c))
       /\ coreFirst[c] = Null <=> coreLast[c] = Null
       /\ coreLast[c] # Null => coreLast[c] \in Cached(c) /\ next[coreLast[c]] = Null
       /\ coreCount[c] <= CoreMax
       BY DEF IInv, CoreListsExact, CoreListExact
<1>11. /\ coreFirst'[c] = d
       /\ coreLast'[c] = IF coreFirst[c] = Null THEN d ELSE coreLast[c]
       /\ coreCount'[c] = coreCount[c] + 1
       /\ \A b \in Cpu \ {c} : /\ coreFirst'[b] = coreFirst[b]
                               /\ coreLast'[b] = coreLast[b]
                               /\ coreCount'[b] = coreCount[b]
       BY <1>1 DEF IInv, TypeOK
<1>12. CoreListExact(c)'
       <2>1. IsList(next', Cached(c) \cup {d}, d)
             BY <1>3, <1>8, <1>9, <1>10, ListPush
       <2>2. coreCount'[c] = Cardinality(Cached(c) \cup {d})
             BY <1>8, <1>10, <1>11, DescAdd
       <2>3. /\ coreLast'[c] \in Cached(c) \cup {d}
             /\ next'[coreLast'[c]] = Null
             /\ coreLast'[c] # Null
             BY <1>3, <1>9, <1>10, <1>11 DEF Desc, Null
       <2>4. d # Null
             BY DEF Desc, Null
       <2>5. coreCount'[c] <= IF pc'[c] = "kern_free" THEN CoreMax + 1 ELSE CoreMax
             BY <1>4, <1>10, <1>11, ConstantsOK DEF Overfull, IInv, TypeOK
       <2>6. pc'[c] # "clear"
             BY <1>4
       <2> QED
           BY <2>1, <2>2, <2>3, <2>4, <2>5, <2>6, <1>7, <1>11 DEF CoreListExact
<1>13. CoreListsExact'
       <2>1. \A b \in Cpu \ {c} :
                /\ Cached(b)' = Cached(b)
                /\ coreFirst'[b] = coreFirst[b]
                /\ coreLast'[b] = coreLast[b]
                /\ coreCount'[b] = coreCount[b]
                /\ pc'[b] = pc[b]
             BY <1>4, <1>7, <1>11
       <2>2. \A b \in Cpu \ {c} : \A e \in Cached(b) : next'[e] = next[e]
             BY <1>9
       <2>3. \A b \in {c} : CoreListExact(b)'
             BY <1>12
       <2>4. CoreListsExact /\ {c} \in SUBSET Cpu
             BY DEF IInv
       <2> QED
           BY <2>1, <2>2, <2>3, <2>4, CoresStep
<1> QED
    BY <1>6, <1>13

\* A guarded store through p changes the link of p and no other.
LEMMA StoreFacts ==
  ASSUME NEW f \in Links, NEW p \in Ptr, NEW v \in Ptr
  PROVE  /\ Store(f, p, v) \in Links
         /\ \A e \in Desc : Store(f, p, v)[e] = IF e = p THEN v ELSE f[e]
<1>1. \A e \in Desc : e # Null
      BY DEF Desc, Null
<1>2. CASE p = Null
      BY <1>1, <1>2 DEF Store
<1>3. CASE p # Null
      BY <1>3 DEF Store, Links
<1> QED
    BY <1>2, <1>3

\* kern_free_page takes the page out of the middle of its owner's list.
LEMMA FreePageInv ==
  ASSUME IInv, TypeOK', NEW t \in Task, NEW d \in Desc, FreePage(t, d)
  PROVE  IInv'
<1>1. PICK c \in Cpu : c = core[t]
      BY DEF IInv, TypeOK, FreePage, Calls
<1>2. /\ pc[c] = "idle"
      /\ who[c] = None
      /\ state[t] = "live"
      /\ ~Reaping(c)
      /\ \A u \in Task : state[u] = "exiting" => core[u] # c
      BY <1>1, CallsFacts DEF IInv, FreePage
<1> DEFINE nxt == Store(next, prev[d], next[d])
           prv == Store(prev, next[d], prev[d])
<1>3. /\ owner[d] = t
      /\ memFirst' = IF memFirst[t] = d THEN [memFirst EXCEPT ![t] = next[d]] ELSE memFirst
      /\ memCount' = [memCount EXCEPT ![t] = Decrement(memCount[t])]
      /\ ReleaseDesc(c, d, prv, nxt)
      /\ Goto(c, IF Overfull(c) THEN "kern_free" ELSE "idle", Null, None)
      /\ UNCHANGED <<pool, tasks, core, creating, state>>
      BY <1>1 DEF FreePage, tasks
<1>4. /\ next' = [nxt EXCEPT ![d] = coreFirst[c]]
      /\ prev' = [prv EXCEPT ![d] = Null]
      /\ owner' = [owner EXCEPT ![d] = None]
      BY <1>3 DEF ReleaseDesc
<1>5. /\ pc'[c] \in {"idle", "kern_free"} /\ who'[c] = None
      /\ \A b \in Cpu \ {c} : pc'[b] = pc[b] /\ hand'[b] = hand[b] /\ who'[b] = who[b]
      BY <1>3 DEF Goto, IInv, TypeOK
<1>6. /\ d \in OwnedBy(t)
      /\ OwnedBy(t) \in SUBSET Desc
      /\ IsList(next, OwnedBy(t), memFirst[t])
      /\ BackLinks(next, prev, OwnedBy(t), memFirst[t])
      /\ memCount[t] = Cardinality(OwnedBy(t))
      /\ memCount[t] <= Quota
      BY <1>2, <1>3 DEF OwnedBy, IInv, ListsMatchOwners, TaskListExact, CountsExact
<1>7. next[d] \in OwnedBy(t) \cup {Null} /\ prev[d] \in OwnedBy(t) \cup {Null}
      <2>1. next[d] \in OwnedBy(t) \cup {Null}
            BY <1>6, ListClosed
      <2>2. prev[d] \in OwnedBy(t) \cup {Null}
            BY <1>6 DEF BackLinks
      <2> QED
          BY <2>1, <2>2
<1>8. /\ nxt \in Links
      /\ prv \in Links
      /\ \A e \in Desc : nxt[e] = IF e = prev[d] THEN next[d] ELSE next[e]
      /\ \A e \in Desc : prv[e] = IF e = next[d] THEN prev[d] ELSE prev[e]
      <2>1. next \in Links /\ prev \in Links /\ next[d] \in Ptr /\ prev[d] \in Ptr
            BY DEF Links, IInv, TypeOK
      <2>2. PICK f \in Links, g \in Links, p \in Ptr, q \in Ptr :
              f = next /\ g = prev /\ p = prev[d] /\ q = next[d]
            BY <2>1
      <2>3. /\ Store(f, p, q) \in Links
            /\ \A e \in Desc : Store(f, p, q)[e] = IF e = p THEN q ELSE f[e]
            BY StoreFacts
      <2>4. /\ Store(g, q, p) \in Links
            /\ \A e \in Desc : Store(g, q, p)[e] = IF e = q THEN p ELSE g[e]
            BY StoreFacts
      <2>5. nxt = Store(f, p, q) /\ prv = Store(g, q, p)
            BY <2>2
      <2> HIDE DEF nxt, prv
      <2> QED
          BY <2>2, <2>3, <2>4, <2>5
<1> HIDE DEF nxt, prv
<1>9. /\ \A e \in Desc \ {d} : next'[e] = nxt[e]
      /\ \A e \in Desc \ {d} : prev'[e] = prv[e]
      /\ \A e \in Desc \ {d} : owner'[e] = owner[e]
      /\ owner'[d] = None
      BY <1>4, <1>8 DEF Links, IInv, TypeOK
<1>10. OwnedBy(t)' = OwnedBy(t) \ {d} /\ \A u \in Task \ {t} : OwnedBy(u)' = OwnedBy(u)
       BY <1>3, <1>9, ConstantsOK DEF OwnedBy
<1>11. /\ memFirst'[t] = IF memFirst[t] = d THEN next[d] ELSE memFirst[t]
       /\ \A u \in Task \ {t} : memFirst'[u] = memFirst[u]
       /\ memCount'[t] = Decrement(memCount[t])
       /\ \A u \in Task \ {t} : memCount'[u] = memCount[u]
       BY <1>3 DEF IInv, TypeOK
<1>12. ListsMatchOwners'
       <2>1. /\ IsList(next', OwnedBy(t) \ {d}, memFirst'[t])
             /\ BackLinks(next', prev', OwnedBy(t) \ {d}, memFirst'[t])
             <3>1. \A e \in OwnedBy(t) \ {d} : next'[e] = IF e = prev[d] THEN next[d] ELSE next[e]
                   BY <1>8, <1>9 DEF OwnedBy
             <3>2. \A e \in OwnedBy(t) \ {d} : prev'[e] = IF e = next[d] THEN prev[d] ELSE prev[e]
                   BY <1>8, <1>9 DEF OwnedBy
             <3>3. SkipsNext(next, next', prev, OwnedBy(t), d)
                   BY <3>1 DEF SkipsNext
             <3>4. SkipsPrev(next, prev, prev', OwnedBy(t), d)
                   BY <3>2 DEF SkipsPrev
             <3>5. memFirst'[t] = HeadWithout(next, memFirst[t], d)
                   BY <1>11 DEF HeadWithout
             <3> QED
                 BY <3>3, <3>4, <3>5, <1>6, ListRemove, BackRemove
       <2>2. TaskListExact(t)'
             BY <2>1, <1>2, <1>3, <1>10 DEF TaskListExact
       <2>3. ASSUME NEW u \in Task \ {t}, NEW e \in OwnedBy(u)
             PROVE  next'[e] = next[e] /\ prev'[e] = prev[e]
             <3>1. e \in Desc \ {d} /\ e \notin OwnedBy(t) /\ e # Null
                   BY <1>3 DEF OwnedBy, Desc, Null
             <3> QED
                 BY <3>1, <1>7, <1>8, <1>9
       <2>4. \A b \in Cpu : Reaping(b)' =>
                Reaping(b) /\ who'[b] = who[b] /\ hand'[b] = hand[b] /\ who'[b] # t
             <3>1. \A b \in Cpu : Reaping(b) => who[b] # t
                   BY <1>2 DEF IInv, CallsExclusive, CallExclusive
             <3> QED
                 BY <3>1, <1>5 DEF Reaping
       <2>5. UNCHANGED state
             BY <1>3
       <2> QED
           BY <2>2, <2>3, <2>4, <2>5, <1>10, <1>11, ListsStepOne DEF IInv
<1>13. OneHome' /\ CoreListsExact'
       <2>1. \A e \in Desc : owner[e] = None => nxt[e] = next[e]
             BY <1>7, <1>8, ConstantsOK DEF OwnedBy, Desc, Null
       <2>2. pc' = [pc EXCEPT ![c] = IF Overfull(c) THEN "kern_free" ELSE "idle"]
             BY <1>3 DEF Goto
       <2>3. UNCHANGED pool /\ owner[d] # None
             BY <1>3, ConstantsOK
       <2> QED
           BY <2>1, <2>2, <2>3, <1>2, <1>3, <1>5, <1>8, ReleaseDescInv
<1>14. CountsExact'
       <2>1. /\ Cardinality(OwnedBy(t)) \in Nat \ {0}
             /\ Cardinality(OwnedBy(t) \ {d}) = Cardinality(OwnedBy(t)) - 1
             BY <1>6, DescFinite, DescRemove
       <2>2. memCount'[t] = Cardinality(OwnedBy(t) \ {d}) /\ memCount'[t] <= Quota
             BY <2>1, <1>6, <1>11, ConstantsOK DEF Decrement
       <2> QED
           BY <2>2, <1>3, <1>10, <1>11 DEF IInv, CountsExact
<1>15. CallsExclusive'
       <2>1. CallExclusive(c)'
             BY <1>5 DEF CallExclusive, Reaping
       <2>2. ASSUME NEW b \in Cpu \ {c}, pc[b] = "link" PROVE memCount'[who[b]] < Quota
             <3>1. who[b] \in Task /\ memCount[who[b]] < Quota
                   BY <2>2, LinkFacts DEF IInv
             <3>2. memCount'[t] <= memCount[t]
                   BY <1>6, <1>11, DescFinite, DescRemove DEF Decrement, IInv, TypeOK
             <3> QED
                 BY <3>1, <3>2, <1>11, ConstantsOK DEF IInv, TypeOK
       <2>3. UNCHANGED tasks
             BY <1>3
       <2> QED
           BY <2>1, <2>2, <2>3, <1>2, <1>5, CallsStep DEF IInv
<1> QED
    BY <1>12, <1>13, <1>14, <1>15 DEF IInv

\* kern_free puts the core's whole list in front of the pool's.
LEMMA KernFreeInv ==
  ASSUME IInv, TypeOK', NEW c \in Cpu, KernFree(c)
  PROVE  IInv'
<1>1. /\ pc[c] = "kern_free"
      /\ next' = [next EXCEPT ![coreLast[c]] = free]
      /\ free' = coreFirst[c]
      /\ cache' = [d \in Desc |-> IF cache[d] = c THEN None ELSE cache[d]]
      /\ pc' = [pc EXCEPT ![c] = "clear"]
      /\ UNCHANGED <<top, prev, owner, coreFirst, coreLast, coreCount,
                     memFirst, memCount, hand, who, core, creating, state>>
      /\ UNCHANGED tasks
      BY DEF KernFree, ChainToPool, cores, mem, tasks
<1>2. /\ coreFirst[c] # Null
      /\ IsList(next, Cached(c), coreFirst[c])
      /\ coreLast[c] \in Cached(c)
      /\ next[coreLast[c]] = Null
      BY <1>1 DEF IInv, CoreListsExact, CoreListExact
<1>3. PICK l \in Desc : l = coreLast[c] /\ cache[l] = c
      BY <1>2 DEF Cached
<1>4. next'[l] = free /\ \A e \in Desc \ {l} : next'[e] = next[e]
      BY <1>1, <1>3 DEF IInv, TypeOK
<1>5. pc'[c] = "clear" /\ \A b \in Cpu \ {c} : pc'[b] = pc[b]
      BY <1>1 DEF IInv, TypeOK
<1>6. \A b \in Cpu : Reaping(b)' <=> Reaping(b)
      BY <1>1, <1>5 DEF Reaping
<1>7. \A b \in Cpu, e \in Desc : InHand(b, e)' <=> InHand(b, e)
      BY <1>1, <1>5 DEF InHand
<1>8. Cached(c)' = {} /\ \A b \in Cpu \ {c} : Cached(b)' = Cached(b)
      BY <1>1, ConstantsOK DEF Cached
<1>9. \A e \in Cached(c) : e < top /\ owner[e] = None /\ \A b \in Cpu : ~InHand(b, e)
      <2> SUFFICES ASSUME NEW e \in Cached(c)
                   PROVE  e < top /\ owner[e] = None /\ \A b \in Cpu : ~InHand(b, e)
          OBVIOUS
      <2>1. e \in Desc /\ cache[e] # None
            BY ConstantsOK DEF Cached
      <2> QED
          BY <2>1, PlacedFacts DEF IInv
<1>10. owner[l] = None
       BY <1>2, <1>3, <1>9
<1>11. ListsMatchOwners'
       <2>1. \A d \in Desc : owner[d] # None => next'[d] = next[d]
             BY <1>4, <1>10
       <2> QED
           BY <2>1, <1>1, <1>6, ListsFrame DEF IInv
<1>12. OneHome'
       <2>1. Cached(c) \cap Pooled = {}
             BY ConstantsOK DEF Cached, Pooled
       <2>2. Pooled' = Cached(c) \cup Pooled
             <3>1. ASSUME NEW e \in Desc
                   PROVE  e \in Pooled' <=> e \in Cached(c) \/ e \in Pooled
                   <4>1. cache'[e] = None <=> cache[e] = c \/ cache[e] = None
                         BY <1>1
                   <4>2. e \in Cached(c) <=> cache[e] = c
                         BY DEF Cached
                   <4> QED
                       BY <4>1, <4>2, <1>1, <1>7, <1>9 DEF Pooled
             <3> QED
                 BY <3>1 DEF Pooled, Cached
       <2>3. IsList(next, Pooled, free)
             BY DEF IInv, OneHome
       <2>4. Cached(c) \in SUBSET Desc /\ Pooled \in SUBSET Desc
             BY DEF Cached, Pooled
       <2>5. l \in Cached(c) /\ next[l] = Null
             BY <1>2, <1>3
       <2>6. \A e \in (Cached(c) \cup Pooled) \ {l} : next'[e] = next[e]
             BY <2>4, <1>4
       <2>7. IsList(next', Cached(c) \cup Pooled, coreFirst[c])
             BY <2>1, <2>3, <2>4, <2>5, <2>6, <1>2, <1>4, ListConcat
       <2>8. IsList(next', Pooled', free')
             BY <2>2, <2>7, <1>1
       <2>9. ASSUME NEW e \in Cached(c) PROVE Placed(e)'
             <3>1. e \in Desc /\ cache'[e] = None
                   BY <1>1 DEF Cached
             <3>2. ~(e >= top') /\ owner'[e] = None
                   BY <3>1, <1>1, <1>9 DEF IInv, TypeOK, Desc
             <3>3. \A b \in Cpu : ~InHand(b, e)'
                   BY <3>1, <1>7, <1>9
             <3> QED
                 BY <3>1, <3>2, <3>3 DEF Placed
       <2>10. \A e \in Desc \ Cached(c) : cache'[e] = cache[e]
              BY <1>1 DEF Cached
       <2>11. top' >= top
              BY <1>1 DEF IInv, TypeOK
       <2> QED
           BY <2>4, <2>8, <2>9, <2>10, <2>11, <1>1, <1>7, HomeStep DEF IInv
<1>13. CountsExact'
       BY <1>1 DEF IInv, CountsExact, OwnedBy
<1>14. CoreListsExact'
       <2>1. CoreListExact(c)'
             BY <1>5, <1>8 DEF CoreListExact
       <2>2. \A b \in Cpu \ {c} : \A e \in Cached(b) : next'[e] = next[e]
             BY <1>3, <1>4 DEF Cached
       <2> QED
           BY <2>1, <2>2, <1>1, <1>5, <1>8, CoresStep, {c} \in SUBSET Cpu DEF IInv
<1>15. CallsExclusive'
       <2>1. CallExclusive(c)
             BY DEF IInv, CallsExclusive
       <2>2. CallExclusive(c)'
             BY <2>1, <1>1, <1>5, <1>6 DEF CallExclusive
       <2>3. \A t \in Task : state[t] = "exiting" /\ core[t] = c => Reaping(c)' /\ who'[c] = t
             BY <1>1, <1>6 DEF IInv, CallsExclusive, TaskExclusive
       <2>4. \A b \in Cpu : pc[b] = "link" => memCount'[who[b]] < Quota
             BY <1>1 DEF IInv, CallsExclusive, CallExclusive
       <2> QED
           BY <2>2, <2>3, <2>4, <1>1, <1>5, CallsStep DEF IInv
<1> QED
    BY <1>11, <1>12, <1>13, <1>14, <1>15 DEF IInv

\* release_desc forgets the list it gave away.
LEMMA ClearCoreInv ==
  ASSUME IInv, TypeOK', NEW c \in Cpu, ClearCore(c)
  PROVE  IInv'
<1>1. /\ pc[c] = "clear"
      /\ coreFirst' = [coreFirst EXCEPT ![c] = Null]
      /\ coreLast' = [coreLast EXCEPT ![c] = Null]
      /\ coreCount' = [coreCount EXCEPT ![c] = 0]
      /\ pc' = [pc EXCEPT ![c] = Return(c)]
      /\ UNCHANGED <<free, top, next, prev, owner, memFirst, memCount, hand, who,
                     core, creating, state, cache>>
      /\ UNCHANGED tasks
      BY DEF ClearCore, pool, mem, tasks
<1>2. /\ pc'[c] = IF who[c] = None THEN "idle" ELSE "reap"
      /\ \A b \in Cpu \ {c} : pc'[b] = pc[b]
      BY <1>1 DEF Return, IInv, TypeOK
<1>3. \A b \in Cpu : Reaping(b)' <=> Reaping(b)
      BY <1>1, <1>2 DEF Reaping
<1>4. \A b \in Cpu, e \in Desc : InHand(b, e)' <=> InHand(b, e)
      BY <1>1, <1>2 DEF InHand
<1>5. \A b \in Cpu : Cached(b)' = Cached(b)
      BY <1>1 DEF Cached
<1>6. ListsMatchOwners'
      BY <1>1, <1>3, ListsFrame DEF IInv
<1>7. OneHome'
      <2>1. Pooled' = Pooled
            BY <1>1, <1>4 DEF Pooled
      <2>2. IsList(next', Pooled', free')
            BY <2>1, <1>1 DEF IInv, OneHome
      <2>3. top' >= top
            BY <1>1 DEF IInv, TypeOK
      <2> QED
          BY <2>2, <2>3, <1>1, <1>4, HomeStep, {} \in SUBSET Desc DEF IInv
<1>8. CountsExact'
      BY <1>1 DEF IInv, CountsExact, OwnedBy
<1>9. CoreListsExact'
      <2>1. Cached(c) = {}
            BY <1>1 DEF IInv, CoreListsExact, CoreListExact
      <2>2. coreFirst'[c] = Null /\ coreLast'[c] = Null /\ coreCount'[c] = 0
            BY <1>1 DEF IInv, TypeOK
      <2>3. IsList(next', {}, Null) /\ Cardinality({}) = 0
            BY ListEmpty, FS_EmptySet
      <2>4. CoreListExact(c)'
            BY <2>1, <2>2, <2>3, <1>2, <1>5, ConstantsOK DEF CoreListExact
      <2>5. \A b \in Cpu \ {c} : /\ coreFirst'[b] = coreFirst[b]
                                 /\ coreLast'[b] = coreLast[b]
                                 /\ coreCount'[b] = coreCount[b]
            BY <1>1 DEF IInv, TypeOK
      <2> QED
          BY <2>4, <2>5, <1>1, <1>2, <1>5, CoresStep, {c} \in SUBSET Cpu DEF IInv
<1>10. CallsExclusive'
       <2>1. CallExclusive(c)
             BY DEF IInv, CallsExclusive
       <2>2. CallExclusive(c)'
             BY <2>1, <1>1, <1>2, <1>3 DEF CallExclusive
       <2>3. \A t \in Task : state[t] = "exiting" /\ core[t] = c => Reaping(c)' /\ who'[c] = t
             BY <1>1, <1>3 DEF IInv, CallsExclusive, TaskExclusive
       <2>4. \A b \in Cpu : pc[b] = "link" => memCount'[who[b]] < Quota
             BY <1>1 DEF IInv, CallsExclusive, CallExclusive
       <2> QED
           BY <2>2, <2>3, <2>4, <1>1, <1>2, CallsStep DEF IInv
<1> QED
    BY <1>6, <1>7, <1>8, <1>9, <1>10 DEF IInv

-----------------------------------------------------------------------------
(* free_task                                                               *)

\* In its loop, core c holds the rest of the list of a task that is exiting.
LEMMA ReapFacts ==
  ASSUME TypeOK, ListsMatchOwners, CallsExclusive, NEW c \in Cpu, pc[c] = "reap"
  PROVE  /\ who[c] \in Task
         /\ Reaping(c)
         /\ state[who[c]] = "exiting"
         /\ core[who[c]] = c
         /\ IsList(next, OwnedBy(who[c]), hand[c])
         /\ \A b \in Cpu \ {c} : Reaping(b) => who[b] # who[c]
<1>1. \A b \in Cpu : CallExclusive(b)
      BY DEF CallsExclusive
<1>2. who[c] \in Task /\ Reaping(c)
      BY <1>1 DEF CallExclusive, TypeOK, Reaping
<1>3. state[who[c]] = "exiting" /\ core[who[c]] = c
      BY <1>1, <1>2 DEF CallExclusive
<1>4. \A b \in Cpu \ {c} : Reaping(b) => who[b] # who[c]
      BY <1>1, <1>3 DEF CallExclusive
<1>5. IsList(next, OwnedBy(who[c]), hand[c])
      BY <1>2 DEF ListsMatchOwners, RestOfListExact
<1> QED
    BY <1>2, <1>3, <1>4, <1>5

\* free_task releases the page it has come to.
LEMMA ReapPageInv ==
  ASSUME IInv, TypeOK', NEW c \in Cpu, ReapPage(c)
  PROVE  IInv'
<1>1. pc[c] = "reap" /\ hand[c] # Null
      BY DEF ReapPage
<1>2. PICK t \in Task : t = who[c]
      BY <1>1, ReapFacts DEF IInv
<1>3. /\ Reaping(c)
      /\ state[t] = "exiting"
      /\ core[t] = c
      /\ IsList(next, OwnedBy(t), hand[c])
      /\ \A b \in Cpu \ {c} : Reaping(b) => who[b] # t
      BY <1>1, <1>2, ReapFacts DEF IInv
<1>4. PICK d \in Desc : d = hand[c] /\ d \in OwnedBy(t) /\ owner[d] = t
      BY <1>1, <1>3, ListHead DEF OwnedBy
<1>5. /\ ReleaseDesc(c, d, prev, next)
      /\ Goto(c, IF Overfull(c) THEN "kern_free" ELSE "reap", next[d], t)
      /\ UNCHANGED <<pool, tasks, memFirst, memCount, core, creating, state>>
      BY <1>2, <1>4 DEF ReapPage, Follow, mem, tasks
<1>6. /\ next' = [next EXCEPT ![d] = coreFirst[c]]
      /\ prev' = [prev EXCEPT ![d] = Null]
      /\ owner' = [owner EXCEPT ![d] = None]
      BY <1>5 DEF ReleaseDesc
<1>7. /\ pc'[c] \in {"reap", "kern_free"} /\ who'[c] = t /\ hand'[c] = next[d]
      /\ \A b \in Cpu \ {c} : pc'[b] = pc[b] /\ hand'[b] = hand[b] /\ who'[b] = who[b]
      BY <1>5 DEF Goto, IInv, TypeOK
<1>8. /\ \A e \in Desc \ {d} : next'[e] = next[e] /\ prev'[e] = prev[e] /\ owner'[e] = owner[e]
      /\ owner'[d] = None
      BY <1>6 DEF IInv, TypeOK
<1>9. OwnedBy(t)' = OwnedBy(t) \ {d} /\ \A u \in Task \ {t} : OwnedBy(u)' = OwnedBy(u)
      BY <1>4, <1>8, ConstantsOK DEF OwnedBy
<1>10. Reaping(c)' /\ \A b \in Cpu : Reaping(b)' <=> Reaping(b)
       BY <1>3, <1>7, ConstantsOK DEF Reaping
<1>11. ListsMatchOwners'
       <2>1. OwnedBy(t) \in SUBSET Desc /\ d # Null
             BY DEF OwnedBy, Desc, Null
       <2>2. IsList(next, OwnedBy(t) \ {d}, next[d])
             BY <2>1, <1>3, <1>4, ListPop
       <2>3. \A e \in OwnedBy(t) \ {d} : next'[e] = next[e]
             BY <2>1, <1>8
       <2>4. IsList(next', OwnedBy(t) \ {d}, next[d])
             BY <2>1, <2>2, <2>3, ListFrame
       <2>5. RestOfListExact(c)'
             BY <2>4, <1>7, <1>9 DEF RestOfListExact
       <2>6. TaskListExact(t)'
             BY <1>3, <1>5 DEF TaskListExact
       <2>7. \A b \in Cpu : Reaping(b)' /\ who'[b] # t =>
                Reaping(b) /\ who'[b] = who[b] /\ hand'[b] = hand[b]
             BY <1>7, <1>10
       <2>8. \A b \in Cpu : Reaping(b)' /\ who'[b] = t => b = c
             BY <1>3, <1>7, <1>10
       <2>9. \A u \in Task \ {t} : \A e \in OwnedBy(u) : next'[e] = next[e] /\ prev'[e] = prev[e]
             BY <1>4, <1>8 DEF OwnedBy
       <2>10. \A b \in Cpu : Reaping(b)' /\ who'[b] = t => RestOfListExact(b)'
              BY <2>5, <2>8
       <2> QED
           BY <2>6, <2>7, <2>9, <2>10, <1>5, <1>9, ListsStepOne DEF IInv
<1>12. OneHome' /\ CoreListsExact'
       <2>1. next \in Links /\ prev \in Links
             BY DEF Links, IInv, TypeOK
       <2>2. pc' = [pc EXCEPT ![c] = IF Overfull(c) THEN "kern_free" ELSE "reap"]
             BY <1>5 DEF Goto
       <2>3. UNCHANGED pool /\ owner[d] # None
             BY <1>4, <1>5, ConstantsOK
       <2> QED
           BY <2>1, <2>2, <2>3, <1>1, <1>5, <1>7, ReleaseDescInv
<1>13. CountsExact'
       BY <1>3, <1>5, <1>9 DEF IInv, CountsExact
<1>14. CallsExclusive'
       <2>1. CallExclusive(c)'
             BY <1>3, <1>5, <1>7, ConstantsOK DEF CallExclusive
       <2>2. \A u \in Task : state[u] = "exiting" /\ core[u] = c => u = t
             BY <1>2, <1>3 DEF IInv, CallsExclusive, TaskExclusive
       <2>3. \A b \in Cpu : pc[b] = "link" => memCount'[who[b]] < Quota
             BY <1>5 DEF IInv, CallsExclusive, CallExclusive
       <2>4. UNCHANGED tasks
             BY <1>5
       <2> QED
           BY <2>1, <2>2, <2>3, <2>4, <1>7, <1>10, CallsStep DEF IInv
<1> QED
    BY <1>11, <1>12, <1>13, <1>14 DEF IInv

\* free_task gives back the task's own page, which no descriptor names.
LEMMA ReapDoneInv ==
  ASSUME IInv, TypeOK', NEW c \in Cpu, ReapDone(c)
  PROVE  IInv'
<1>1. pc[c] = "reap" /\ hand[c] = Null
      BY DEF ReapDone
<1>2. PICK t \in Task : t = who[c]
      BY <1>1, ReapFacts DEF IInv
<1>3. /\ Reaping(c)
      /\ state[t] = "exiting"
      /\ core[t] = c
      /\ OwnedBy(t) = {}
      /\ \A b \in Cpu \ {c} : Reaping(b) => who[b] # t
      BY <1>1, <1>2, ReapFacts, ListHead DEF IInv
<1>4. /\ state' = [state EXCEPT ![t] = "unused"]
      /\ Goto(c, "idle", Null, None)
      /\ UNCHANGED <<free, top, next, prev, owner, coreFirst, coreLast, coreCount,
                     memFirst, memCount, core, creating, cache>>
      BY <1>2 DEF ReapDone, pool, cores, mem
<1>5. /\ pc'[c] = "idle" /\ hand'[c] = Null /\ who'[c] = None
      /\ \A b \in Cpu \ {c} : pc'[b] = pc[b] /\ hand'[b] = hand[b] /\ who'[b] = who[b]
      BY <1>4 DEF Goto, IInv, TypeOK
<1>6. state'[t] = "unused" /\ \A u \in Task \ {t} : state'[u] = state[u]
      BY <1>4 DEF IInv, TypeOK
<1>7. /\ \A u \in Task : OwnedBy(u)' = OwnedBy(u)
      /\ \A b \in Cpu : Cached(b)' = Cached(b)
      BY <1>4 DEF OwnedBy, Cached
<1>8. ~Reaping(c)' /\ \A b \in Cpu \ {c} : Reaping(b)' <=> Reaping(b)
      BY <1>5 DEF Reaping
<1>9. \A b \in Cpu, e \in Desc : InHand(b, e)' <=> InHand(b, e)
      BY <1>1, <1>5 DEF InHand
<1>10. ListsMatchOwners'
       <2>1. TaskListExact(t)'
             BY <1>3, <1>6, <1>7 DEF TaskListExact
       <2>2. \A b \in Cpu : Reaping(b)' =>
                Reaping(b) /\ who'[b] = who[b] /\ hand'[b] = hand[b] /\ who'[b] # t
             BY <1>3, <1>5, <1>8
       <2>3. UNCHANGED <<next, prev, memFirst>>
             BY <1>4
       <2> QED
           BY <2>1, <2>2, <2>3, <1>6, <1>7, ListsStepOne DEF IInv
<1>11. OneHome'
       <2>1. Pooled' = Pooled
             BY <1>4, <1>9 DEF Pooled
       <2>2. IsList(next', Pooled', free')
             BY <2>1, <1>4 DEF IInv, OneHome
       <2>3. top' >= top
             BY <1>4 DEF IInv, TypeOK
       <2> QED
           BY <2>2, <2>3, <1>4, <1>9, HomeStep, {} \in SUBSET Desc DEF IInv
<1>12. CountsExact'
       BY <1>4, <1>6, <1>7 DEF IInv, CountsExact
<1>13. CoreListsExact'
       <2>1. \A b \in Cpu : pc'[b] = pc[b] \/ {pc[b], pc'[b]} \subseteq {"idle", "link", "reap"}
             BY <1>1, <1>5
       <2> QED
           BY <2>1, <1>4, <1>7, CoresStep, {} \in SUBSET Cpu DEF IInv
<1>14. CallsExclusive'
       <2>1. \A b \in Cpu : CallExclusive(b)
             BY DEF IInv, CallsExclusive
       <2>2. \A u \in Task : TaskExclusive(u)
             BY DEF IInv, CallsExclusive
       <2>3. CallExclusive(c)'
             BY <1>5, <1>8 DEF CallExclusive
       <2>4. ASSUME NEW b \in Cpu \ {c} PROVE CallExclusive(b)'
             <3>1. pc[b] = "link" => ActsFor(b, who[b])'
                   <4> SUFFICES ASSUME pc[b] = "link" PROVE ActsFor(b, who[b])'
                       OBVIOUS
                   <4>1. ActsFor(b, who[b]) /\ who[b] \in Task
                         BY <2>1 DEF CallExclusive, IInv, TypeOK
                   <4>2. \A u \in Task : state[u] = "live" => state'[u] = "live"
                         BY <1>3, <1>6
                   <4> QED
                       BY <4>1, <4>2, <1>4, <1>5 DEF ActsFor
             <3>2. Reaping(b) => who[b] \in Task \ {t}
                   BY <1>3 DEF Reaping, IInv, TypeOK
             <3> QED
                 BY <3>1, <3>2, <2>1, <1>4, <1>5, <1>6, <1>8 DEF CallExclusive
       <2>5. ASSUME NEW u \in Task PROVE TaskExclusive(u)'
             <3>1. state'[u] = "exiting" => Reaping(core[u])' /\ who'[core[u]] = u
                   <4> SUFFICES ASSUME state'[u] = "exiting"
                                PROVE  Reaping(core[u])' /\ who'[core[u]] = u
                       OBVIOUS
                   <4>1. u # t /\ state[u] = "exiting"
                         BY <1>6
                   <4>2. PICK b \in Cpu : b = core[u] /\ b # c
                         BY <4>1, <2>2, <1>2 DEF TaskExclusive, IInv, TypeOK
                   <4>3. Reaping(b) /\ who[b] = u
                         BY <4>1, <4>2, <2>2 DEF TaskExclusive
                   <4> QED
                       BY <4>2, <4>3, <1>4, <1>5, <1>8
             <3>2. \A v \in Task : state'[v] = "live" <=> state[v] = "live"
                   BY <1>3, <1>6
             <3>3. \A v \in Task : state'[v] = "creating" <=> state[v] = "creating"
                   BY <1>3, <1>6
             <3>4. creating[u] \in Task \cup {None}
                   BY DEF IInv, TypeOK
             <3> QED
                 BY <3>1, <3>2, <3>3, <3>4, <2>2, <1>4 DEF TaskExclusive
       <2> QED
           BY <2>3, <2>4, <2>5 DEF CallsExclusive
<1> QED
    BY <1>10, <1>11, <1>12, <1>13, <1>14 DEF IInv

-----------------------------------------------------------------------------
(* kern_fork, kern_start and the entry of free_task: no page moves         *)

\* A step that moves no page keeps the pool and the cores' lists as they are.
LEMMA PagesStay ==
  ASSUME IInv, TypeOK',
         UNCHANGED <<free, top, next, prev, owner, coreFirst, coreLast, coreCount, cache>>,
         \A b \in Cpu : pc'[b] = pc[b] \/ {pc[b], pc'[b]} \subseteq {"idle", "reap"},
         \A b \in Cpu : pc[b] = "link" => hand'[b] = hand[b]
  PROVE  /\ OneHome'
         /\ CoreListsExact'
         /\ \A u \in Task : OwnedBy(u)' = OwnedBy(u)
<1>1. \A b \in Cpu, e \in Desc : InHand(b, e)' <=> InHand(b, e)
      BY DEF InHand
<1>2. OneHome'
      <2>1. Pooled' = Pooled
            BY <1>1 DEF Pooled
      <2>2. IsList(next', Pooled', free')
            BY <2>1 DEF IInv, OneHome
      <2>3. top' >= top
            BY DEF IInv, TypeOK
      <2> QED
          BY <2>2, <2>3, <1>1, HomeStep, {} \in SUBSET Desc DEF IInv
<1>3. CoreListsExact'
      <2>1. \A b \in Cpu : Cached(b)' = Cached(b)
            BY DEF Cached
      <2>2. \A b \in Cpu : pc'[b] = pc[b] \/ {pc[b], pc'[b]} \subseteq {"idle", "link", "reap"}
            OBVIOUS
      <2> QED
          BY <2>1, <2>2, CoresStep, {} \in SUBSET Cpu DEF IInv
<1>4. \A u \in Task : OwnedBy(u)' = OwnedBy(u)
      BY DEF OwnedBy
<1> QED
    BY <1>2, <1>3, <1>4

\* kern_fork: the cleared page of a task that owns nothing.
LEMMA ForkInv ==
  ASSUME IInv, TypeOK', NEW t \in Task, Fork(t)
  PROVE  IInv'
<1>1. state[t] = "live" /\ creating[t] = None
      BY DEF Fork, Calls
<1>2. PICK nt \in Task :
        /\ state[nt] = "unused"
        /\ memFirst' = [memFirst EXCEPT ![nt] = Null]
        /\ memCount' = [memCount EXCEPT ![nt] = 0]
        /\ core' = [core EXCEPT ![nt] = None]
        /\ creating' = [creating EXCEPT ![nt] = None, ![t] = nt]
        /\ state' = [state EXCEPT ![nt] = "creating"]
      BY DEF Fork
<1>3. UNCHANGED <<free, top, next, prev, owner, coreFirst, coreLast, coreCount, cache,
                  pc, hand, who>>
      BY DEF Fork, pool, cores, call
<1>4. /\ nt # t
      /\ memFirst'[nt] = Null /\ memCount'[nt] = 0 /\ core'[nt] = None
      /\ state'[nt] = "creating" /\ creating'[nt] = None /\ creating'[t] = nt
      /\ \A u \in Task \ {nt} : /\ memFirst'[u] = memFirst[u]
                                /\ memCount'[u] = memCount[u]
                                /\ core'[u] = core[u]
                                /\ state'[u] = state[u]
      /\ \A u \in Task \ {nt, t} : creating'[u] = creating[u]
      BY <1>1, <1>2 DEF IInv, TypeOK
<1>5. OneHome' /\ CoreListsExact' /\ \A u \in Task : OwnedBy(u)' = OwnedBy(u)
      BY <1>3, PagesStay
<1>6. OwnedBy(nt) = {}
      BY <1>2 DEF IInv, ListsMatchOwners, TaskListExact
<1>7. \A b \in Cpu : Reaping(b)' <=> Reaping(b)
      BY <1>3 DEF Reaping
<1>8. \A b \in Cpu : Reaping(b) => who[b] # nt
      BY <1>2 DEF IInv, CallsExclusive, CallExclusive
<1>9. ListsMatchOwners'
      <2>1. IsList(next', {}, Null) /\ BackLinks(next', prev', {}, Null)
            BY ListEmpty DEF BackLinks
      <2>2. TaskListExact(nt)'
            BY <2>1, <1>4, <1>5, <1>6 DEF TaskListExact
      <2>3. \A b \in Cpu : Reaping(b)' =>
               Reaping(b) /\ who'[b] = who[b] /\ hand'[b] = hand[b] /\ who'[b] # nt
            BY <1>3, <1>7, <1>8
      <2> QED
          BY <2>2, <2>3, <1>3, <1>4, <1>5, ListsStepOne DEF IInv
<1>10. CountsExact'
       <2>1. Cardinality({}) = 0
             BY FS_EmptySet
       <2>2. \A u \in Task \ {nt} : memCount'[u] = memCount[u] /\ state'[u] = state[u]
             BY <1>4
       <2> QED
           BY <2>1, <2>2, <1>4, <1>5, <1>6, ConstantsOK DEF IInv, CountsExact
<1>11. CallsExclusive'
       <2>1. \A b \in Cpu : CallExclusive(b)
             BY DEF IInv, CallsExclusive
       <2>2. \A u \in Task : TaskExclusive(u)
             BY DEF IInv, CallsExclusive
       <2>3. ASSUME NEW b \in Cpu PROVE CallExclusive(b)'
             <3>1. ASSUME pc[b] = "link"
                   PROVE  ActsFor(b, who[b])' /\ memCount'[who'[b]] < Quota
                   <4>1. /\ who[b] \in Task
                         /\ state[who[b]] \in {"creating", "live"}
                         /\ memCount[who[b]] < Quota
                         BY <3>1, LinkFacts DEF IInv
                   <4>2. who[b] # nt
                         BY <4>1, <1>2
                   <4>3. ActsFor(b, who[b])
                         BY <3>1, <2>1 DEF CallExclusive
                   <4>4. \A u \in Task : state[u] = "live" /\ creating[u] = who[b] => u # t
                         BY <4>1, <1>1, ConstantsOK
                   <4>5. ASSUME NEW u \in Task, state[u] = "live", u # t
                         PROVE  state'[u] = "live" /\ core'[u] = core[u] /\ creating'[u] = creating[u]
                         BY <4>5, <1>2, <1>4
                   <4>6. \A u \in Task : state[u] = "live" => state'[u] = "live" /\ core'[u] = core[u]
                         BY <1>2, <1>4
                   <4>7. ActsFor(b, who[b])'
                         BY <4>1, <4>3, <4>4, <4>5, <4>6, <1>3 DEF ActsFor
                   <4> QED
                       BY <4>1, <4>2, <4>7, <1>3, <1>4
             <3>2. Reaping(b) => who[b] \in Task \ {nt}
                   BY <1>8 DEF Reaping, IInv, TypeOK
             <3> QED
                 BY <3>1, <3>2, <2>1, <1>3, <1>4, <1>7 DEF CallExclusive
       <2>4. ASSUME NEW u \in Task PROVE TaskExclusive(u)'
             <3>1. \A v \in Task : state'[v] = "live" <=> state[v] = "live"
                   BY <1>2, <1>4
             <3>2. \A v \in Task : state[v] = "live" => creating[v] # nt
                   BY <2>2, <1>2, ConstantsOK DEF TaskExclusive
             <3>3. CASE u = nt
                   BY <3>3, <1>4 DEF TaskExclusive
             <3>4. CASE u = t
                   BY <3>1, <3>2, <3>4, <1>1, <1>4 DEF TaskExclusive
             <3>5. CASE u \notin {nt, t}
                   <4>1. state'[u] = state[u] /\ core'[u] = core[u] /\ creating'[u] = creating[u]
                         BY <3>5, <1>4
                   <4>2. state[u] = "exiting" => Reaping(core[u])' /\ who'[core[u]] = u
                         BY <4>1, <2>2, <1>3 DEF TaskExclusive, Reaping
                   <4>3. ASSUME state[u] = "live", creating[u] # None
                         PROVE  /\ state'[creating[u]] = "creating"
                                /\ core'[creating[u]] = None
                                /\ \A v \in Task : state'[v] = "live" /\ creating'[v] = creating[u] => v = u
                         <5>1. creating[u] \in Task \ {nt}
                               BY <4>3, <3>2 DEF IInv, TypeOK
                         <5>2. /\ state[creating[u]] = "creating"
                               /\ core[creating[u]] = None
                               /\ \A v \in Task : state[v] = "live" /\ creating[v] = creating[u] => v = u
                               BY <4>3, <2>2 DEF TaskExclusive
                         <5>3. ASSUME NEW v \in Task, state'[v] = "live", creating'[v] = creating[u]
                               PROVE  state[v] = "live" /\ creating[v] = creating[u]
                               <6>1. state[v] = "live" /\ v # nt
                                     BY <5>3, <3>1, <1>2
                               <6>2. v # t
                                     BY <5>1, <5>3, <1>4
                               <6> QED
                                   BY <5>3, <6>1, <6>2, <1>4
                         <5> QED
                             BY <5>1, <5>2, <5>3, <1>4
                   <4> QED
                       BY <4>1, <4>2, <4>3, <2>2 DEF TaskExclusive, Reaping
             <3> QED
                 BY <3>3, <3>4, <3>5
       <2> QED
           BY <2>3, <2>4 DEF CallsExclusive
<1> QED
    BY <1>5, <1>9, <1>10, <1>11 DEF IInv

\* kern_start gives the new task, with its pages, to the caller's core.
LEMMA StartInv ==
  ASSUME IInv, TypeOK', NEW t \in Task, Start(t)
  PROVE  IInv'
<1>1. PICK c \in Cpu : c = core[t]
      BY DEF IInv, TypeOK, Start, Calls
<1>2. PICK nt \in Task : nt = creating[t]
      BY DEF IInv, TypeOK, Start
<1>3. /\ pc[c] = "idle"
      /\ state[t] = "live"
      /\ ~Reaping(c)
      BY <1>1, CallsFacts DEF IInv, Start
<1>4. /\ creating' = [creating EXCEPT ![t] = None]
      /\ core' = [core EXCEPT ![nt] = c]
      /\ state' = [state EXCEPT ![nt] = "live"]
      /\ UNCHANGED <<free, top, next, prev, owner, coreFirst, coreLast, coreCount, cache,
                     memFirst, memCount, pc, hand, who>>
      BY <1>1, <1>2 DEF Start, pool, cores, mem, call
<1>5. /\ state[nt] = "creating"
      /\ core[nt] = None
      /\ creating[nt] = None
      /\ \A u \in Task : state[u] = "live" /\ creating[u] = nt => u = t
      BY <1>2, <1>3, ConstantsOK DEF IInv, CallsExclusive, TaskExclusive
<1>6. /\ nt # t
      /\ creating'[t] = None /\ core'[nt] = c /\ state'[nt] = "live"
      /\ \A u \in Task \ {t} : creating'[u] = creating[u]
      /\ \A u \in Task \ {nt} : core'[u] = core[u] /\ state'[u] = state[u]
      BY <1>3, <1>4, <1>5 DEF IInv, TypeOK
<1>7. OneHome' /\ CoreListsExact' /\ \A u \in Task : OwnedBy(u)' = OwnedBy(u)
      BY <1>4, PagesStay
<1>8. \A b \in Cpu : Reaping(b)' <=> Reaping(b)
      BY <1>4 DEF Reaping
<1>9. \A b \in Cpu : Reaping(b) => who[b] # nt
      BY <1>5 DEF IInv, CallsExclusive, CallExclusive
<1>10. ListsMatchOwners'
       <2>1. TaskListExact(nt)
             BY DEF IInv, ListsMatchOwners
       <2>2. TaskListExact(nt)'
             BY <2>1, <1>4, <1>5, <1>6, <1>7 DEF TaskListExact
       <2>3. \A b \in Cpu : Reaping(b)' =>
                Reaping(b) /\ who'[b] = who[b] /\ hand'[b] = hand[b] /\ who'[b] # nt
             BY <1>4, <1>8, <1>9
       <2> QED
           BY <2>2, <2>3, <1>4, <1>6, <1>7, ListsStepOne DEF IInv
<1>11. CountsExact'
       BY <1>4, <1>5, <1>6, <1>7 DEF IInv, CountsExact
<1>12. CallsExclusive'
       <2>1. \A b \in Cpu : CallExclusive(b)
             BY DEF IInv, CallsExclusive
       <2>2. \A u \in Task : TaskExclusive(u)
             BY DEF IInv, CallsExclusive
       <2>3. ASSUME NEW b \in Cpu PROVE CallExclusive(b)'
             <3>1. ASSUME pc[b] = "link" PROVE ActsFor(b, who[b])'
                   <4>1. ActsFor(b, who[b]) /\ b # c /\ who[b] \in Task
                         BY <3>1, <2>1, <1>3 DEF CallExclusive, IInv, TypeOK
                   <4>2. CASE state[who[b]] = "live" /\ core[who[b]] = b
                         BY <4>1, <4>2, <1>4, <1>5, <1>6 DEF ActsFor
                   <4>3. CASE \E u \in Task : state[u] = "live" /\ core[u] = b /\ creating[u] = who[b]
                         <5>1. PICK u \in Task : state[u] = "live" /\ core[u] = b /\ creating[u] = who[b]
                               BY <4>3
                         <5>2. u # t /\ u # nt
                               BY <5>1, <4>1, <1>1, <1>5
                         <5> QED
                             BY <5>1, <5>2, <1>4, <1>6 DEF ActsFor
                   <4> QED
                       BY <4>1, <4>2, <4>3 DEF ActsFor
             <3>2. Reaping(b) => who[b] \in Task \ {nt}
                   BY <1>9 DEF Reaping, IInv, TypeOK
             <3> QED
                 BY <3>1, <3>2, <2>1, <1>4, <1>6, <1>8 DEF CallExclusive
       <2>4. ASSUME NEW u \in Task PROVE TaskExclusive(u)'
             <3>1. CASE u = t
                   BY <3>1, <1>3, <1>6 DEF TaskExclusive
             <3>2. CASE u = nt
                   BY <3>2, <1>5, <1>6 DEF TaskExclusive
             <3>3. CASE u \notin {t, nt}
                   <4>1. state'[u] = state[u] /\ core'[u] = core[u] /\ creating'[u] = creating[u]
                         BY <3>3, <1>6
                   <4>2. state[u] = "exiting" => Reaping(core[u])' /\ who'[core[u]] = u
                         BY <4>1, <2>2, <1>4 DEF TaskExclusive, Reaping
                   <4>3. ASSUME state[u] = "live", creating[u] # None
                         PROVE  /\ state'[creating[u]] = "creating"
                                /\ core'[creating[u]] = None
                                /\ \A v \in Task : state'[v] = "live" /\ creating'[v] = creating[u] => v = u
                         <5>1. creating[u] \in Task \ {nt}
                               BY <4>3, <3>3, <1>5 DEF IInv, TypeOK
                         <5>2. /\ state[creating[u]] = "creating"
                               /\ core[creating[u]] = None
                               /\ \A v \in Task : state[v] = "live" /\ creating[v] = creating[u] => v = u
                               BY <4>3, <2>2 DEF TaskExclusive
                         <5>3. \A v \in Task : state'[v] = "live" /\ creating'[v] = creating[u] =>
                                  state[v] = "live" /\ creating[v] = creating[u]
                               BY <4>3, <1>5, <1>6
                         <5> QED
                             BY <5>1, <5>2, <5>3, <1>6
                   <4> QED
                       BY <4>1, <4>2, <4>3, <2>2 DEF TaskExclusive, Reaping
             <3> QED
                 BY <3>1, <3>2, <3>3
       <2> QED
           BY <2>3, <2>4 DEF CallsExclusive
<1> QED
    BY <1>7, <1>10, <1>11, <1>12 DEF IInv

\* free_task is entered, on the way out of a task or by a cancel.
LEMMA EnterFreeTaskInv ==
  ASSUME IInv, TypeOK', NEW t \in Task, Calls(t), EnterFreeTask(t),
         UNCHANGED creating \/ creating' = [creating EXCEPT ![t] = None]
  PROVE  IInv'
<1>1. PICK c \in Cpu : c = core[t]
      BY DEF IInv, TypeOK, Calls
<1>2. /\ pc[c] = "idle"
      /\ who[c] = None
      /\ state[t] = "live"
      /\ ~Reaping(c)
      /\ \A u \in Task : state[u] = "exiting" => core[u] # c
      BY <1>1, CallsFacts DEF IInv
<1>3. /\ state' = [state EXCEPT ![t] = "exiting"]
      /\ Goto(c, "reap", memFirst[t], t)
      /\ UNCHANGED <<free, top, next, prev, owner, coreFirst, coreLast, coreCount,
                     memFirst, memCount, core, cache>>
      BY <1>1 DEF EnterFreeTask, pool, cores, mem
<1>4. /\ pc'[c] = "reap" /\ hand'[c] = memFirst[t] /\ who'[c] = t
      /\ \A b \in Cpu \ {c} : pc'[b] = pc[b] /\ hand'[b] = hand[b] /\ who'[b] = who[b]
      BY <1>3 DEF Goto, IInv, TypeOK
<1>5. state'[t] = "exiting" /\ \A u \in Task \ {t} : state'[u] = state[u] /\ creating'[u] = creating[u]
      BY <1>3 DEF IInv, TypeOK
<1>6. OneHome' /\ CoreListsExact' /\ \A u \in Task : OwnedBy(u)' = OwnedBy(u)
      BY <1>2, <1>3, <1>4, PagesStay
<1>7. Reaping(c)' /\ \A b \in Cpu \ {c} : Reaping(b)' <=> Reaping(b)
      BY <1>4, ConstantsOK DEF Reaping
<1>8. \A b \in Cpu : Reaping(b) => who[b] # t
      BY <1>2 DEF IInv, CallsExclusive, CallExclusive
<1>9. ListsMatchOwners'
      <2>1. IsList(next, OwnedBy(t), memFirst[t])
            BY <1>2 DEF IInv, ListsMatchOwners, TaskListExact
      <2>2. RestOfListExact(c)'
            BY <2>1, <1>3, <1>4, <1>6 DEF RestOfListExact
      <2>3. TaskListExact(t)'
            BY <1>5 DEF TaskListExact
      <2>4. \A b \in Cpu : Reaping(b)' /\ who'[b] # t =>
               Reaping(b) /\ who'[b] = who[b] /\ hand'[b] = hand[b]
            BY <1>4, <1>7
      <2>5. \A b \in Cpu : Reaping(b)' /\ who'[b] = t => RestOfListExact(b)'
            BY <2>2, <1>4, <1>7, <1>8
      <2>6. UNCHANGED <<next, prev, memFirst>>
            BY <1>3
      <2> QED
          BY <2>3, <2>4, <2>5, <2>6, <1>5, <1>6, ListsStepOne DEF IInv
<1>10. CountsExact'
       BY <1>3, <1>5, <1>6 DEF IInv, CountsExact
<1>11. CallsExclusive'
       <2>1. \A b \in Cpu : CallExclusive(b)
             BY DEF IInv, CallsExclusive
       <2>2. \A u \in Task : TaskExclusive(u)
             BY DEF IInv, CallsExclusive
       <2>3. CallExclusive(c)'
             BY <1>1, <1>3, <1>4, <1>5, ConstantsOK DEF CallExclusive
       <2>4. ASSUME NEW b \in Cpu \ {c} PROVE CallExclusive(b)'
             <3>1. ASSUME pc[b] = "link" PROVE ActsFor(b, who[b])'
                   <4>1. ActsFor(b, who[b]) /\ who[b] \in Task
                         BY <3>1, <2>1 DEF CallExclusive, IInv, TypeOK
                   <4>2. CASE state[who[b]] = "live" /\ core[who[b]] = b
                         BY <4>2, <1>1, <1>3, <1>4, <1>5 DEF ActsFor
                   <4>3. CASE \E u \in Task : state[u] = "live" /\ core[u] = b /\ creating[u] = who[b]
                         <5>1. PICK u \in Task : state[u] = "live" /\ core[u] = b /\ creating[u] = who[b]
                               BY <4>3
                         <5>2. u # t
                               BY <5>1, <1>1
                         <5> QED
                             BY <5>1, <5>2, <1>3, <1>4, <1>5 DEF ActsFor
                   <4> QED
                       BY <4>1, <4>2, <4>3 DEF ActsFor
             <3>2. Reaping(b) => who[b] \in Task \ {t}
                   BY <1>8 DEF Reaping, IInv, TypeOK
             <3> QED
                 BY <3>1, <3>2, <2>1, <1>3, <1>4, <1>5, <1>7 DEF CallExclusive
       <2>5. ASSUME NEW u \in Task PROVE TaskExclusive(u)'
             <3>1. CASE u = t
                   BY <3>1, <1>1, <1>3, <1>4, <1>5, <1>7 DEF TaskExclusive
             <3>2. CASE u # t
                   <4>1. state'[u] = state[u] /\ core'[u] = core[u] /\ creating'[u] = creating[u]
                         BY <3>2, <1>3, <1>5
                   <4>2. ASSUME state[u] = "exiting" PROVE Reaping(core[u])' /\ who'[core[u]] = u
                         <5>1. PICK b \in Cpu \ {c} : b = core[u]
                               BY <4>2, <1>2 DEF IInv, TypeOK
                         <5>2. Reaping(b) /\ who[b] = u
                               BY <4>2, <5>1, <2>2 DEF TaskExclusive
                         <5> QED
                             BY <5>1, <5>2, <4>1, <1>4, <1>7
                   <4>3. ASSUME state[u] = "live", creating[u] # None
                         PROVE  /\ state'[creating[u]] = "creating"
                                /\ core'[creating[u]] = None
                                /\ \A v \in Task : state'[v] = "live" /\ creating'[v] = creating[u] => v = u
                         <5>1. /\ state[creating[u]] = "creating"
                               /\ core[creating[u]] = None
                               /\ creating[u] \in Task
                               /\ \A v \in Task : state[v] = "live" /\ creating[v] = creating[u] => v = u
                               BY <4>3, <2>2 DEF TaskExclusive, IInv, TypeOK
                         <5>2. creating[u] # t
                               BY <5>1, <1>2
                         <5> QED
                             BY <5>1, <5>2, <1>3, <1>5
                   <4> QED
                       BY <4>1, <4>2, <4>3, <2>2 DEF TaskExclusive
             <3> QED
                 BY <3>1, <3>2
       <2> QED
           BY <2>3, <2>4, <2>5 DEF CallsExclusive
<1> QED
    BY <1>6, <1>9, <1>10, <1>11 DEF IInv

\* The release that reads through NULL changes nothing else.
LEMMA FaultInv ==
  ASSUME IInv, TypeOK', UNCHANGED <<pool, next, prev, owner, cores, mem, tasks, call, cache>>
  PROVE  IInv'
<1>1. UNCHANGED <<free, top, coreFirst, coreLast, coreCount, memFirst, memCount,
                  core, creating, state, pc, hand, who>>
      BY DEF pool, cores, mem, tasks, call
<1>2. OneHome' /\ CoreListsExact' /\ \A u \in Task : OwnedBy(u)' = OwnedBy(u)
      BY <1>1, PagesStay
<1>3. \A b \in Cpu : Reaping(b)' <=> Reaping(b)
      BY <1>1 DEF Reaping
<1>4. ListsMatchOwners'
      BY <1>1, <1>3, ListsFrame DEF IInv
<1>5. CountsExact'
      BY <1>1, <1>2 DEF IInv, CountsExact
<1>6. CallsExclusive'
      BY <1>1, <1>3 DEF IInv, CallsExclusive, CallExclusive, TaskExclusive, ActsFor, Reaping
<1> QED
    BY <1>2, <1>4, <1>5, <1>6 DEF IInv

-----------------------------------------------------------------------------
(* The theorems                                                            *)

\* The initial state has every descriptor fresh and every list empty.
LEMMA InvInit == Init => IInv
<1> SUFFICES ASSUME Init PROVE IInv
    OBVIOUS
<1>1. TypeOK
      BY TypeInit
<1>2. /\ \A u \in Task : OwnedBy(u) = {}
      /\ \A c \in Cpu : Cached(c) = {} /\ ~Reaping(c)
      /\ Pooled = {}
      BY ConstantsOK DEF Init, OwnedBy, Cached, Pooled, Reaping, Desc
<1>3. IsList(next, {}, Null) /\ Cardinality({}) = 0 /\ BackLinks(next, prev, {}, Null)
      BY ListEmpty, FS_EmptySet DEF BackLinks
<1>4. ListsMatchOwners
      BY <1>2, <1>3 DEF Init, ListsMatchOwners, TaskListExact, RestOfListExact
<1>5. OneHome
      BY <1>2, <1>3 DEF Init, OneHome, Placed, InHand
<1>6. CountsExact
      <2>1. \A u \in Task : memCount[u] = 0
            BY DEF Init
      <2>2. 0 <= Quota
            BY ConstantsOK
      <2> QED
          BY <2>1, <2>2, <1>2, <1>3 DEF CountsExact
<1>7. CoreListsExact
      <2>1. \A c \in Cpu : /\ pc[c] = "idle"
                            /\ coreFirst[c] = Null
                            /\ coreLast[c] = Null
                            /\ coreCount[c] = 0
            BY DEF Init
      <2>2. 0 <= CoreMax
            BY ConstantsOK
      <2> QED
          BY <2>1, <2>2, <1>2, <1>3 DEF CoreListsExact, CoreListExact
<1>8. CallsExclusive
      BY <1>2 DEF Init, CallsExclusive, CallExclusive, TaskExclusive
<1> QED
    BY <1>1, <1>4, <1>5, <1>6, <1>7, <1>8 DEF IInv

\* Every step of every call keeps the inductive invariant.
LEMMA InvNext == IInv /\ [Next]_vars => IInv'
<1> SUFFICES ASSUME IInv, [Next]_vars PROVE IInv'
    OBVIOUS
<1>1. TypeOK'
      BY TypeNext DEF IInv
<1>2. ASSUME NEW t \in Task, Syscall(t) PROVE IInv'
      <2>1. CASE AllocFromCore(t)
            BY <2>1, <1>1, AllocFromCoreInv
      <2>2. CASE AllocFromPool(t)
            BY <2>2, <1>1, AllocFromPoolInv
      <2>3. CASE \E d \in Desc : FreePage(t, d)
            BY <2>3, <1>1, FreePageInv
      <2>4. CASE FreePageWhileCreating(t)
            BY <2>4, <1>1, FaultInv DEF FreePageWhileCreating
      <2>5. CASE Fork(t)
            BY <2>5, <1>1, ForkInv
      <2>6. CASE Start(t)
            BY <2>6, <1>1, StartInv
      <2>7. CASE Cancel(t)
            BY <2>7, <1>1, EnterFreeTaskInv DEF Cancel
      <2>8. CASE Exit(t)
            BY <2>8, <1>1, EnterFreeTaskInv DEF Exit
      <2> QED
          BY <1>2, <2>1, <2>2, <2>3, <2>4, <2>5, <2>6, <2>7, <2>8 DEF Syscall
<1>3. ASSUME NEW c \in Cpu, CpuStep(c) PROVE IInv'
      BY <1>3, <1>1, LinkPageInv, KernFreeInv, ClearCoreInv, ReapPageInv, ReapDoneInv DEF CpuStep
<1>4. CASE UNCHANGED vars
      BY <1>4, <1>1, FaultInv DEF vars
<1> QED
    BY <1>2, <1>3, <1>4 DEF Next

\* The inductive invariant: each list of pages is exact because the others are,
\* and because the core lock keeps a task's list to one call.
THEOREM InvariantHolds == Spec => []IInv
<1>1. Init => IInv
      BY InvInit
<1>2. IInv /\ [Next]_vars => IInv'
      BY InvNext
<1> QED
    BY <1>1, <1>2, PTL DEF Spec

\* free_task always walks exactly the pages that name the task, and ends.
THEOREM ListsMatchOwnersHolds == Spec => []ListsMatchOwners
<1>1. IInv => ListsMatchOwners
      BY DEF IInv
<1> QED
    BY <1>1, InvariantHolds, PTL

\* No page is lost or in two places, however many cores allocate and free.
THEOREM OneHomeHolds == Spec => []OneHome
<1>1. IInv => OneHome
      BY DEF IInv
<1> QED
    BY <1>1, InvariantHolds, PTL

\* The quota account is exact and never wraps.
THEOREM CountsExactHolds == Spec => []CountsExact
<1>1. IInv => CountsExact
      BY DEF IInv
<1> QED
    BY <1>1, InvariantHolds, PTL

\* What release_desc hands to kern_free is one whole chain.
THEOREM CoreListsExactHolds == Spec => []CoreListsExact
<1>1. IInv => CoreListsExact
      BY DEF IInv
<1> QED
    BY <1>1, InvariantHolds, PTL

\* One call at a time acts for a task's page account.
THEOREM CallsExclusiveHolds == Spec => []CallsExclusive
<1>1. IInv => CallsExclusive
      BY DEF IInv
<1> QED
    BY <1>1, InvariantHolds, PTL

-----------------------------------------------------------------------------
(* Refinement of PageOwnership                                             *)

\* Every step grants one free page, releases one, or changes no owner.
LEMMA OwnershipStep ==
  ASSUME IInv, [Next]_vars
  PROVE  [Ownership!Next]_owner
<1> SUFFICES ASSUME Next PROVE Ownership!Next \/ UNCHANGED owner
    BY DEF vars
<1>1. ASSUME NEW t \in Task, NEW d \in Desc, FreePage(t, d) PROVE Ownership!Release(d)
      BY <1>1, ConstantsOK DEF FreePage, ReleaseDesc, Ownership!Release
<1>2. ASSUME NEW c \in Cpu, LinkPage(c) PROVE \E d \in Desc, t \in Task : Ownership!Grant(d, t)
      <2>1. PICK d \in Desc, t \in Task : d = hand[c] /\ t = who[c] /\ pc[c] = "link"
            BY <1>2 DEF IInv, TypeOK, LinkPage
      <2>2. owner[d] = None
            BY <2>1, PlacedFacts DEF IInv, InHand
      <2>3. memCount[t] < Quota /\ state[t] \in {"creating", "live"}
            BY <2>1, LinkFacts DEF IInv
      <2>4. Cardinality(OwnedBy(t)) < Quota
            BY <2>3 DEF IInv, CountsExact
      <2>5. Cardinality({e \in Desc : owner[e] = t}) < Quota
            BY <2>4 DEF OwnedBy
      <2>6. owner' = [owner EXCEPT ![d] = t]
            BY <2>1, <1>2 DEF LinkPage
      <2>7. Ownership!Grant(d, t)
            BY <2>2, <2>5, <2>6 DEF Ownership!Grant, Ownership!PagesOf
      <2> QED
          BY <2>7
<1>3. ASSUME NEW c \in Cpu, ReapPage(c) PROVE \E d \in Desc : Ownership!Release(d)
      <2>1. pc[c] = "reap" /\ hand[c] # Null
            BY <1>3 DEF ReapPage
      <2>2. /\ who[c] \in Task
            /\ IsList(next, OwnedBy(who[c]), hand[c])
            BY <2>1, ReapFacts DEF IInv
      <2>3. PICK d \in Desc : d = hand[c] /\ owner[d] = who[c]
            BY <2>1, <2>2, ListHead DEF OwnedBy
      <2>4. owner' = [owner EXCEPT ![d] = None]
            BY <2>3, <1>3 DEF ReapPage, ReleaseDesc
      <2> QED
          BY <2>2, <2>3, <2>4, ConstantsOK DEF Ownership!Release
<1>4. ASSUME NEW t \in Task, Syscall(t), ~ \E d \in Desc : FreePage(t, d) PROVE UNCHANGED owner
      BY <1>4 DEF Syscall, AllocFromCore, AllocFromPool, FreePageWhileCreating, Fork, Start,
                  Cancel, Exit, EnterFreeTask
<1>5. ASSUME NEW c \in Cpu, CpuStep(c), ~LinkPage(c), ~ReapPage(c) PROVE UNCHANGED owner
      BY <1>5 DEF CpuStep, KernFree, ClearCore, ReapDone
<1> QED
    BY <1>1, <1>2, <1>3, <1>4, <1>5 DEF Next, CpuStep, Ownership!Next

\* Whatever the lists do, a page is granted only while it is nobody's and its
\* new owner below quota, and taken only to be nobody's again.
THEOREM PagesOwnedHolds == Spec => PagesOwned
<1>1. Init => Ownership!Init
      BY DEF Init, Ownership!Init
<1>2. IInv /\ [Next]_vars => [Ownership!Next]_owner
      BY OwnershipStep
<1> QED
    BY <1>1, <1>2, InvariantHolds, PTL DEF Spec, PagesOwned, Ownership!Spec
==============================================================================
