------------------------------ MODULE PageAlloc ------------------------------
(***************************************************************************)
(* The user-page allocator of the NeedleOS kernel: kernel/alloc.c, the     *)
(* global descriptor pool it draws from (kern_alloc and kern_free), and    *)
(* the parts of kernel/task.c that create a task's page list and give it   *)
(* back.                                                                   *)
(*                                                                         *)
(* A page is its descriptor (desc_to_page is a bijection), descriptors are *)
(* 1..NumPages in address order and 0 is the NULL pointer.  A descriptor   *)
(* is on one of three kinds of list threaded through the same `next' word: *)
(* the pool's free list (shared by all cores, under the global lock), a    *)
(* core's own free list, or a task's list of owned pages (both under the   *)
(* core's lock).                                                           *)
(*                                                                         *)
(* A system call runs under its core's lock, so two calls on one core do   *)
(* not interleave; calls on different cores do, between the sections that  *)
(* hold the global lock.  pc[c] is where the call running on core c is.    *)
(* A call that fails changes nothing and is a stuttering step.             *)
(***************************************************************************)
EXTENDS Integers, FiniteSets

CONSTANTS
  Cpu,       \* cores
  Task,      \* kernel pages that may hold a kern_task
  NumPages,  \* user pages in the pool (USER_MEM_SIZE)
  Quota,     \* mem.quota of every task (1024 in kern_fork and init_task)
  CoreMax,   \* a core with more free pages returns them (32 in release_desc)
  SizeMax,   \* the largest size_t
  None       \* no task, no core: a NULL kern_task or kern_cpu pointer

ASSUME ConstantsOK ==
  /\ NumPages \in Nat
  /\ Quota \in Nat
  /\ CoreMax \in Nat
  /\ SizeMax \in Nat
  /\ NumPages <= SizeMax
  /\ None \notin Task
  /\ None \notin Cpu

Desc == 1 .. NumPages
Null == 0
Ptr  == Desc \cup {Null}

VARIABLES
  free,       \* user_mem.free: head of the pool's free list
  top,        \* user_mem.top: first descriptor never handed out
  next, prev, \* the links of each descriptor
  owner,      \* kern_desc.task
  coreFirst, coreLast, coreCount,  \* each core's free list
  memFirst, memCount,              \* each task's page list (task_memory)
  core,       \* kern_task.cpu, NULL until the task is started
  creating,   \* kern_task.creating_task
  state,      \* what each kernel page holds
  pc,         \* where the call on each core is
  hand,       \* the descriptor that call holds
  who,        \* the task that call links a page to, or frees
  fault,      \* the kernel has dereferenced NULL
  cache       \* history: the core whose free list each descriptor is on

pool  == <<free, top>>
cores == <<coreFirst, coreLast, coreCount>>
mem   == <<memFirst, memCount>>
tasks == <<core, creating, state>>
call  == <<pc, hand, who>>
vars  == <<pool, next, prev, owner, cores, mem, tasks, call, fault, cache>>

TypeOK ==
  /\ free \in Ptr
  /\ top \in 1 .. NumPages + 1
  /\ next \in [Desc -> Ptr]
  /\ prev \in [Desc -> Ptr]
  /\ owner \in [Desc -> Task \cup {None}]
  /\ coreFirst \in [Cpu -> Ptr]
  /\ coreLast \in [Cpu -> Ptr]
  /\ coreCount \in [Cpu -> Nat]
  /\ memFirst \in [Task -> Ptr]
  /\ memCount \in [Task -> Nat]
  /\ core \in [Task -> Cpu \cup {None}]
  /\ creating \in [Task -> Task \cup {None}]
  /\ state \in [Task -> {"unused", "creating", "live", "exiting"}]
  /\ pc \in [Cpu -> {"idle", "link", "kern_free", "clear", "reap"}]
  /\ hand \in [Cpu -> Ptr]
  /\ who \in [Cpu -> Task \cup {None}]
  /\ fault \in BOOLEAN
  /\ cache \in [Desc -> Cpu \cup {None}]
  /\ \A t \in Task : state[t] \in {"live", "exiting"} => core[t] \in Cpu
  /\ \A c \in Cpu : pc[c] = "link" => hand[c] \in Desc /\ who[c] \in Task

(***************************************************************************)
(* One initial task on every core, as init_task leaves it.                 *)
(***************************************************************************)
Init ==
  /\ free = Null
  /\ top = 1
  /\ next = [d \in Desc |-> Null]
  /\ prev = [d \in Desc |-> Null]
  /\ owner = [d \in Desc |-> None]
  /\ coreFirst = [c \in Cpu |-> Null]
  /\ coreLast = [c \in Cpu |-> Null]
  /\ coreCount = [c \in Cpu |-> 0]
  /\ memFirst = [t \in Task |-> Null]
  /\ memCount = [t \in Task |-> 0]
  /\ core \in [Task -> Cpu \cup {None}]
  /\ \A c \in Cpu : \E t \in Task : core[t] = c
  /\ \A t, u \in Task : core[t] = core[u] /\ core[t] # None => t = u
  /\ creating = [t \in Task |-> None]
  /\ state = [t \in Task |-> IF core[t] = None THEN "unused" ELSE "live"]
  /\ pc = [c \in Cpu |-> "idle"]
  /\ hand = [c \in Cpu |-> Null]
  /\ who = [c \in Cpu |-> None]
  /\ fault = FALSE
  /\ cache = [d \in Desc |-> None]

-----------------------------------------------------------------------------
(* The words the handlers are made of.                                     *)

\* p->field = v when p may be NULL and the code tests it first.
Store(f, p, v) == IF p = Null THEN f ELSE [f EXCEPT ![p] = v]

\* n-- on a size_t.
DecrementSkipped(n) == n   \* a mistaken Decrement
Decrement(n) == IF n = 0 THEN SizeMax ELSE n - 1

\* Task t enters a system call: it takes its core's lock.
CallsUnlocked(t) == ~fault /\ state[t] = "live"   \* a mistaken Calls
Calls(t) == ~fault /\ state[t] = "live" /\ pc[core[t]] = "idle"

\* The task a page call of t acts for.
Target(t) == IF creating[t] = None THEN t ELSE creating[t]

Goto(c, label, d, t) ==
  /\ pc' = [pc EXCEPT ![c] = label]
  /\ hand' = [hand EXCEPT ![c] = d]
  /\ who' = [who EXCEPT ![c] = t]

\* release_desc up to its call of kern_free: d goes to the front of core c's
\* free list; prv and nxt are the links as the caller left them.
ReleaseDesc(c, d, prv, nxt) ==
  /\ prev' = [prv EXCEPT ![d] = Null]
  /\ next' = [nxt EXCEPT ![d] = coreFirst[c]]
  /\ owner' = [owner EXCEPT ![d] = None]
  /\ coreFirst' = [coreFirst EXCEPT ![c] = d]
  /\ coreLast' = IF coreFirst[c] = Null THEN [coreLast EXCEPT ![c] = d] ELSE coreLast
  /\ coreCount' = [coreCount EXCEPT ![c] = @ + 1]
  /\ cache' = [cache EXCEPT ![d] = c]

\* With one page more the core keeps too many free pages.
OverfullLate(c) == coreCount[c] > CoreMax   \* a mistaken Overfull
Overfull(c) == coreCount[c] + 1 > CoreMax

-----------------------------------------------------------------------------
(* kern_alloc_page                                                         *)

BelowQuotaByOne(t) == memCount[t] <= Quota   \* a mistaken BelowQuota
BelowQuota(t) == memCount[t] < Quota

\* The page comes off the core's own free list.
AllocFromCore(t) ==
  LET c == core[t]
      d == coreFirst[c]
  IN  /\ Calls(t)
      /\ BelowQuota(Target(t))
      /\ d # Null
      /\ coreFirst' = [coreFirst EXCEPT ![c] = next[d]]
      /\ coreLast' = IF next[d] = Null THEN [coreLast EXCEPT ![c] = Null] ELSE coreLast
      /\ coreCount' = [coreCount EXCEPT ![c] = Decrement(@)]
      /\ cache' = [cache EXCEPT ![d] = None]
      /\ Goto(c, "link", d, Target(t))
      /\ UNCHANGED <<pool, next, prev, owner, mem, tasks, fault>>

\* kern_alloc has no free descriptor and no fresh one.
PoolDryLate == free = Null /\ top > NumPages + 1   \* a mistaken PoolDry
PoolDry == free = Null /\ top > NumPages

\* The core has none: kern_alloc, under the global lock, gives one from the
\* pool's free list, else a fresh one.
AllocFromPool(t) ==
  /\ Calls(t)
  /\ BelowQuota(Target(t))
  /\ coreFirst[core[t]] = Null
  /\ ~PoolDry
  /\ IF free # Null
       THEN free' = next[free] /\ UNCHANGED top /\ Goto(core[t], "link", free, Target(t))
       ELSE top' = top + 1 /\ UNCHANGED free /\ Goto(core[t], "link", top, Target(t))
  /\ UNCHANGED <<next, prev, owner, cores, mem, tasks, fault, cache>>

\* The page is put at the front of the list of the task it is for.
LinkPage(c) ==
  LET d == hand[c]
      t == who[c]
  IN  /\ ~fault
      /\ pc[c] = "link"
      /\ next' = [next EXCEPT ![d] = memFirst[t]]
      /\ prev' = Store([prev EXCEPT ![d] = Null], memFirst[t], d)
      /\ owner' = [owner EXCEPT ![d] = t]
      /\ memFirst' = [memFirst EXCEPT ![t] = d]
      /\ memCount' = [memCount EXCEPT ![t] = @ + 1]
      /\ Goto(c, "idle", Null, None)
      /\ UNCHANGED <<pool, cores, tasks, fault, cache>>

-----------------------------------------------------------------------------
(* kern_free_page and the rest of release_desc                             *)

FreePage(t, d) ==
  LET c == core[t]
  IN  /\ Calls(t)
      /\ creating[t] = None
      /\ owner[d] = t
      /\ memFirst' = IF memFirst[t] = d THEN [memFirst EXCEPT ![t] = next[d]] ELSE memFirst
      /\ memCount' = [memCount EXCEPT ![t] = Decrement(@)]
      /\ ReleaseDesc(c, d, Store(prev, next[d], prev[d]), Store(next, prev[d], next[d]))
      /\ Goto(c, IF Overfull(c) THEN "kern_free" ELSE "idle", Null, None)
      /\ UNCHANGED <<pool, tasks, fault>>

\* While t creates a task the call acts for the new one, and verify_page
\* reads new->core->kernel: new->core is still NULL.
FreePageWhileCreating(t) ==
  /\ Calls(t)
  /\ creating[t] # None
  /\ core[creating[t]] = None
  /\ fault' = TRUE
  /\ UNCHANGED <<pool, next, prev, owner, cores, mem, tasks, call, cache>>

\* last->next = p->free in kern_free.
ChainToPoolLost(c) == next   \* a mistaken ChainToPool
ChainToPool(c) == [next EXCEPT ![coreLast[c]] = free]

\* kern_free(first, last), under the global lock.
KernFree(c) ==
  /\ ~fault
  /\ pc[c] = "kern_free"
  /\ next' = ChainToPool(c)
  /\ free' = coreFirst[c]
  /\ cache' = [d \in Desc |-> IF cache[d] = c THEN None ELSE cache[d]]
  /\ pc' = [pc EXCEPT ![c] = "clear"]
  /\ UNCHANGED <<top, prev, owner, cores, mem, tasks, hand, who, fault>>

\* Where release_desc returns to: kern_free_page, or free_task's loop.
ReturnToIdle(c) == "idle"   \* a mistaken Return
Return(c) == IF who[c] = None THEN "idle" ELSE "reap"

\* The core forgets the list it has given away.
ClearCore(c) ==
  /\ ~fault
  /\ pc[c] = "clear"
  /\ coreFirst' = [coreFirst EXCEPT ![c] = Null]
  /\ coreLast' = [coreLast EXCEPT ![c] = Null]
  /\ coreCount' = [coreCount EXCEPT ![c] = 0]
  /\ pc' = [pc EXCEPT ![c] = Return(c)]
  /\ UNCHANGED <<pool, next, prev, owner, mem, tasks, hand, who, fault, cache>>

-----------------------------------------------------------------------------
(* kernel/task.c, as far as it touches page lists                          *)

\* kern_fork: a kernel page, cleared, becomes a task under creation.
Fork(t) ==
  /\ Calls(t)
  /\ creating[t] = None
  /\ \E nt \in Task :
       /\ state[nt] = "unused"
       /\ memFirst' = [memFirst EXCEPT ![nt] = Null]
       /\ memCount' = [memCount EXCEPT ![nt] = 0]
       /\ core' = [core EXCEPT ![nt] = None]
       /\ creating' = [creating EXCEPT ![nt] = None, ![t] = nt]
       /\ state' = [state EXCEPT ![nt] = "creating"]
  /\ UNCHANGED <<pool, next, prev, owner, cores, call, fault, cache>>

\* kern_start with a function: the new task joins the caller's core.
Start(t) ==
  LET nt == creating[t]
  IN  /\ Calls(t)
      /\ nt # None
      /\ creating' = [creating EXCEPT ![t] = None]
      /\ core' = [core EXCEPT ![nt] = core[t]]
      /\ state' = [state EXCEPT ![nt] = "live"]
      /\ UNCHANGED <<pool, next, prev, owner, cores, mem, call, fault, cache>>

\* free_task(c, t) is entered: by t's thread when its function has returned
\* (Exit), or from kern_start without a function (Cancel), which frees the
\* caller and drops the only pointer to the task under creation.
EnterFreeTask(t) ==
  /\ state' = [state EXCEPT ![t] = "exiting"]
  /\ Goto(core[t], "reap", memFirst[t], t)
  /\ UNCHANGED <<pool, next, prev, owner, cores, mem, core, fault, cache>>

Exit(t) == Calls(t) /\ EnterFreeTask(t) /\ UNCHANGED creating

Cancel(t) ==
  /\ Calls(t)
  /\ creating[t] # None
  /\ creating' = [creating EXCEPT ![t] = None]
  /\ EnterFreeTask(t)

\* free_task reads the link before release_desc overwrites it.
FollowReleased(c) == coreFirst[c]   \* a mistaken Follow: d->next, read too late
Follow(c) == next[hand[c]]

\* One round of free_task's loop.
ReapPage(c) ==
  /\ ~fault
  /\ pc[c] = "reap"
  /\ hand[c] # Null
  /\ ReleaseDesc(c, hand[c], prev, next)
  /\ Goto(c, IF Overfull(c) THEN "kern_free" ELSE "reap", Follow(c), who[c])
  /\ UNCHANGED <<pool, mem, tasks, fault>>

\* The list is done; the task's own page goes back to the kernel pool.
ReapDone(c) ==
  /\ ~fault
  /\ pc[c] = "reap"
  /\ hand[c] = Null
  /\ state' = [state EXCEPT ![who[c]] = "unused"]
  /\ Goto(c, "idle", Null, None)
  /\ UNCHANGED <<pool, next, prev, owner, cores, mem, core, creating, fault, cache>>

-----------------------------------------------------------------------------
\* The kernel's own steps on core c: what is left of a call once entered.
CpuStep(c) ==
  LinkPage(c) \/ KernFree(c) \/ ClearCore(c) \/ ReapPage(c) \/ ReapDone(c)

Syscall(t) ==
  \/ AllocFromCore(t) \/ AllocFromPool(t)
  \/ \E d \in Desc : FreePage(t, d)
  \/ FreePageWhileCreating(t)
  \/ Fork(t) \/ Start(t) \/ Cancel(t) \/ Exit(t)

Next == (\E t \in Task : Syscall(t)) \/ (\E c \in Cpu : CpuStep(c))

Spec == Init /\ [][Next]_vars

\* A core that is inside the kernel with its lock held runs on.
FairSpec == Spec /\ \A c \in Cpu : WF_vars(CpuStep(c))

-----------------------------------------------------------------------------
(* Properties                                                              *)

OwnedBy(t)   == {d \in Desc : owner[d] = t}
Cached(c)    == {d \in Desc : cache[d] = c}
InHand(c, d) == pc[c] = "link" /\ hand[c] = d
Pooled ==
  {d \in Desc : /\ d < top
                /\ owner[d] = None
                /\ cache[d] = None
                /\ \A c \in Cpu : ~InHand(c, d)}

\* Core c is inside free_task: hand[c] is the page its loop has come to.
Reaping(c) == who[c] # None /\ pc[c] \in {"reap", "kern_free", "clear"}

\* The list that starts at h and follows the links n holds exactly the set S:
\* S can be ranked so that h has the highest rank, each link leads to the next
\* lower rank, and NULL follows rank 1.
IsList(n, S, h) ==
  /\ h = Null => S = {}
  /\ \E rank \in [S -> 1 .. Cardinality(S)] :
       /\ h # Null => h \in S /\ rank[h] = Cardinality(S)
       /\ \A d \in S :
            IF n[d] = Null THEN rank[d] = 1
                           ELSE n[d] \in S /\ rank[n[d]] = rank[d] - 1
       /\ \A d, e \in S : rank[d] = rank[e] => d = e

\* The back links p of such a list: NULL at its head, else the predecessor.
BackLinks(n, p, S, h) ==
  \A d \in S : IF d = h THEN p[d] = Null ELSE p[d] \in S /\ n[p[d]] = d

\* The page list of task t, and what is left of it while free_task runs.
TaskListExact(t) ==
  /\ state[t] \in {"creating", "live"} =>
       /\ IsList(next, OwnedBy(t), memFirst[t])
       /\ BackLinks(next, prev, OwnedBy(t), memFirst[t])
  /\ state[t] = "unused" => OwnedBy(t) = {}

RestOfListExact(c) == Reaping(c) => IsList(next, OwnedBy(who[c]), hand[c])

(***************************************************************************)
(* A task's page list is what free_task walks to give the pages back       *)
(* (task.c:76): it must hold exactly the pages whose descriptor names the  *)
(* task, and end.  Half way through free_task the rest of the list must    *)
(* still be exactly the pages not yet given back, and a kernel page that   *)
(* holds no task must not be named by any descriptor.                      *)
(***************************************************************************)
ListsMatchOwners ==
  /\ \A t \in Task : TaskListExact(t)
  /\ \A c \in Cpu : RestOfListExact(c)

\* Descriptor d is in at most one place, and in none while it is fresh.
Placed(d) ==
  /\ d >= top => owner[d] = None /\ cache[d] = None /\ \A c \in Cpu : ~InHand(c, d)
  /\ owner[d] # None => cache[d] = None /\ \A c \in Cpu : ~InHand(c, d)
  /\ cache[d] # None => \A c \in Cpu : ~InHand(c, d)
  /\ \A b, c \in Cpu : InHand(b, d) /\ InHand(c, d) => b = c

(***************************************************************************)
(* No page is lost and none is in two places, whatever the cores do        *)
(* between their locked sections: a descriptor is fresh, owned by a task,  *)
(* on a core's list or in the hand of one kern_alloc_page, or else it is   *)
(* on the pool's free list, which holds nothing more.                      *)
(***************************************************************************)
OneHome ==
  /\ IsList(next, Pooled, free)
  /\ \A d \in Desc : Placed(d)

(***************************************************************************)
(* mem.count is the quota account: it is the number of pages the task owns *)
(* (and so never wraps below zero), and no task is above its quota.        *)
(***************************************************************************)
CountsExact ==
  \A t \in Task : state[t] \in {"creating", "live"} =>
    /\ memCount[t] = Cardinality(OwnedBy(t))
    /\ memCount[t] <= Quota

\* From kern_free to the reset of its list head core c holds no page.
CoreListExact(c) ==
  /\ pc[c] = "clear" => Cached(c) = {}
  /\ pc[c] # "clear" =>
       /\ IsList(next, Cached(c), coreFirst[c])
       /\ coreCount[c] = Cardinality(Cached(c))
       /\ coreFirst[c] = Null <=> coreLast[c] = Null
       /\ coreLast[c] # Null => coreLast[c] \in Cached(c) /\ next[coreLast[c]] = Null
       /\ coreCount[c] <= IF pc[c] = "kern_free" THEN CoreMax + 1 ELSE CoreMax
  /\ pc[c] = "kern_free" => coreFirst[c] # Null

(***************************************************************************)
(* A core's free list is what release_desc hands to kern_free as one chain *)
(* first..last: last must be the end of the list that starts at first, and *)
(* count its length, which is above CoreMax only while kern_free runs.     *)
(***************************************************************************)
CoreListsExact == \A c \in Cpu : CoreListExact(c)

\* The call on core c may change the page account of task t.
ActsFor(c, t) ==
  \/ state[t] = "live" /\ core[t] = c
  \/ \E u \in Task : state[u] = "live" /\ core[u] = c /\ creating[u] = t

CallExclusive(c) ==
  /\ pc[c] = "idle" => who[c] = None
  /\ pc[c] = "link" => ActsFor(c, who[c]) /\ memCount[who[c]] < Quota
  /\ pc[c] = "reap" => who[c] # None
  /\ Reaping(c) => state[who[c]] = "exiting" /\ core[who[c]] = c

TaskExclusive(t) ==
  /\ state[t] = "exiting" => Reaping(core[t]) /\ who[core[t]] = t
  /\ state[t] = "creating" => creating[t] = None
  /\ state[t] = "live" /\ creating[t] # None =>
       /\ state[creating[t]] = "creating"
       /\ core[creating[t]] = None
       /\ \A u \in Task : state[u] = "live" /\ creating[u] = creating[t] => u = t

(***************************************************************************)
(* The core lock keeps a task's page account to one call at a time: the    *)
(* call that is about to link a page still acts for its task and is below  *)
(* the quota it tested before kern_alloc, a task under creation has one    *)
(* creator, no core and no creation of its own, and a task is exiting      *)
(* exactly while its core is inside free_task for it.                      *)
(***************************************************************************)
CallsExclusive ==
  /\ \A c \in Cpu : CallExclusive(c)
  /\ \A t \in Task : TaskExclusive(t)

(***************************************************************************)
(* The lists implement the abstract ownership of pages: a page is only     *)
(* ever granted while it is nobody's and its new owner below quota, two    *)
(* cores allocating at once included.                                      *)
(***************************************************************************)
Ownership == INSTANCE PageOwnership WITH Page <- Desc, Size <- Cardinality

PagesOwned == Ownership!Spec

(***************************************************************************)
(* free_task ends: a task that is being freed gives its kernel page back,  *)
(* so its page list has no cycle and every flush to the pool returns.      *)
(***************************************************************************)
FreeTaskEnds ==
  \A t \in Task : (state[t] = "exiting" /\ ~fault) ~> (state[t] = "unused" \/ fault)

(***************************************************************************)
(* The kernel never follows a NULL pointer.  Does not hold: see            *)
(* FreePageWhileCreating.                                                  *)
(***************************************************************************)
NoFault == ~fault

==============================================================================
