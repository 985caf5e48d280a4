# NeedleOS in TLA+

NeedleOS is a small message-passing kernel: tasks on one or more cores, pages
of memory owned by tasks, channels between tasks. This directory holds TLA+
models of its core logic, TLC configurations that check them on small
instances, and TLAPS proofs of the main results for every size.

The code is in the middle of a change: `kernel.h` and half of the kernel say
`kern_cpu` with the pools behind pointers (`t->cpu`, `c->kernel_mem`,
`c->free_first`), the other half still says `struct core`, `t->core`,
`c->kernel->user_mem`, `c->mem.first`. The models take both as the same fields.
The kernel calls `os_yield`, `os_setup_task` and `os_resume_task`, which only
`kernel/hosted/win32.c` provides, so the models run on that back end.

## 1. Inventory

| Part | State | Operations | Talks to | What is hard | What makes it correct |
|---|---|---|---|---|---|
| Descriptor pool (`kern_alloc`, `kern_free`) | `free`, `top` of a `kern_mem` | take one, give back a chain | every core, under the global lock | cores interleave between locked sections | no page lost, none handed out twice |
| User pages (`alloc.c`) | each core's free list; each task's page list, `count`, `quota`; a descriptor's `next`, `prev`, `task` | `kern_alloc_page`, `kern_free_page`, `release_desc`, `transfer_page` | the pool; `free_task`; `kern_send` | one link word serves three kinds of list; a flush to the pool in mid-operation | a list holds exactly its pages; the account is exact and within quota |
| Tasks (`task.c`) | `creating_task`, list links, core | `kern_fork`, `kern_start` (start, cancel), `free_task` | all other parts | what is left behind when a task ends or a creation is cancelled | all pages come back; lists hold no freed page |
| Message slots (`channel.c`) | `msgs`, `used`, `free`, `normal_priority` | the slot half of `kern_send`, `kern_recv` | channel ends | slots go round between three places through one link word | bounded first-in first-out queue |
| Channel ends (`channel.c`) | `rx`, `tx`, `receiver`, `rx_mask`, `ready_mask`, `dispatch_mask` | `kern_pipe`, `kern_send`, `kern_recv`, `kern_move` | two tasks and a channel page at once | masks kept in one page about state in another; ends move | one receiver, one sender, masks exact |
| Scheduler (`scheduler.c`, `win32.c`) | `ready`, `asleep`, `running`; one thread per task; the schedule event | `schedule_next`, `os_yield`, `os_setup_task`, `os_resume_task`, `os_close_task`, `main`, the thread functions | tasks, `kern_recv` | hand-over between threads by events | one thread runs; no ready task is forgotten |
| System calls (`exception.c`) | the core lock | `ndl_syscall3` | every handler | - | a handler is one step for its core |
| POSIX/C11 host (`hosted.c`) | `run`, `wakeup` of each task | `os_switch`, `os_start_task`, `yield` | condition variables | wake-ups before waits, a switch to oneself | not modelled: unfinished |
| ARM pool (`arm/global-alloc.S`, `arm/release-global.S`) | `free`, `top`, `end`; each core's exclusive reservation | `kern_alloc`, `release_global` | cores, without a lock | another core's store between an exclusive load and its store | one core a descriptor, none skipped, `kern_alloc` ends |
| ARM system calls (`arm/exception.S`) | r0, r7, lr, the stack | `svc_exception` | the handlers | limits of a comparison tree; registers across a call | the right handler, the caller's registers, a way back |
| C11 threads (`tinycthread.c`), Windows branch: mutexes and condition variables | `mAlreadyLocked`, the platform's lock; `mWaitersCount`, two events | `mtx_*`, `cnd_*` | any threads, a call of the platform at a time | a wait is five calls; timeouts race wake-ups; two events for one promise | one thread has the mutex; the lock's count comes out even; no wake-up lost |
| - `call_once` | `status`, `lock` | `call_once` | any threads | a spin lock until the lock is initialised | once, and not before it is done |
| - threads and their values | start information; keys, a list of nodes per thread | `thrd_create/exit/join`, `tss_*`, the clean-up at a thread's end | threads, through keys | who frees what; lists walked while keys are deleted; destructors that set values | every value reaches its destructor, every node is freed, threads end |
| - times | - | `mtx_timedlock`, `cnd_timedwait`, `thrd_sleep` | the clock | rounding, borrows, 32 bits | no timeout early or late by more than its rounding |
| ARM pages (`arm/alloc.S`, `arm/release.S`) | page lists in assembly | `kern_alloc_page`, `kern_free_page` | interrupts | - | not modelled: half of it is not built |
| ARM start-up (`init.c`, `start.S`, `init.S`, ...) | memory map, vectors | straight-line set-up | - | layout arithmetic | not modelled: does not compile, or no logic |
| Ticks | - | `kern_tick`, `NDL_MS_TO_TICK` | `ndl_message.tick` | width and rounding | not modelled: no state depends on them |
| Test, heap structs, `send.c`, `release.c`, `hosted-posix.c`, build files | - | - | - | - | not modelled |

Who may run at once decides what has to interleave. A system call holds its
core's lock from entry to exit, so calls on one core never interleave. Calls on
different cores interleave, at the sections of `kern_alloc` and `kern_free`
that hold the global lock. On one core exactly one task thread runs at a time,
until its task sleeps in `kern_recv` or ends; the main loop then picks the next.
`PROJECT.json` lists the hazards line by line.

## 2. Modules

| Module | Models |
|---|---|
| `PageOwnership` | abstract: a page is nobody's or one task's, granted below quota |
| `PageAlloc` | `alloc.c`, the pool, and the page-list side of `task.c`, on many cores |
| `PageTransfer` | `PageAlloc` plus `transfer_page` |
| `PageListLemmas` | what each pointer operation does to a list (proved) |
| `PageAllocProofs` | the theorems about `PageAlloc` |
| `BoundedFifo` | abstract: a bounded queue |
| `Channel` | the slots of one `struct chan` |
| `ChannelProofs` | the theorems about `Channel` |
| `Kernel` | tasks, channel ends, masks, scheduler lists, threads and the event of one core |
| `KernelProofs` | the theorems about `Kernel` |
| `ArmPool` | the descriptor pool in ARM assembly, on many cores without a lock |
| `SvcDispatch` | a system call on ARM, from `svc` to the return |
| `ArmProofs` | the theorems about `ArmPool`, `SvcDispatch` and `MCArm` |
| `AbstractMutex` | abstract: one thread at a time has a mutex |
| `TinyCnd` | a mutex and a condition variable of `tinycthread.c` |
| `TinyCndProofs` | the theorems about `TinyCnd` |
| `TinyOnce` | `call_once` |
| `TinyThread` | threads, keys, and the clean-up of a thread's values |
| `TinyThreadProofs` | the theorems about `TinyThread` |
| `TinyTime` | the arithmetic of timeouts |
| `MCPageAlloc`, `MCKernel` | symmetry and view for TLC |
| `MCArm` | `ArmPool` and `SvcDispatch` in one run |
| `MCTinyCnd` | symmetry of `TinyCnd` for TLC |
| `MCTinyCThread` | `TinyOnce`, `TinyThread` and `TinyTime` in one run |
| `MCKernelPromises` | `Kernel`, started again after each fault |
| `MCArmPromises` | `ArmPool` and `SvcDispatch` side by side in one behaviour |
| `MCTinyPromises` | `TinyTime` and `TinyThread`, started again for each promise |
| `TinyCThreadProofs` | the theorems about `TinyOnce`, `TinyTime` and `MCTinyCThread` |

### PageAlloc

A descriptor is a number of `1..NumPages` in address order, 0 is NULL. `free`
and `top` are the pool's; `next`, `prev`, `owner` the fields of each descriptor;
`coreFirst/Last/Count` a core's free list; `memFirst/Count` a task's page list.
`pc`, `hand` and `who` say where the call running on each core is. Two
variables are not in the code: `fault` records that NULL was dereferenced, and
`cache` is a history variable (the core whose free list a descriptor is on)
that no action reads.

| Action | Code |
|---|---|
| `AllocFromCore`, `AllocFromPool`, then `LinkPage` | `kern_alloc_page`; the split is where the page is in nobody's list |
| `FreePage` | `kern_free_page` to the end, or up to the flush |
| `KernFree`, `ClearCore` | the flush: `kern_free` under the global lock, then the reset of the core's list, outside it |
| `FreePageWhileCreating` | `kern_free_page` of a task with a task under creation |
| `Fork`, `Start`, `Cancel`, `Exit` | `kern_fork`, `kern_start`, the end of a task |
| `ReapPage`, `ReapDone` | the loop of `free_task` and what follows it |

Calls that fail change nothing, so they are stuttering steps. `kern_fork` takes
any kernel page that holds no task; that the kernel pool has the same code as
the user pool is why it is not modelled twice. `Init` has one task on each
core. On Windows there is one core (`main` makes one) although
`config.h` says `NUM_CORES 2`; the model and the proofs are for any number.
`win32.c` calls `free_task` at a task's end without the core lock (lines 78 and
90); the model lets it exclude other calls on that core, because nothing else
runs on the core then: `OneThreadRuns` in `Kernel`.

After `Cancel` the calling thread still runs on its freed task page. No
specification says what its calls mean then, and none are modelled here; in
`Kernel` only the end of that thread is.

### Channel

`Send` and `Recv` are the slot halves of `kern_send` and `kern_recv`, each one
step under the core lock. `order` and `spare` are history variables: the
queued slots and the slots given back. `high_priority` is not used by any code,
and `NDL_CMD_HIGH_PRI` is sent like any other command. `udata`, `ref` and the
returned tick play no part.

### Kernel

`kind` says what each kernel page holds: nothing, a task or a channel; `task`
and `chan` are the page seen as either structure, so that a pointer to a page
that was freed and used again is expressible. Bit masks are sets of slots. The
queue of a channel is its length (`queued`), which `Channel` justifies: it
refines `BoundedFifo`. `thread` is what the Windows thread of a task does
(suspended, running, yielded, or `zombie`: running after its task was freed by
`Cancel`), `event` the schedule event. System calls are one step; `Exit` is
`task_thread` after its function returns; `Schedule` is a round of the loop in
`main`.

Facts of the code the model keeps, and which a reader may not expect:

* Nothing takes a task off the asleep list. `kern_send` sets the receiver's
  ready bit only, and the wakeup tick is not used. The second round of the
  `while` in `kern_recv` is therefore never reached, and `Sleep` has no
  continuation. In the model a core may come to rest with every task asleep.
* Send ends cannot be moved, so the sender of a channel is always the task
  that made it. `kern_move` takes `NDL_OBJ_TX(obj)`, the slot still shifted by
  five bits, as an index into `tx[32]` (`channel.c`, lines 198, 211, 237):
  `MoveSender` ends the behaviour with the fault `"bounds"`, and `InsideArrays`
  does not hold. `kern_send` shifts it back (line 85).
* A message with a page to a task that is still being created fails the
  assertion of `transfer_page` (`alloc.c`, line 127): the receiver has no core
  yet. `SendPageToNew` ends the behaviour there with the fault `"core"`, and
  `ReceiverHasCore` does not hold. No message without a page does this.
* After a `Cancel` the caller's thread goes on with its task freed, and frees it
  again when it ends: the fault `"valid"`, an assertion of `os_close_task`
  (`win32.c`, line 167), and `FreedOnce` does not hold.
* `kern_move` of a receive end takes the waiting messages along (`ReadyExact`)
  but not the pages that came with them (`channel.c`, lines 243-255): those stay
  the old receiver's, and the new one cannot free them.
* `schedule_next` with an empty ready list leaves `running` as it was.
* `kern_start` pushes in front of the ready list and nothing rotates it. Of two
  tasks that one task starts, the second runs first, whatever the comment in
  `task.c` (line 69) says of the first.
* There is no `kern_close` or `kern_dispatch` behind their declarations.

`fault` keeps the three apart, so that `kernel_promises` can show each at a start of
its own. Other pages that go with messages are in `PageTransfer`, not here.

### ArmPool

One step per access to memory; `pc` is the assembly's own label. `reserved` is
the word a core has loaded with LDREX and may store with STREX; a store by one
core ends every core's reservation of that word, and any STREX may fail
(`StoreTopFails`, `StoreHeadFails`), which also covers a reservation lost to an
interrupt. `holder` and `back` are history: who was given a descriptor, and what
was released. Three facts of the assembly:

* `release_global` stores the old head back (`StoreHead`), so the free list is
  always empty and what `kern_alloc` does with a non-empty one is unreachable;
  it is left out, and `ListEmpty`, a part of `TopExact`, is why it may be.
* Both routines name one register for the value and for the status of STREX.
  The architecture leaves the outcome open; the model takes the usual one.
* `cpsid aif; cpsie aif` between two tries leaves interrupts on. The interrupt
  handler of this commit only saves and restores registers.

The pool is the one that `start.S` lays out. `struct kern_mem` in C has another
order of fields, which no C code in a build lays out for these routines (section
6, `init.c`).

### SvcDispatch

One step per label of the comparison tree, which is a table here (`Tree`, `Bl`,
`Direct`). `r7` is the one register, the program's outside of a call and the
number of the call inside, and `own` a history variable: the program's r7 at the
`svc`, which `CallerKeepsR7` finds there again. `lr` is the one of svc mode, and
a variable because `bl` overwrites it: after `Handle` the exception return
(`Return`) goes to the kernel's `sys_ret`, in user mode. There the same two
instructions run once more (`Stray`), now on the program's registers, as those
of svc mode are banked: a word of the program's stack is popped into r7, and the
way goes on behind the last call the program itself has made. The names carry a
prefix (`svcPc`, `SvcInit`) because `MCArm` puts the module beside `ArmPool`.

### TinyCnd

`tinycthread.c` is a library that `hosted.c` is written against; it stands in
the kernel's directory and is the largest piece of concurrent code in it. On
Windows it does the work itself, and that branch is modelled.

The library builds a mutex from a critical section, or from a mutex object if it
is timed, and a condition variable from two events, as Windows had none. Each
action is one call of the platform with the plain accesses next to it; `cndAt`
says between which two calls a thread is. What the platform's calls do is said
at the head of the module. `held`, `expired`, `leaked`, `due`, `dueAll`, `merged`,
`stolen` and `late` are history variables: they are updated and never tested,
except that `held` guards what a program may do (it unlocks what it has) and
`expired` bounds the timeouts.

`AbstractMutex` is what the header promises of a mutex. `LockExact` and
`FlagExact` are why the library keeps it: the platform's lock and the flag
`mAlreadyLocked` both say who has the mutex, at every point between two calls.

What the header promises of a condition variable is that a signal unblocks one,
a broadcast all, of the threads that are blocked at the time of the call
(`tinycthread.h`, lines 276, 286), and a thread is blocked from the moment its
wait gives the mutex up (296). `due[t]` counts the signals that t is one of the
threads for and that none of them has been let go for; `dueAll` has the threads a
broadcast is for that have not gone on. A thread that is let go keeps the oldest
promise it is one of, and none if it began to wait after them all. A timeout ends
a wait and what it was promised, and keeps no promise to another.

What the checks show to be wrong:

* `mtx_trylock` by the owner of a timed mutex leaves the mutex object taken
  once too often (`leaked`): line 248 calls `LeaveCriticalSection` whatever
  kind of lock it is. From then on no other thread ever gets the mutex
  (`UnlockFrees`). What that call does to the words beside the handle is
  undefined; the model has them left alone.
* A wait that runs out is never taken off `mWaitersCount` (lines 402-407), so a
  condition variable with one timeout behind it always "has waiters", sets
  events nobody takes and never resets a broadcast (`WaitersExact`). Until the
  first timeout the count is right (`ExactUntilTimeout`).
* A signal is lost (`SignalUnblocksOne`) in two ways, and `SignalLostOnlyByRace`
  says that there is no third: event ONE is set again before the thread it is
  for has taken it, which makes two signals one (`merged`); or a thread that
  began to wait after the signal takes it, and the one that was blocked sleeps on
  (`stolen`). The second needs one signal only.
* A broadcast is lost (`BroadcastUnblocksAll`) in one way, by
  `BroadcastLostOnlyByReset`: the last waiter of the broadcast before has left
  `mWaitersCountLock` and not yet reset event ALL when it is set again (`late`).

### TinyOnce

`call_once`, one step for each access to the status or the lock: the test of the
loop and the switch read the status separately. `calls` and `done` are history
variables. The callback does not call `call_once` on the same flag.

### TinyThread

Threads from `thrd_create` to `thrd_join`, and the list of nodes in which each
keeps its values under keys. The main thread creates and deletes keys at any
time, and a thread sets, overwrites and deletes while it runs, its destructors
set too. Memory is not reused, so that a read of a freed node is seen: it ends
the behaviour, as a call of NULL does (`Crashed`). `marks` and `meddled` are
history variables that say what the program did. Facts of the code:

* `tss_set` never moves the tail on, so the third node of a thread replaces the
  second, which is neither passed to its destructor nor freed (`DtorsCalled`).
* `tss_delete` leaves its node linked behind the predecessor, and sets the tail
  to NULL when it deletes the head; `tss_set` frees a linked node if
  `TlsSetValue` fails. Whoever walks the list next reads freed memory.
* `tss_delete` looks at the calling thread's node only. The nodes of other
  threads stay, and `TlsAlloc` gives out the same index again: their values go
  to the new key's destructor.
* The destructor is read twice (lines 504 and 507), so a deletion between the
  two makes the call one of NULL.

`DeletedNotRead` and `NullNotCalled` say that the program may do all this, and do
not hold. `CrashesExplained` says that there is no other way to such an end, and
`JoinSeesClean` that a program that does none of this, with at most two keys set
by a thread, gets what the header promises.

### TinyTime

Real time in nanoseconds against the milliseconds the library reads and
computes with. For times whose milliseconds fit 32 bits, `TimeoutsHold` says that
a lock and a sleep never end before their time, and that none of the three calls
is much too late. What does not hold:

* `cnd_timedwait` rounds the time it is given down to milliseconds (line 456), so
  it runs out up to a millisecond before that time (`WaitNotEarly`): at 10 ms for
  10.9. `mtx_timedlock` adds a millisecond (line 156).
* Milliseconds beyond 32 bits are cut: a lock that should wait 50 days answers
  `thrd_timedout` at once (`LockNotEarly`). 2^32 - 1 ms are `INFINITE`, which
  `Fits` leaves out.
* `thrd_sleep` stores the time it has slept where `tinycthread.h` (lines 388-392)
  says the time that remains (`RemainingIsLeft`).

## 3. Runs

| Run | Instance | Shows |
|---|---|---|
| `page_alloc` | 2 cores, 3 tasks, 3 pages, quota 2, core list of 1 | `TypeOK`, `ListsMatchOwners`, `OneHome`, `CountsExact`, `CoreListsExact`, `CallsExclusive`, and that the lists implement `PageOwnership` |
| `page_alloc_live` | 2 cores, 2 tasks, 3 pages | `FreeTaskEnds`, under `FairSpec` |
| `channel` | 3 slots, 2 messages | `TypeOK`, `SlotsPartitioned`, `RefusesOnlyWhenFull`, and that the slots implement `BoundedFifo` |
| `kernel` | 4 kernel pages, 2 slots per task, 2 messages per channel | `TypeOK`, `ReadyExact`, `EndsExact`, `SendersReachReceivers`, `DispatchExact`, `SchedulerListsExact`, `OneThreadRuns` |
| `arm` | pool: 2 cores, 3 descriptors, 1 retry; calls: the numbers 0 to 12 and 2^31 - 1 | `TopExact`, that the pool implements `PageOwnership`, `AllocEnds`; `RightHandler`, `CallerKeepsR7`; `ArmTypeOK` |
| `mutex_cond` | 3 threads, a mutex of any type taken twice at most, 1 timeout | `CndTypeOK`, `LockExact`, `FlagExact`, that the mutex implements `AbstractMutex`, `ExactUntilTimeout`, `SignalLostOnlyByRace`, `BroadcastLostOnlyByReset` |
| `tinycthread` | 3 threads in `call_once`; 1 thread, 3 keys, 3 nodes; times of 20 ns | `ExactlyOnce`, `LockUsedReady`, `CallsReturn`; `JoinSeesClean`, `CrashesExplained`, `ThreadsEnd`; `TimeoutsHold`; `TinyTypeOK` |
| `page_promises` | 1 core, 2 tasks, 2 pages | violated: `SomePagePromiseKept`, of `NoFault`, `ListsMatchOwners` |
| `kernel_promises` | 3 kernel pages, 2 slots, 2 messages | violated: `SomeKernelPromiseKept`, of `FreedOnce`, `ReceiverHasCore`, `InsideArrays` |
| `arm_promises` | 1 core, 2 descriptors; the numbers 0, 4, 11 | violated: `SomeArmPromiseKept`, of `ReleasedIsFree`, `ReturnsToCaller` |
| `cnd_promises` | 3 threads, a mutex of any type, 1 timeout | violated: `SomeCndPromiseKept`, of `WaitersExact`, `SignalUnblocksOne`, `BroadcastUnblocksAll`, `UnlockFrees` |
| `tiny_promises` | 1 thread, 3 keys with destructors, 3 nodes; times of 26 ns | violated: `SomeTinyPromiseKept`, of `WaitNotEarly`, `LockNotEarly`, `RemainingIsLeft`, `DeletedNotRead`, `NullNotCalled`, `DtorsCalled` |

The violated ones state what a comment, an assertion or the interface of the
code says and the code does not do; `findings` in `PROJECT.json` quotes them, and
names which of the run's promises each is about. There is one such run for each
part of the system. Its property is weaker than every promise it is made of: it
asks that one of them is kept at any time. TLC finds one behaviour that breaks
them all, so it refutes each, and with it the idea that one of them is only
broken where another holds. Where a broken promise does not end the behaviour
that is a disjunction (`SomePagePromiseKept`, `SomeCndPromiseKept`; for
`ReleasedIsFree`, which is about steps, the history `linked` says that it has held
up to now). Where it does end it, as a failed assertion or a crash, the system is
started again from its initial states, and `broken` has what was broken at the
starts before. A start changes nothing of what is possible in the next: every
variable of the code is as `Init` has it. `WaitersExact` also has a run where it
holds, as long as nothing has run out (`ExactUntilTimeout`), and `ListsMatchOwners`
where no page is sent.

Why the bounds are enough. With two cores, three pages and a quota of two, two
tasks compete for the last page, a quota is reached, a list of two pages exists
to take either end out of, and the pool runs dry. `CoreMax = 1` (32 in the
code) makes a core flush at its second free page, in the middle of `free_task`
as well as at its end. A third task can be under creation while both cores are
busy. `SizeMax` (the largest `size_t`) has to be out of reach of a right count
and reachable for a wrong one. The proofs drop all of these bounds. Three slots
make every configuration of queue, stack and fresh part that differs in
first/middle/last. Four kernel pages hold two tasks and two channels, or three
tasks and a channel, so a channel can move on to a grandchild and a list of
three can lose its middle element; two slots make the renumbering of a moved
channel visible (slot 2 becomes 1), and two messages a channel that is part
full. In `arm` two cores race for each of three descriptors and for the
end of the pool, and one retry (`LOOP_COUNT` is 10) is enough to lose twice and
give up, and there is every number on either side of every limit of the tree.

`arm` and `tinycthread` are sums: `part` says which of the modules a behaviour
belongs to, the others stand still. They share no state, so nothing is left out.
In `mutex_cond` three threads are two waiters and one that wakes them, or a
waiter, a signaller and a third that takes the mutex, or the signal, in between;
a mutex may be taken twice, so a recursive one shows; one timeout is enough to
race a wake-up and to leave its mark on the count. In `tinycthread` one thread
beside the main one is enough for `TinyThread`: the lists are private to their
threads, which meet only in the keys, and the main thread does to those what
another would. Three keys and nodes are the least for the third to replace the
second, two rounds the least for a destructor to set a value again and be heard.
Three nanoseconds to the millisecond and two milliseconds to the second make
every carry and borrow happen within 20 ns, which are times that fit a 3-bit
DWORD and times that are too close to its end for `Fits`; the milliseconds of 26
ns, in `tiny_promises`, are more than it holds and are cut.

Symmetry: tasks, cores, kernel pages and the threads of `mutex_cond` and
`cnd_promises` are interchangeable model values, and no property of those runs
is a liveness property. `MCKernel` has a VIEW that forgets what a freed task
page holds: `kern_fork` and `kern_pipe` clear a page before they use it and no
property reads a free page, `SendersReachReceivers` stating exactly that nobody
can still reach one. `Kernel` runs without a deadlock check because a core whose
tasks have all ended or gone to sleep stops; `PageAlloc` because a machine whose
tasks have all ended does.

Fairness. `FairSpec` has weak fairness for `CpuStep(c)` only: a core that is
inside a system call with its lock held goes on executing. Nothing blocks it
except the global lock, which its holders give up within three statements.
Whether a task makes a system call at all is left open. `PoolFairness` of `ArmPool`
is weak fairness for `AllocStep(c)`: a core inside `kern_alloc` executes its
next instruction. It says nothing of which STREX succeed: `kern_alloc` ends
because it counts its tries. `release_global` does not count, so that it ends
is not claimed. `OnceFairness` is weak fairness for each thread
inside `call_once`, callback included, which the operating system's scheduling
gives; strong fairness for the lock is not needed, because each caller enters
it in turn and the lock is free for good after the last has left.
`ThreadFairness` is the same for a thread at its end, and says that destructors
return. `TinyCnd` has none: a thread may wait for ever, and does when its
wake-up is lost. `Kernel` has no
liveness property: the code promises no task that it will be run.

## 4. Proofs

`PageAllocProofs` assumes `ConstantsOK` only: any sets of cores and tasks, any
number of pages, any quota and core list size, and a `size_t` that can count
the pages.

The inductive invariant `IInv` is the conjunction of the invariants that the
run checks. None is inductive by itself. A page list stays exact when another
list changes only because the two share no page (`OneHome`); taking a page of
the core's list off is right only because that list is (`CoreListsExact`), and
so on round; the page in the hand of `kern_alloc_page` is linked to a task that
is still there and below its quota only because no other call acts for that
task (`CallsExclusive`). Lists are stated with a ranking (`IsList`): the head
has the highest rank, each link leads one rank down, NULL follows rank one.
This needs no recursion, so the provers can use it. `PageListLemmas` has one
lemma for each thing the code does to a list: push, pop, remove from the
middle, concatenate. `ListsStep`, `CoresStep`, `HomeStep` and `CallsStep` reduce
each part of the invariant to the tasks, cores and pages a step touches, and
there is one lemma per action. From `IInv` follow:

* `TypeCorrect`, `ListsMatchOwnersHolds`, `OneHomeHolds`, `CountsExactHolds`,
  `CoreListsExactHolds`, `CallsExclusiveHolds`;
* `PagesOwnedHolds`: every step maps to a grant, a release or a stutter of
  `PageOwnership`.

`ChannelProofs` assumes `NumMsgsOK` (at least one slot). `IInv` is `TypeOK` with
`SlotsPartitioned`: the queue and the stack of given-back slots are disjoint
chains. From it follow `TypeCorrect`, `SlotsPartitionedHolds`,
`RefusesOnlyWhenFullHolds`, and `IsFifoHolds`: a send is a `Put` and a receive a
`Get` of `BoundedFifo`.

`KernelProofs` assumes `KernelConstants` only: any set of kernel pages, any number
of slots and at least one message per channel. `IInv` is the seven invariants of
the run with two facts of where things come from. `CreatingExact`: a task under
creation has one creator and no thread, so `kern_start` puts it in a list for the
first time and `kern_move` fills slots of a task that has never looked.
`SendEndsKept`: only a task that has run holds a send end, which is why the
receiver a channel names is still there. `MailExact` (masks and ends of channels)
and `CoreExact` (lists and threads) need each other: that `os_yield` stops the
caller is what lets every call be one step of one task, and that a channel's
receiver is not asleep is kept because only the running task can send. The module
has first what `PushFront` and `Unlink` do to a task list, then what each call
writes (`...Writes`), then one lemma per call for `CoreExact` and one for
`MailExact`. Task lists have no cycle because every set of listed tasks has one
whose predecessor is outside of it; that needs no recursion. From `IInv` follow
all seven, `OneThreadRunsHolds` among them, which `PageAlloc` relies on (section
2).

`ArmProofs` assumes `ArmPoolConstants` and `SvcConstants`: any cores, any number
of descriptors and retries; that numbers are naturals. `TypeOK` and `TopExact`
are inductive together: `ReservedTop` (a reservation that stands means top has
not moved) makes the store to top safe, `BelowTop` turns that into "nobody has
this one". From it follow `TypeCorrect`, `TopExactHolds` and
`DescriptorsOwnedHolds`. For the system call `Region` says which numbers come to
which label, and `Pushed` that what is on the stack is the program's own r7;
with them `RightHandler` is inductive, for every number, and `CallerKeepsR7`
follows. It is about the r7 of this very call, and not just any value a register
may hold. `ArmPartsHold`: what TLC checks in one run is a model of both, and its
type invariant holds of it (`ArmTypeCorrect`).

`TinyCndProofs` assumes `TinyCndConstants` only: any finite set of threads, and any
bounds. `CndIInv` has two halves. `MutexExact` adds to `LockExact` and `FlagExact`
that a mutex that is not recursive is had once and that a leaked lock is never
given back. `WaitExact` has what stands for each promise that is not kept. After
any number of timeouts `mWaitersCount` is the number of threads in a wait and the
timeouts (`WaitersCounted`), so it is never too small, and a signal that finds
nobody to count has nobody to wake. `EventsUnblock` (nobody is blocked while an
event is set) is why a signal that is due and a thread that is blocked do not go
together: without a race a thread has one signal due at most, and that is event ONE
(`SignalKept`); and what a broadcast has still to wake is on its way to event ALL,
which no thread is about to reset (`BroadcastKept`). Sets of threads are counted
before and after a step that moves one or two of them (`CountDiffers`). From it
follow the five invariants and `IsMutexHolds`: a step is a `Take` or a `Give` of
`AbstractMutex`, or leaves who has the mutex as it is.

`TinyThreadProofs` assumes `TinyThreadConstants`: any threads, at least one key, any
number of nodes and rounds. `ThreadIInv` says of each thread whose its nodes and
pointers are (`OwnNodes`), that the list is gone after the clean-up (`ListGone`),
and what its list looks like as long as it has deleted no key and met no failure
(`CleanList`: it begins with the first node, all are live; `SimpleList`: up to two
nodes are all in it). `ValuesGiven` is the argument for the destructors: behind
the point a round has come to, no node of a simple thread has a value unless a
destructor was called in this round, in which case there will be another. The walk
of the list, `From`, is a recursive function; `Induction` proves from the theorems
on finite sets that a set of naturals with 0 and all successors is `Nat`, as those
of the library that take an operator cannot be used, and `WalkExists`, `WalkStays`
and `FromFacts` say with it what a walk of any length meets. From `ThreadIInv`
follow `ThreadTypeCorrect`, `JoinSeesCleanHolds` and `CrashesExplainedHolds`.

`TinyCThreadProofs` has the rest of that library. `call_once` assumes
`TinyOnceConstants`: any threads. `OnceIInv` adds to the properties who the first
caller is: at most one thread is between the exchange of the status and the end of
the call (`OneFirst`), its place decides the status (`StatusOfFirst`), and the status
what the lock and the callback have been through (`StatusTells`). The times assume
`TinyTimeConstants`: units of any positive size, any horizon. `TimeIInv` is the
properties themselves, inductive as each call sets all they are about; the work is
in the lemmas on division (`MsClose`, `InMsExact`, `PastExact`), which bound what
`mtx_timedlock`, `cnd_timedwait` and `thrd_sleep` round (`LockRounds`, `WaitRounds`,
`SleepRounds`). `TinyPartsHold` shows that the one model TLC checks is a model of
each of the three parts, and `TinyTypeCorrect` that its type invariant holds of it.

What each inductive invariant adds to the properties was checked by TLC on the
run's own instance, and on a second one with two threads for `ThreadIInv`, before
it was proved.

Every safety property of a passing run is now a theorem. Model-checked only:
`FreeTaskEnds`, `AllocEnds`, `CallsReturn` and `ThreadsEnd`, which are liveness and
out of the prover's reach, and of course the properties that do not hold. No
theorem is about `PageTransfer`.

## 5. Plan

Done, in this order, because the lists of pages are what the whole kernel
stands on: `PageAlloc` with `PageOwnership`, `PageTransfer`, the proofs; then
`Channel` with `BoundedFifo` and its proofs; then `Kernel`; then the parts of
the ARM assembly that hang together, `ArmPool` and `SvcDispatch`, with proofs;
then the Windows branch of `tinycthread.c`, with a proof about `call_once`; then
the proofs about `Kernel` and the rest of `tinycthread.c`; then what the condition
variable promises to whom, and runs in which the promises of the code's
comments, headers and assertions that it does not keep are broken.

Next:

1. Action properties that say what a call may never do, from the invariants
   that are proved: `kern_free_page` touches no page of another task; a message
   is taken from a slot only by the task that holds it.
2. `Kernel` composed with `Channel` and `PageAlloc` where they share a step: a
   send takes a slot, moves a page and sets a mask.

## 6. Not modelled

* Build files, `needle-heap.h`, `release.c` have no behaviour; `send.c` and
  `hosted-posix.c` are remains of earlier versions that nothing calls and no
  build includes.
* Handles, TLS and `VirtualAlloc` in `win32.c`; that the first task's thread may
  start before `main` has stored its handle (line 124).
* `hosted.c`: `os_start_task` does not store the function of the task it starts,
  so no task of that back end runs, and the calls the core makes
  (`os_yield`, `os_setup_task`, `os_resume_task`) are not in it.
* The POSIX branch of `tinycthread.c` passes its calls on to pthreads. Of the
  Windows branch: the destructors of mutexes and condition variables,
  `thrd_detach`, `thrd_current`, `thrd_equal`, `thrd_yield`, `tss_get`, which
  have no state of their own; a thread that ends with a mutex
  (`WAIT_ABANDONED`); failures of the platform other than of `CreateThread` and
  `TlsSetValue`. A condition variable is used with one mutex.
* `arm/alloc.S` is commented out of `kernel.S`, so in this build no page ever has
  an owner, and `arm/release.S`, which is built, has nothing to release (and
  loads where it should store, lines 73 and 113). It flushes a core's list at 32
  pages, the C code above 32.
* `init.c` does not compile (`struct stacks` is declared nowhere, `globals` twice,
  the second time without a semicolon) and is in no build. It lays a
  pool out in the order of `struct kern_mem`, with `begin` where `arm/global-alloc.S` (line 7) reads the end.
* Ticks. `kern_recv` takes a wakeup tick and does nothing with it. `kern_tick`
  hands out milliseconds times 1000 / 32768, where `NDL_TICK_PER_SEC` says 32768
  in a second.
* A quota check in `transfer_page`, and what `kern_move` answers to an address
  that is not a page of the caller (line 232): neither changes state that a
  property here could be about.
* The data a message carries, and time in the kernel.
